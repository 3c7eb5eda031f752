---------------------------- MODULE UnixChannel ----------------------------
(***************************************************************************)
(* The UnixSocket transport (src/src/communication/unix_socket.rs), piece  *)
(* by piece.                                                               *)
(*                                                                         *)
(* A connection is two byte streams of bounded size.  A message is a line  *)
(* (or a length and a body) that may be written, and arrive, in pieces; a  *)
(* line here has two.  The server accepts in one task and serves every     *)
(* connection in a task of its own, a loop around a select! of a read and  *)
(* of the connection's receiver of the broadcast channel.  What a read has *)
(* consumed is local to the read: when the broadcast wins it is lost.  A   *)
(* request is handled, broadcast to everyone, and answered.  The broadcast *)
(* channel keeps the last few messages; a receiver that is further behind  *)
(* continues with the oldest of these.                                     *)
(*                                                                         *)
(* The client is any caller of connect, send_message, receive_message and  *)
(* disconnect, who may drop a call it waits for.  Which process may bind   *)
(* the socket is the subject of SingleInstance.                            *)
(***************************************************************************)
EXTENDS Naturals, Sequences, FiniteSets

CONSTANTS
  Messages,    \* what clients send, each at most once
  Hosted,      \* what the primary broadcasts itself, each at most once
  MaxConns,    \* bound: how many connections are made
  Cases        \* the executions to consider, with their bounds

ASSUME NamesAssumption == Messages \cap Hosted = {}
ASSUME BoundsAssumption == MaxConns \in Nat
\* The format of both ends; the pieces a socket buffer holds; the messages the
\* broadcast channel keeps (100 in the code, which tokio rounds up); which calls
\* are dropped, whether stop is called or a server dies; what the primary may
\* broadcast; bounds on the connections and on what is sent and broadcast.
ASSUME CasesAssumption ==
  Cases \subseteq [format : {"Json", "MsgPack"}, room : Nat \ {0}, capacity : Nat \ {0},
                   faults : SUBSET {"send", "receive", "stop", "crash"},
                   hosts : SUBSET Hosted,
                   conns : 0..MaxConns, traffic : Nat]

VARIABLES
  case,     \* the case of this execution
  loop,     \* the accept loop: at its condition, in accept, ended, or dead
  running,  \* is_running of the server
  backlog,  \* connections made and not accepted yet
  log,      \* everything sent to the broadcast channel
  task,     \* task[c]: the server's task of connection c
  inpart,   \* inpart[c]: what its pending read has consumed
  out,      \* out[c]: what its write_all has left
  pos,      \* pos[c]: where in the log its broadcast receiver is
  client,   \* client[c]: the client's end of connection c
  wr,       \* wr[c]: what the client's write_all has left
  rdpart,   \* rdpart[c]: what the client's pending read has consumed
  up,       \* up[c]: pieces on their way to the server
  down,     \* down[c]: pieces on their way to the client
  sent,     \* sent[c]: the messages the client has begun to write (history)
  served,   \* served[c]: the messages the handler was called with (history)
  got,      \* got[c]: what receive_message returned (history)
  cut,      \* reads and writes that were dropped half-way (history)
  lagged,   \* connections whose receiver has lagged (history)
  crashed   \* connections whose server has died (history)

accepting == <<loop, running, backlog>>
serving   == <<task, inpart, out, pos>>
calling   == <<client, wr, rdpart>>
streams   == <<up, down>>
history   == <<sent, served, got, cut, lagged, crashed>>
vars      == <<case, accepting, log, serving, calling, streams, history>>

Conns == 1..MaxConns

\* A request or its reply is named by the message, a broadcast by its index.
Items == ({"request", "reply"} \X Messages) \cup ({"cast"} \X Nat)
Pieces == [item : Items, end : BOOLEAN]
Line(i) == <<[item |-> i, end |-> FALSE], [item |-> i, end |-> TRUE]>>

\* The first k pieces of a stream end a line: '\n' is read to.
EndsAt(stream, k) ==
  stream[k].end /\ \A j \in 1..(k - 1) : ~stream[j].end
NoEnd(stream) == \A j \in DOMAIN stream : ~stream[j].end

\* A write moves what there is room for, if anything.
Fits(rest, stream) ==
  {n \in 1..Len(rest) : /\ Len(stream) + n <= case.room
                        /\ n = Len(rest) \/ Len(stream) + n = case.room}
Taken(s, n) == SubSeq(s, 1, n)
Left(s, n) == SubSeq(s, n + 1, Len(s))

Init ==
  /\ case \in Cases
  /\ loop = "check" /\ running = TRUE /\ backlog = <<>>
  /\ log = <<>>
  /\ task = [c \in Conns |-> "none"]
  /\ inpart = [c \in Conns |-> <<>>]
  /\ out = [c \in Conns |-> <<>>]
  /\ pos = [c \in Conns |-> 0]
  /\ client = [c \in Conns |-> "none"]
  /\ wr = [c \in Conns |-> <<>>]
  /\ rdpart = [c \in Conns |-> <<>>]
  /\ up = [c \in Conns |-> <<>>]
  /\ down = [c \in Conns |-> <<>>]
  /\ sent = [c \in Conns |-> <<>>]
  /\ served = [c \in Conns |-> <<>>]
  /\ got = [c \in Conns |-> <<>>]
  /\ cut = {} /\ lagged = {} /\ crashed = {}

-----------------------------------------------------------------------------
(* The client.                                                             *)

\* The kernel puts the connection into the backlog of the listening socket.
ConnectToSend(c, line) ==
  /\ client[c] = "none" /\ c <= case.conns
  /\ \A d \in 1..(c - 1) : client[d] # "none"
  /\ loop \in {"check", "accept"}
  /\ client' = [client EXCEPT ![c] = "open"]
  /\ wr' = [wr EXCEPT ![c] = line]
  /\ backlog' = Append(backlog, c)
  /\ UNCHANGED <<case, loop, running, log, serving, rdpart, streams, history>>

Connect(c) == ConnectToSend(c, <<>>)

WasSent(m) ==
  \E c \in Conns : \/ \E i \in DOMAIN sent[c] : sent[c][i] = m
                   \/ \E i \in DOMAIN wr[c] : wr[c][i].item[2] = m

\* How much has been sent and broadcast: a bound.
Begun == {m \in Messages : WasSent(m)} \cup {h \in Hosted : \E i \in DOMAIN log : log[i] = h}
MoreTraffic == Cardinality(Begun) < case.traffic

\* send_message holds the writer while it writes.
BeginSend(c, m) ==
  /\ client[c] \in {"open", "garbled"}
  /\ wr[c] = <<>>
  /\ ~WasSent(m) /\ MoreTraffic
  /\ wr' = [wr EXCEPT ![c] = Line(<<"request", m>>)]
  /\ UNCHANGED <<case, accepting, log, serving, client, rdpart, streams, history>>

Write(c) ==
  /\ task[c] # "ended"
  /\ \E n \in Fits(wr[c], up[c]) :
       /\ up' = [up EXCEPT ![c] = @ \o Taken(wr[c], n)]
       /\ wr' = [wr EXCEPT ![c] = Left(@, n)]
  /\ sent' = IF wr[c][1].end THEN sent
             ELSE [sent EXCEPT ![c] = Append(@, wr[c][1].item[2])]
  /\ UNCHANGED <<case, accepting, log, serving, client, rdpart, down,
                 served, got, cut, lagged, crashed>>

\* EPIPE: nobody reads any more.
WriteFails(c) ==
  /\ task[c] = "ended"
  /\ wr[c] # <<>>
  /\ wr' = [wr EXCEPT ![c] = <<>>]
  /\ UNCHANGED <<case, accepting, log, serving, client, rdpart, streams, history>>

\* The caller drops send_message: what was written stays written.
DropSend(c) ==
  /\ "send" \in case.faults
  /\ wr[c] # <<>>
  /\ wr' = [wr EXCEPT ![c] = <<>>]
  /\ cut' = cut \cup {<<c, "send">>}
  /\ UNCHANGED <<case, accepting, log, serving, client, rdpart, streams,
                 sent, served, got, lagged, crashed>>

\* receive_message consumes what there is of a line.
ReceivePart(c) ==
  /\ client[c] = "open"
  /\ down[c] # <<>> /\ NoEnd(down[c])
  /\ rdpart' = [rdpart EXCEPT ![c] = @ \o down[c]]
  /\ down' = [down EXCEPT ![c] = <<>>]
  /\ UNCHANGED <<case, accepting, log, serving, client, wr, up, history>>

\* It returns a whole line.  A line that lacks its beginning is an error; the
\* next call starts with the next line, but in MsgPack the wrong length may make
\* this one wait for what follows.
ReceiveLine(c, kinds) ==
  /\ client[c] = "open"
  /\ \E k \in DOMAIN down[c] :
       /\ EndsAt(down[c], k)
       /\ down' = [down EXCEPT ![c] = Left(@, k)]
       /\ rdpart' = [rdpart EXCEPT ![c] = <<>>]
       /\ LET line == rdpart[c] \o Taken(down[c], k)
              i == down[c][k].item
          IN  IF line = Line(i)
              THEN /\ got' = [got EXCEPT ![c] = IF i[1] \in kinds THEN Append(@, i) ELSE @]
                   /\ UNCHANGED client
              ELSE /\ \E s \in IF case.format = "Json" THEN {"open"} ELSE {"open", "garbled"} :
                        client' = [client EXCEPT ![c] = s]
                   /\ UNCHANGED got
  /\ UNCHANGED <<case, accepting, log, serving, wr, up,
                 sent, served, cut, lagged, crashed>>

ReceiveAnswers(c) ==
  ReceiveLine(c, IF \A i \in DOMAIN sent[c] : \E k \in DOMAIN got[c] : got[c][k] = <<"reply", sent[c][i]>>
                 THEN {"reply", "cast"} ELSE {"reply"})
Receive(c) == ReceiveLine(c, {"reply", "cast"})

\* What follows in MsgPack is the inside of some message.  Once there is enough
\* for the wrong length the call returns an error, and the next one takes what
\* comes then for a length.
ReceiveGarbled(c) ==
  /\ client[c] = "garbled"
  /\ \E n \in DOMAIN down[c] :
       /\ down' = [down EXCEPT ![c] = Left(@, n)]
       /\ \E s \in IF n = Len(down[c]) THEN {"open", "garbled"} ELSE {"open"} :
            client' = [client EXCEPT ![c] = s]
  /\ UNCHANGED <<case, accepting, log, serving, wr, rdpart, up, history>>

\* The caller drops receive_message: what it consumed is lost.
DropReceive(c) ==
  /\ "receive" \in case.faults
  /\ (client[c] = "open" /\ rdpart[c] # <<>>) \/ client[c] = "garbled"
  /\ rdpart' = [rdpart EXCEPT ![c] = <<>>]
  /\ client' = [client EXCEPT ![c] = "open"]
  /\ cut' = cut \cup {<<c, "receive">>}
  /\ UNCHANGED <<case, accepting, log, serving, wr, streams,
                 sent, served, got, lagged, crashed>>

\* disconnect, or the end of the process: what was written can still be read.
Close(c) ==
  /\ client[c] \in {"open", "garbled"}
  /\ client' = [client EXCEPT ![c] = "closed"]
  /\ wr' = [wr EXCEPT ![c] = <<>>]
  /\ rdpart' = [rdpart EXCEPT ![c] = <<>>]
  /\ down' = [down EXCEPT ![c] = <<>>]
  /\ UNCHANGED <<case, accepting, log, serving, up, history>>

-----------------------------------------------------------------------------
(* The accept loop.                                                        *)

Running(c) == task[c] \in {"open", "garbled"}

\* while is_running: at its end the path is removed and the listener dropped,
\* which resets the connections nobody accepted.
CheckRunning ==
  /\ loop = "check"
  /\ IF running
     THEN /\ loop' = "accept"
          /\ UNCHANGED <<backlog, task>>
     ELSE /\ loop' = "ended"
          /\ backlog' = <<>>
          /\ task' = [c \in Conns |-> IF \E i \in DOMAIN backlog : backlog[i] = c
                                      THEN "ended" ELSE task[c]]
  /\ UNCHANGED <<case, running, log, inpart, out, pos, calling, streams, history>>

\* The receiver subscribes here: it gets what is broadcast from now on.
Spawn(then) ==
  /\ loop = "accept" /\ backlog # <<>>
  /\ loop' = then
  /\ backlog' = Tail(backlog)
  /\ task' = [task EXCEPT ![Head(backlog)] = "open"]
  /\ pos' = [pos EXCEPT ![Head(backlog)] = Len(log)]
  /\ UNCHANGED <<case, running, log, inpart, out, calling, streams, history>>

AcceptOnce == Spawn("ended")
Accept == Spawn("check")

\* stop() wakes nobody: accept waits for one more connection.
Stop ==
  /\ "stop" \in case.faults
  /\ running /\ loop # "dead"
  /\ running' = FALSE
  /\ UNCHANGED <<case, loop, backlog, log, serving, calling, streams, history>>

\* The primary's own broadcast; the handles of the server outlive stop().
HostBroadcast(h) ==
  /\ h \in case.hosts /\ loop # "dead" /\ MoreTraffic
  /\ \A i \in DOMAIN log : log[i] # h
  /\ log' = Append(log, h)
  /\ UNCHANGED <<case, accepting, serving, calling, streams, history>>

\* The process dies: nobody reads or writes at its ends any more.
Crash ==
  /\ "crash" \in case.faults /\ loop # "dead" /\ crashed = {}
  /\ crashed' = {c \in Conns : client[c] # "none"}
  /\ loop' = "dead" /\ running' = FALSE /\ backlog' = <<>>
  /\ task' = [c \in Conns |-> IF client[c] = "none" THEN "none" ELSE "ended"]
  /\ inpart' = [c \in Conns |-> <<>>]
  /\ out' = [c \in Conns |-> <<>>]
  /\ UNCHANGED <<case, log, pos, calling, streams,
                 sent, served, got, cut, lagged>>

\* A new process binds the socket; its broadcast channel has no receivers yet.
Start ==
  /\ loop = "dead"
  /\ loop' = "check" /\ running' = TRUE
  /\ UNCHANGED <<case, backlog, log, serving, calling, streams, history>>

-----------------------------------------------------------------------------
(* handle_client: the task of a connection.                                *)

\* The select! is polled: no write is in progress.
Selecting(c) == Running(c) /\ out[c] = <<>>

\* The read is pending: it has consumed what there is of a line.
ReadPart(c) ==
  /\ Selecting(c) /\ task[c] = "open"
  /\ up[c] # <<>> /\ NoEnd(up[c])
  /\ inpart' = [inpart EXCEPT ![c] = @ \o up[c]]
  /\ up' = [up EXCEPT ![c] = <<>>]
  /\ UNCHANGED <<case, accepting, log, task, out, pos, calling, down, history>>

\* A whole request: the handler is called, the request is broadcast, and the
\* response is written before the select! is polled again.
Handle(c, k, answers) ==
  LET m == up[c][k].item[2]
  IN  /\ up' = [up EXCEPT ![c] = Left(@, k)]
      /\ served' = [served EXCEPT ![c] = Append(@, m)]
      /\ log' = Append(log, m)
      /\ out' = [out EXCEPT ![c] = answers]
      /\ inpart' = [inpart EXCEPT ![c] = <<>>]
      /\ UNCHANGED <<case, accepting, task, pos, calling, down,
                     sent, got, cut, lagged, crashed>>

\* The read has come to the k-th piece, which ends a line.
LineRead(c, k) == Selecting(c) /\ task[c] = "open" /\ EndsAt(up[c], k)
IsWhole(c, k) == inpart[c] \o Taken(up[c], k) = Line(up[c][k].item)
Answer(c, k) == Line(<<"reply", up[c][k].item[2]>>)

HandleAnyLine(c) == \E k \in DOMAIN up[c] : LineRead(c, k) /\ Handle(c, k, Answer(c, k))
EchoFirst(c) ==
  \E k \in DOMAIN up[c] :
    /\ LineRead(c, k) /\ IsWhole(c, k)
    /\ Handle(c, k, Line(<<"cast", Len(log) + 1>>) \o Answer(c, k))
HandleRequest(c) ==
  \E k \in DOMAIN up[c] : LineRead(c, k) /\ IsWhole(c, k) /\ Handle(c, k, Answer(c, k))

\* A line that lacks its beginning, or has another one's: the task ends.  In
\* MsgPack the length is wrong, and the read may wait for the bytes instead.
ReadGarbage(c) ==
  /\ \E k \in DOMAIN up[c] :
       /\ LineRead(c, k) /\ ~IsWhole(c, k)
       /\ up' = [up EXCEPT ![c] = Left(@, k)]
  /\ \E t \in IF case.format = "Json" THEN {"ended"} ELSE {"ended", "garbled"} :
       task' = [task EXCEPT ![c] = t]
  /\ inpart' = [inpart EXCEPT ![c] = <<>>]
  /\ UNCHANGED <<case, accepting, log, out, pos, calling, down, history>>

ReadGarbled(c) ==
  /\ Selecting(c) /\ task[c] = "garbled"
  /\ up[c] # <<>>
  /\ up' = [up EXCEPT ![c] = <<>>]
  /\ \E t \in {"ended", "garbled"} : task' = [task EXCEPT ![c] = t]
  /\ UNCHANGED <<case, accepting, log, inpart, out, pos, calling, down, history>>

EndTask(c) ==
  /\ task' = [task EXCEPT ![c] = "ended"]
  /\ inpart' = [inpart EXCEPT ![c] = <<>>]
  /\ UNCHANGED <<case, accepting, log, out, pos, calling, streams, history>>

\* The client has gone and everything it wrote is read.
EndWhenEmpty(c) == Selecting(c) /\ up[c] = <<>> /\ EndTask(c)
ReadEnd(c) == Selecting(c) /\ up[c] = <<>> /\ client[c] = "closed" /\ EndTask(c)

\* The other branch completes: the read is dropped with what it consumed, and
\* the next one takes what comes then for a line or a length.  A read that had
\* lost its place may so find a place again, behind what it consumed.
Lost(c) == (IF inpart[c] # <<>> THEN {<<c, "read">>} ELSE {})
           \cup (IF task[c] = "garbled" THEN {<<c, "stray">>} ELSE {})
DropRead(c) ==
  /\ inpart' = [inpart EXCEPT ![c] = <<>>]
  /\ task' = [task EXCEPT ![c] = "open"]
  /\ cut' = cut \cup Lost(c)

\* Item i is taken from the channel and written; the receiver is then at p.
Deliver(c, i, p) ==
  /\ pos' = [pos EXCEPT ![c] = p]
  /\ out' = [out EXCEPT ![c] = Line(<<"cast", i>>)]
  /\ DropRead(c)
  /\ UNCHANGED <<case, accepting, log, calling, streams,
                 sent, served, got, lagged, crashed>>

Behind(c) == Len(log) - pos[c]
CanTake(c) == Selecting(c) /\ Behind(c) \in 1..case.capacity

TakeFromWrongEnd(c) == CanTake(c) /\ Deliver(c, Behind(c), pos[c] + 1)
TakeNewest(c) == CanTake(c) /\ Deliver(c, Len(log), Len(log))
TakeBroadcast(c) == CanTake(c) /\ Deliver(c, pos[c] + 1, pos[c] + 1)

\* RecvError::Lagged: the receiver continues with the oldest message it can get.
LagTo(c, p) ==
  /\ Selecting(c)
  /\ Behind(c) > case.capacity
  /\ pos' = [pos EXCEPT ![c] = p]
  /\ lagged' = lagged \cup {c}
  /\ DropRead(c)
  /\ UNCHANGED <<case, accepting, log, out, calling, streams,
                 sent, served, got, crashed>>

LagBack(c) == LagTo(c, pos[c] - case.capacity)
Lag(c) == LagTo(c, Len(log) - case.capacity)

Respond(c) ==
  /\ Running(c) /\ client[c] # "closed"
  /\ \E n \in Fits(out[c], down[c]) :
       /\ down' = [down EXCEPT ![c] = @ \o Taken(out[c], n)]
       /\ out' = [out EXCEPT ![c] = Left(@, n)]
  /\ UNCHANGED <<case, accepting, log, task, inpart, pos, calling, up, history>>

\* EPIPE: a response is given up, after a broadcast the task ends, with
\* everything the client has written and it has not read.
RespondFails(c) ==
  /\ Running(c) /\ client[c] = "closed" /\ out[c] # <<>>
  /\ task' = [task EXCEPT ![c] = IF out[c][1].item[1] = "cast" THEN "ended" ELSE @]
  /\ out' = [out EXCEPT ![c] = <<>>]
  /\ UNCHANGED <<case, accepting, log, inpart, pos, calling, streams, history>>

WithoutRequest(c) ==
  \/ ReadPart(c) \/ ReadGarbage(c) \/ ReadGarbled(c) \/ ReadEnd(c)
  \/ TakeBroadcast(c) \/ Lag(c) \/ Respond(c) \/ RespondFails(c)
Serve(c) == HandleRequest(c) \/ WithoutRequest(c)

-----------------------------------------------------------------------------
Sending(c) == Write(c) \/ WriteFails(c)
Receiving(c) == ReceivePart(c) \/ Receive(c) \/ ReceiveGarbled(c)
Accepting == CheckRunning \/ Accept

Next ==
  \/ \E c \in Conns :
       \/ Connect(c) \/ Close(c)
       \/ \E m \in Messages : BeginSend(c, m)
       \/ Sending(c) \/ DropSend(c)
       \/ Receiving(c) \/ DropReceive(c)
       \/ Serve(c)
  \/ Accepting \/ Stop
  \/ \E h \in Hosted : HostBroadcast(h)
  \/ Crash \/ Start

Spec == Init /\ [][Next]_vars

\* The tasks run, and a client that is connected goes on writing what it has
\* begun and receiving (the reader and the writer have locks of their own).
Fairness ==
  /\ WF_vars(Accepting)
  /\ \A c \in Conns :
       WF_vars(Sending(c)) /\ WF_vars(Receiving(c)) /\ WF_vars(Serve(c))

FairSpec == Spec /\ Fairness

-----------------------------------------------------------------------------
(* Properties.                                                             *)

\* Every variable has its type.
TypeOK ==
  /\ case \in Cases
  /\ loop \in {"check", "accept", "ended", "dead"} /\ running \in BOOLEAN
  /\ backlog \in Seq(Conns)
  /\ log \in Seq(Messages \cup Hosted)
  /\ task \in [Conns -> {"none", "open", "garbled", "ended"}]
  /\ client \in [Conns -> {"none", "open", "garbled", "closed"}]
  /\ pos \in [Conns -> Nat]
  /\ \A s \in {inpart, out, wr, rdpart, up, down} : s \in [Conns -> Seq(Pieces)]
  /\ sent \in [Conns -> Seq(Messages)]
  /\ served \in [Conns -> Seq(Messages)]
  /\ got \in [Conns -> Seq(Items)]
  /\ cut \subseteq Conns \X {"send", "receive", "read", "stray"}
  /\ lagged \subseteq Conns
  /\ crashed \subseteq Conns

\* Over a connection the server handles what the client sent, in its order and
\* without a gap, however the pieces arrive: one cut does not hide a loss, what
\* is read behind it is no message.  It takes a second one: a broadcast that drops
\* the read of what a dropped send left, or, in MsgPack, the read of a task that
\* has lost its place (unix_socket.rs:114, 127-139).
ServedInOrder ==
  \A c \in Conns :
    \/ /\ Len(served[c]) <= Len(sent[c])
       /\ \A i \in DOMAIN served[c] : served[c][i] = sent[c][i]
    \/ {<<c, "send">>, <<c, "read">>} \subseteq cut
    \/ <<c, "stray">> \in cut

IsReply(i) == i[1] = "reply"
IsCast(i) == i[1] = "cast"
Whole(c) == <<c, "receive">> \notin cut

\* A client that finishes its reads gets the answers in the order of its
\* requests, and its own request as a broadcast only after the answer to it,
\* although the server broadcasts first (unix_socket.rs:163).
AnswersFirst ==
  \A c \in Conns : Whole(c) =>
    LET Answered(i, k) == \E j \in 1..(k - 1) : got[c][j] = <<"reply", served[c][i]>>
    IN  \A k \in DOMAIN got[c] :
          /\ IsReply(got[c][k]) =>
               \E n \in DOMAIN served[c] :
                 /\ got[c][k] = <<"reply", served[c][n]>> /\ ~Answered(n, k)
                 /\ \A i \in 1..(n - 1) : Answered(i, k)
          /\ IsCast(got[c][k]) =>
               \A i \in DOMAIN served[c] : log[got[c][k][2]] = served[c][i] => Answered(i, k)

\* Between two broadcasts a client gets it misses none, unless its receiver
\* lagged or it dropped a read itself.
CastsOf(c) == {k \in DOMAIN got[c] : IsCast(got[c][k])}
NoSilentGap ==
  \A c \in Conns : Whole(c) /\ c \notin lagged =>
    \A j, k \in CastsOf(c) :
      j < k /\ (\A l \in CastsOf(c) : l <= j \/ k <= l) => got[c][k][2] = got[c][j][2] + 1

Damaged(c) == \E side \in {"send", "read"} : <<c, side>> \in cut

\* The accept loop ended after stop() before it came to the connection.
Unaccepted(c) == loop = "ended" /\ ~running /\ served[c] = <<>> /\ got[c] = <<>>

\* A server that lives ends the connection of a client that has not gone only
\* after a line was cut: its own read by a broadcast, or the client's write.
\* stop() ends nothing that is being served.
EndsForCause ==
  \A c \in Conns :
    task[c] = "ended" /\ client[c] \in {"open", "garbled"} /\ c \notin crashed
      => Damaged(c) \/ Unaccepted(c)

\* The broadcasts a client gets over a connection are those of the channel, each
\* at most once and in its order.
LastCast(c) == got[c][CHOOSE k \in CastsOf(c) : \A j \in CastsOf(c) : j <= k][2]

Broadcasts == INSTANCE OrderedBroadcast WITH
  Messages <- Messages \cup Hosted,
  Clients <- Conns,
  published <- {[msg |-> log[i], epoch |-> 1, index |-> i] : i \in DOMAIN log},
  at <- [c \in Conns |-> IF CastsOf(c) = {} THEN <<0, 0>> ELSE <<1, LastCast(c)>>],
  got <- [c \in Conns |-> {log[got[c][k][2]] : k \in CastsOf(c)}]
InOrder == Broadcasts!Spec

\* What ends a connection early: the client left, the server died, or it had
\* stopped.
Gone(c) == client[c] = "closed" \/ c \in crashed \/ Unaccepted(c)

\* A request that was begun is written and handled, unless a line of its
\* connection was cut or an end of it is gone; clients that lag delay nobody.
RequestServed ==
  \A c \in Conns, m \in Messages :
    (\E i \in DOMAIN sent[c] : sent[c][i] = m)
      ~> (\E i \in DOMAIN served[c] : served[c][i] = m) \/ Damaged(c) \/ Gone(c)

SentOver(c, x) == \E i \in DOMAIN sent[c] : sent[c][i] = x

\* A broadcast made while a connection is served is received over it, if it was
\* not sent over it, "broadcast to other clients" (unix_socket.rs:163), unless
\* the receiver lags, a line is cut, or an end is gone.
BroadcastDelivered ==
  \A c \in Conns, x \in Messages \cup Hosted :
    Running(c) /\ ~SentOver(c, x) /\ (\E i \in (pos[c] + 1)..Len(log) : log[i] = x)
      ~> \/ \E k \in CastsOf(c) : log[got[c][k][2]] = x
         \/ c \in lagged \/ Damaged(c) \/ ~Whole(c) \/ Gone(c)
=============================================================================
