----------------------------- MODULE Messenger -----------------------------
(***************************************************************************)
(* Messenger and RequestBroker (src/src/lib.rs): requests and answers over *)
(* an IpcSession.                                                          *)
(*                                                                         *)
(* A call of Messenger::request registers its message id with the broker,  *)
(* sends the message and waits on a oneshot channel.  One receiver task    *)
(* per messenger reads the session and hands every message that carries a  *)
(* reply_to to the broker; it ends at the first error and is never         *)
(* restarted, and it outlives its Messenger (it holds the session and the  *)
(* broker), so IpcClient::send_message leaves one behind with each call.   *)
(*                                                                         *)
(* The session's transport is one of three.  UnixSocket: a stream of its   *)
(* own, of which only "in flight" is kept, the order being of no concern   *)
(* to the broker; a line arrives whole, as one shorter than the socket's   *)
(* buffer does.  FileBased: one request file and one response file for   *)
(* all.  SharedMemory: one slot for all requests and all responses.        *)
(***************************************************************************)
EXTENDS Naturals

CONSTANTS
  Calls,        \* the calls of Messenger::request, each made at most once
  Messengers,   \* the messengers of all client processes
  Ids,          \* the message ids
  NoCall,       \* "no call": no entry, an empty slot
  Transports,   \* the transports to consider
  FreshIds,     \* TRUE: no two calls send messages with the same id
  MayCrash      \* TRUE: the server may end

ASSUME NoCallAssumption == NoCall \notin Calls
ASSUME MessengerAssumption ==
  /\ Transports \subseteq {"UnixSocket", "FileBased", "SharedMemory"}
  /\ FreshIds \in BOOLEAN
  /\ MayCrash \in BOOLEAN

VARIABLES
  transport,  \* the transport of every session
  on,         \* on[c]: the messenger call c is made on
  id,         \* id[c]: the id of the message call c sends
  call,       \* call[c]: where call c is in Messenger::request
  pending,    \* pending[m][i]: the call whose oneshot sender m's broker holds
  rx,         \* rx[c]: the oneshot channel of call c
  got,        \* got[c]: the call whose answer is in c's channel
  recv,       \* recv[m]: the receiver task of m
  held,       \* held[m]: the message the receiver task is dispatching
  alive,      \* the server runs
  requests,   \* requests on their way: in streams, in the file, in the slot
  handling,   \* requests the server has taken and not answered
  response,   \* the answer in the response file, or in the slot
  inbox,      \* inbox[m]: messages on their way to m alone
  log         \* what the broadcast file holds

calls  == <<call, rx, got>>
server == <<requests, handling, response, log>>
fixed  == <<transport, on, id>>
vars   == <<fixed, calls, pending, recv, held, alive, server, inbox>>

\* A reply carries the id of its request in reply_to; a broadcast is the
\* request itself, whose reply_to is None.
Messages == [kind : {"reply", "broadcast"}, call : Calls]
Reply(c)     == [kind |-> "reply", call |-> c]
Broadcast(c) == [kind |-> "broadcast", call |-> c]

Init ==
  /\ transport \in Transports
  /\ on \in [Calls -> Messengers]
  /\ id \in [Calls -> Ids]
  /\ FreshIds => \A c, d \in Calls : id[c] = id[d] => c = d
  /\ call = [c \in Calls |-> "idle"]
  /\ pending = [m \in Messengers |-> [i \in Ids |-> NoCall]]
  /\ rx = [c \in Calls |-> "none"]
  /\ got = [c \in Calls |-> NoCall]
  /\ recv = [m \in Messengers |-> "absent"]
  /\ held = [m \in Messengers |-> {}]
  /\ alive = TRUE
  /\ requests = {}
  /\ handling = {}
  /\ response = NoCall
  /\ inbox = [m \in Messengers |-> {}]
  /\ log = {}

-----------------------------------------------------------------------------
(* Messenger::request.                                                     *)

\* connect_messenger: a new session and its receiver task.  A fresh client
\* reads the broadcast file from its beginning.
Open(m) ==
  /\ recv[m] = "absent"
  /\ alive
  /\ recv' = [recv EXCEPT ![m] = "receiving"]
  /\ inbox' = [inbox EXCEPT ![m] = IF transport = "UnixSocket" THEN {}
                                   ELSE {Broadcast(c) : c \in log}]
  /\ UNCHANGED <<fixed, calls, pending, held, alive, server>>

\* HashMap::insert drops the sender it replaces, which closes its channel.
Insert(c) ==
  LET m == on[c]
      d == pending[m][id[c]]
  IN  /\ pending' = [pending EXCEPT ![m][id[c]] = c]
      /\ rx' = [x \in Calls |-> IF x = c THEN "open"
                                ELSE IF x = d /\ rx[x] = "open" THEN "closed"
                                ELSE rx[x]]

\* Mutant: the channel is created and its sender is not kept.
RegisterNothing(c) ==
  /\ call[c] = "idle"
  /\ recv[on[c]] # "absent"
  /\ call' = [call EXCEPT ![c] = "registered"]
  /\ rx' = [rx EXCEPT ![c] = "open"]
  /\ UNCHANGED <<fixed, pending, got, recv, held, alive, server, inbox>>

\* register_request.
Register(c) ==
  /\ call[c] = "idle"
  /\ recv[on[c]] # "absent"
  /\ call' = [call EXCEPT ![c] = "registered"]
  /\ Insert(c)
  /\ UNCHANGED <<fixed, got, recv, held, alive, server, inbox>>

\* session.send: a later request takes the place of an earlier one in the
\* file and in the slot; in the slot it takes that of an answer as well.
SendOk(c) ==
  /\ call[c] = "registered"
  /\ transport = "UnixSocket" => alive
  /\ call' = [call EXCEPT ![c] = "waiting"]
  /\ requests' = IF transport = "UnixSocket" THEN requests \cup {c} ELSE {c}
  /\ response' = IF transport = "SharedMemory" THEN NoCall ELSE response
  /\ UNCHANGED <<fixed, rx, got, pending, recv, held, alive, handling, inbox, log>>

\* The write fails: the peer is gone, or the message does not fit the slot.
\* The entry in pending stays.
SendErr(c) ==
  /\ call[c] = "registered"
  /\ \/ transport = "UnixSocket" /\ ~alive
     \/ transport = "SharedMemory"
  /\ call' = [call EXCEPT ![c] = "send_error"]
  /\ rx' = [rx EXCEPT ![c] = "none"]
  /\ UNCHANGED <<fixed, got, pending, recv, held, alive, server, inbox>>

\* rx.await.
AwaitOk(c) ==
  /\ call[c] = "waiting" /\ rx[c] = "value"
  /\ call' = [call EXCEPT ![c] = "ok"]
  /\ UNCHANGED <<fixed, rx, got, pending, recv, held, alive, server, inbox>>

AwaitErr(c) ==
  /\ call[c] = "waiting" /\ rx[c] = "closed"
  /\ call' = [call EXCEPT ![c] = "closed"]
  /\ UNCHANGED <<fixed, rx, got, pending, recv, held, alive, server, inbox>>

\* The caller drops the future, with a timeout of its own for instance.
Cancel(c) ==
  /\ call[c] \in {"registered", "waiting"}
  /\ call' = [call EXCEPT ![c] = "cancelled"]
  /\ rx' = [rx EXCEPT ![c] = "none"]
  /\ UNCHANGED <<fixed, got, pending, recv, held, alive, server, inbox>>

Request(c) == Register(c) \/ SendOk(c) \/ SendErr(c) \/ AwaitOk(c) \/ AwaitErr(c)

-----------------------------------------------------------------------------
(* The receiver task.                                                      *)

Receiving(m, msg) == /\ recv' = [recv EXCEPT ![m] = "dispatching"]
                     /\ held' = [held EXCEPT ![m] = {msg}]

ReceiveOwn(m) ==
  /\ recv[m] = "receiving"
  /\ \E msg \in inbox[m] :
       /\ Receiving(m, msg)
       /\ inbox' = [inbox EXCEPT ![m] = @ \ {msg}]
  /\ UNCHANGED <<fixed, calls, pending, alive, server>>

\* The response file, or the slot, belongs to whoever looks first.
ReceiveShared(m) ==
  /\ recv[m] = "receiving"
  /\ response # NoCall
  /\ Receiving(m, Reply(response))
  /\ response' = NoCall
  /\ UNCHANGED <<fixed, calls, pending, alive, requests, handling, inbox, log>>

\* The stream is closed, or timeout_ms have passed with nothing to read:
\* the task ends, and nobody tells the calls that wait.
ReceiveErr(m) ==
  /\ recv[m] = "receiving"
  /\ inbox[m] = {}
  /\ \/ transport = "UnixSocket" /\ ~alive
     \/ transport = "SharedMemory" /\ response = NoCall
  /\ recv' = [recv EXCEPT ![m] = "stopped"]
  /\ UNCHANGED <<fixed, calls, pending, held, alive, server, inbox>>

\* Mutant: an answer goes to any call that waits.
DeliverToAny(m, c) ==
  \E d \in Calls :
    /\ pending[m][id[d]] = d
    /\ pending' = [pending EXCEPT ![m][id[d]] = NoCall]
    /\ rx' = [rx EXCEPT ![d] = IF @ = "open" THEN "value" ELSE @]
    /\ got' = [got EXCEPT ![d] = IF rx[d] = "open" THEN c ELSE @]

\* Mutant: the sender is used and its entry stays.
DeliverAndKeep(m, c) ==
  LET d == pending[m][id[c]]
  IN  IF d = NoCall
      THEN UNCHANGED <<pending, rx, got>>
      ELSE /\ rx' = [rx EXCEPT ![d] = IF @ = "open" THEN "value" ELSE @]
           /\ got' = [got EXCEPT ![d] = IF rx[d] = "open" THEN c ELSE @]
           /\ UNCHANGED pending

\* Mutant: the entry is removed and its sender dropped.
DeliverDropped(m, c) ==
  LET d == pending[m][id[c]]
  IN  IF d = NoCall
      THEN UNCHANGED <<pending, rx, got>>
      ELSE /\ pending' = [pending EXCEPT ![m][id[c]] = NoCall]
           /\ rx' = [rx EXCEPT ![d] = IF @ = "open" THEN "closed" ELSE @]
           /\ UNCHANGED got

\* dispatch_response: the entry is removed; a send to a receiver that was
\* dropped is ignored.
Deliver(m, c) ==
  LET d == pending[m][id[c]]
  IN  IF d = NoCall
      THEN UNCHANGED <<pending, rx, got>>
      ELSE /\ pending' = [pending EXCEPT ![m][id[c]] = NoCall]
           /\ rx' = [rx EXCEPT ![d] = IF @ = "open" THEN "value" ELSE @]
           /\ got' = [got EXCEPT ![d] = IF rx[d] = "open" THEN c ELSE @]

\* Mutant: the message stays with the task.
DispatchForever(m) ==
  /\ recv[m] = "dispatching"
  /\ \E msg \in held[m] :
       IF msg.kind = "reply" THEN Deliver(m, msg.call)
                             ELSE UNCHANGED <<pending, rx, got>>
  /\ recv' = [recv EXCEPT ![m] = "receiving"]
  /\ UNCHANGED <<fixed, call, held, alive, server, inbox>>

\* Mutant: the task ends at a message that is no response.
DispatchStops(m) ==
  /\ recv[m] = "dispatching"
  /\ \E msg \in held[m] :
       IF msg.kind = "reply"
       THEN Deliver(m, msg.call) /\ recv' = [recv EXCEPT ![m] = "receiving"]
       ELSE /\ UNCHANGED <<pending, rx, got>>
            /\ recv' = [recv EXCEPT ![m] = "stopped"]
  /\ held' = [held EXCEPT ![m] = {}]
  /\ UNCHANGED <<fixed, call, alive, server, inbox>>

Dispatch(m) ==
  /\ recv[m] = "dispatching"
  /\ \E msg \in held[m] :
       IF msg.kind = "reply" THEN Deliver(m, msg.call)
                             ELSE UNCHANGED <<pending, rx, got>>
  /\ recv' = [recv EXCEPT ![m] = "receiving"]
  /\ held' = [held EXCEPT ![m] = {}]
  /\ UNCHANGED <<fixed, call, alive, server, inbox>>

Receiver(m) == ReceiveOwn(m) \/ ReceiveShared(m) \/ ReceiveErr(m) \/ Dispatch(m)

-----------------------------------------------------------------------------
(* The server.                                                             *)

\* One task per Unix connection, one task for all the others.
Take(c) ==
  /\ alive
  /\ c \in requests
  /\ \A d \in handling : transport = "UnixSocket" /\ on[d] # on[c]
  /\ requests' = requests \ {c}
  /\ handling' = handling \cup {c}
  /\ UNCHANGED <<fixed, calls, pending, recv, held, alive, response, inbox, log>>

\* The response, and the request as a broadcast to everybody, its sender
\* included.  In the slot the response overwrites whatever is there.
Answer(c) ==
  /\ alive
  /\ c \in handling
  /\ handling' = handling \ {c}
  /\ requests' = IF transport = "SharedMemory" THEN {} ELSE requests
  /\ response' = IF transport = "UnixSocket" THEN response ELSE c
  /\ log' = log \cup {c}
  /\ inbox' = [m \in Messengers |->
                 inbox[m]
                 \cup (IF recv[m] # "absent" THEN {Broadcast(c)} ELSE {})
                 \cup (IF transport = "UnixSocket" /\ m = on[c]
                       THEN {Reply(c)} ELSE {})]
  /\ UNCHANGED <<fixed, calls, pending, recv, held, alive>>

\* The server ends: what it has not answered stays unanswered.
Crash ==
  /\ MayCrash /\ alive
  /\ alive' = FALSE
  /\ handling' = {}
  /\ requests' = IF transport = "UnixSocket" THEN {} ELSE requests
  /\ UNCHANGED <<fixed, calls, pending, recv, held, response, inbox, log>>

Next ==
  \/ \E m \in Messengers : Open(m) \/ Receiver(m)
  \/ \E c \in Calls : Request(c) \/ Cancel(c) \/ Take(c) \/ Answer(c)
  \/ Crash

Spec == Init /\ [][Next]_vars

\* Tokio polls every task that can run; a server that lives keeps serving.
Fairness ==
  /\ \A m \in Messengers : WF_vars(Receiver(m))
  /\ \A c \in Calls : WF_vars(Request(c)) /\ WF_vars(Take(c)) /\ WF_vars(Answer(c))

FairSpec == Spec /\ Fairness

-----------------------------------------------------------------------------
(* Properties.                                                             *)

\* Every variable has its type, and only a dispatching task holds a message.
TypeOK ==
  /\ transport \in Transports
  /\ on \in [Calls -> Messengers]
  /\ id \in [Calls -> Ids]
  /\ call \in [Calls -> {"idle", "registered", "waiting", "ok", "send_error",
                         "closed", "cancelled"}]
  /\ pending \in [Messengers -> [Ids -> Calls \cup {NoCall}]]
  /\ rx \in [Calls -> {"none", "open", "closed", "value"}]
  /\ got \in [Calls -> Calls \cup {NoCall}]
  /\ recv \in [Messengers -> {"absent", "receiving", "dispatching", "stopped"}]
  /\ held \in [Messengers -> SUBSET Messages]
  /\ alive \in BOOLEAN
  /\ requests \subseteq Calls
  /\ handling \subseteq Calls
  /\ response \in Calls \cup {NoCall}
  /\ inbox \in [Messengers -> SUBSET Messages]
  /\ log \subseteq Calls
  /\ \A m \in Messengers : held[m] # {} <=> recv[m] = "dispatching"

\* A request that returns Ok returns the server's answer to that request,
\* or to another one sent with the same id, whatever is under way, stolen,
\* overwritten or broadcast.
OwnAnswer == \A c \in Calls : got[c] # NoCall => id[got[c]] = id[c]

\* The broker holds a sender only for a call of its own messenger that has
\* not been answered; entries of failed sends and dropped futures may stay.
PendingUnanswered ==
  \A m \in Messengers, i \in Ids :
    LET c == pending[m][i]
    IN  c # NoCall => /\ on[c] = m /\ id[c] = i
                      /\ got[c] = NoCall
                      /\ call[c] \notin {"idle", "ok", "closed"}

\* "Response channel closed" (lib.rs:607) is reported for one reason only:
\* another request with the same id took the entry.
ClosedOnlyOnReuse ==
  \A c \in Calls :
    call[c] = "closed" =>
      \E d \in Calls \ {c} : on[d] = on[c] /\ id[d] = id[c] /\ call[d] # "idle"

\* Over Unix sockets, as long as the server lives, a call that waits is
\* answered already, or its entry is in place and its request or the answer
\* is on the way: nothing is lost between registering, sending and dispatching.
OnTheWay(c) == \/ c \in requests \cup handling
               \/ Reply(c) \in inbox[on[c]] \cup held[on[c]]

AnswerKept ==
  transport = "UnixSocket" /\ alive =>
    \A c \in Calls :
      call[c] = "waiting" =>
        \/ rx[c] = "value"
        \/ rx[c] = "open" /\ pending[on[c]][id[c]] = c /\ OnTheWay(c)

\* Over Unix sockets, with a server that lives, every request is answered.
RequestAnswered ==
  \A c \in Calls : call[c] = "registered" ~> call[c] \in {"ok", "cancelled"}

\* "Send a request and wait for a response" (lib.rs:595): with an answer, or
\* with the error of lib.rs:607, a request returns.
RequestReturns == \A c \in Calls : call[c] = "waiting" ~> call[c] # "waiting"
=============================================================================
