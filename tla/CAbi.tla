------------------------------- MODULE CAbi -------------------------------
(***************************************************************************)
(* The C interface (src/bindings_uniffi/src/c_abi.rs) over the UnixSocket  *)
(* transport: an AppHandle whose handler stores what arrives and whose     *)
(* ipc_app_receive hands it out, and ClientHandles that send over a new    *)
(* connection each time and receive over one they keep.                    *)
(*                                                                         *)
(* A ClientHandle is used by one thread, as &mut *handle demands; a call   *)
(* blocks in the handle's own runtime.  Who is primary is the subject of   *)
(* SingleInstance.  ipc_app_new and ipc_client_new are Init, and the frees *)
(* are left to the caller.                                                 *)
(***************************************************************************)
EXTENDS UnixChannel

CONSTANT Handles   \* the ClientHandles

\* Neither handle sets a format: both have the default of CommunicationConfig.
ASSUME FormatAssumption == \A k \in Cases : k.format = "Json"

VARIABLES
  call,    \* call[k]: the call in progress on handle k, and its connection
  kept,    \* kept[k]: handle.client, the connection it keeps; 0 is None
  stack,   \* AppHandle.messages
  taken,   \* what ipc_app_receive returned (history)
  done,    \* connections whose ipc_client_send returned 0 (history)
  joined   \* joined[c]: where in the log connection c subscribed (history)

abi   == <<call, kept, stack, taken, done, joined>>
cvars == <<vars, abi>>

NoConn == 0
Idle == [op |-> "none", conn |-> NoConn]

CInit ==
  /\ Init
  /\ call = [k \in Handles |-> Idle]
  /\ kept = [k \in Handles |-> NoConn]
  /\ stack = <<>> /\ taken = <<>>
  /\ done = {} /\ joined = [c \in Conns |-> 0]

-----------------------------------------------------------------------------
(* ClientHandle.                                                           *)

Begins(k, op, c) == call[k] = Idle /\ call' = [call EXCEPT ![k] = [op |-> op, conn |-> c]]
Goes(k, op) == call[k].op = op
Returns(k) == call' = [call EXCEPT ![k] = Idle]

\* ipc_client_send connects; if it cannot it returns -1.
CallSend(k, m) ==
  /\ ~WasSent(m) /\ MoreTraffic
  /\ \E c \in Conns :
       Begins(k, "send", c) /\ ConnectToSend(c, Line(<<"request", m>>))
  /\ UNCHANGED <<kept, stack, taken, done, joined>>

SendGoes(k) ==
  /\ Goes(k, "send")
  /\ \/ Write(call[k].conn) /\ UNCHANGED call
     \/ WriteFails(call[k].conn) /\ call' = [call EXCEPT ![k].op = "failed"]
  /\ UNCHANGED <<kept, stack, taken, done, joined>>

\* It disconnects without waiting for the response, and returns 0 or -1.
SendReturns(k) ==
  /\ call[k].op \in {"send", "failed"} /\ wr[call[k].conn] = <<>>
  /\ Close(call[k].conn)
  /\ done' = IF Goes(k, "send") THEN done \cup {call[k].conn} ELSE done
  /\ Returns(k)
  /\ UNCHANGED <<kept, stack, taken, joined>>

\* ipc_client_receive connects if the handle keeps no connection.
CallReceive(k) ==
  /\ IF kept[k] = NoConn
     THEN \E c \in Conns : /\ Begins(k, "receive", c) /\ Connect(c)
                           /\ kept' = [kept EXCEPT ![k] = c]
     ELSE Begins(k, "receive", kept[k]) /\ UNCHANGED <<vars, kept>>
  /\ UNCHANGED <<stack, taken, done, joined>>

\* It returns what receive_message returns, or null: at the end of the stream,
\* and after 50 ms, which drops a read that has consumed part of a line.  The
\* connection is kept in any case.
ReceiveReturns(k) ==
  /\ Goes(k, "receive")
  /\ LET c == call[k].conn
     IN  \/ ReceivePart(c) /\ UNCHANGED call
         \/ Receive(c) /\ Returns(k)
         \/ DropReceive(c) /\ Returns(k)
         \/ rdpart[c] = <<>> /\ Returns(k) /\ UNCHANGED vars
  /\ UNCHANGED <<kept, stack, taken, done, joined>>

\* ipc_client_disconnect.
Disconnect(k) ==
  /\ call[k] = Idle /\ kept[k] # NoConn
  /\ Close(kept[k])
  /\ kept' = [kept EXCEPT ![k] = NoConn]
  /\ UNCHANGED <<call, stack, taken, done, joined>>

\* ipc_client_ping makes a connection and drops it.
CallPing(k) ==
  /\ \E c \in Conns : Begins(k, "ping", c) /\ Connect(c)
  /\ UNCHANGED <<kept, stack, taken, done, joined>>

PingReturns(k) ==
  /\ Goes(k, "ping")
  /\ Close(call[k].conn)
  /\ Returns(k)
  /\ UNCHANGED <<kept, stack, taken, done, joined>>

-----------------------------------------------------------------------------
(* AppHandle.                                                              *)

\* The handler pushes every message it is called with, and acknowledges it.
PushUnless(c, full) ==
  /\ Serve(c)
  /\ stack' = IF served'[c] = served[c] \/ full THEN stack
              ELSE Append(stack, served'[c][Len(served'[c])])
  /\ UNCHANGED <<call, kept, taken, done, joined>>

PushIfEmpty(c) == PushUnless(c, stack # <<>>)
Push(c) == PushUnless(c, FALSE)

\* ipc_app_receive pops the message pushed last.
Peek ==
  /\ stack # <<>>
  /\ taken' = Append(taken, stack[Len(stack)])
  /\ UNCHANGED <<vars, call, kept, stack, done, joined>>
Pop ==
  /\ stack # <<>>
  /\ taken' = Append(taken, stack[Len(stack)])
  /\ stack' = SubSeq(stack, 1, Len(stack) - 1)
  /\ UNCHANGED <<vars, call, kept, done, joined>>

Joins ==
  /\ Accepting
  /\ joined' = IF loop = "accept" THEN [joined EXCEPT ![Head(backlog)] = Len(log)] ELSE joined
  /\ UNCHANGED <<call, kept, stack, taken, done>>

\* ipc_app_broadcast.
Broadcast(h) == HostBroadcast(h) /\ UNCHANGED abi

\* What was not received dies with the process.
Dies == Crash /\ stack' = <<>> /\ UNCHANGED <<call, kept, taken, done, joined>>
Restarts == Start /\ UNCHANGED abi

-----------------------------------------------------------------------------
CNext ==
  \/ \E k \in Handles :
       \/ \E m \in Messages : CallSend(k, m)
       \/ SendGoes(k) \/ SendReturns(k)
       \/ CallReceive(k) \/ ReceiveReturns(k)
       \/ Disconnect(k) \/ CallPing(k) \/ PingReturns(k)
  \/ \E c \in Conns : Push(c)
  \/ Pop \/ Joins
  \/ \E h \in Hosted : Broadcast(h)
  \/ Dies \/ Restarts

CSpec == CInit /\ [][CNext]_cvars

\* The server's tasks run, its program polls ipc_app_receive, and a send goes on.
CFairness ==
  /\ WF_cvars(Pop) /\ WF_cvars(Joins)
  /\ \A c \in Conns : WF_cvars(Push(c))
  /\ \A k \in Handles : WF_cvars(SendGoes(k)) /\ WF_cvars(SendReturns(k))

CFairSpec == CSpec /\ CFairness

-----------------------------------------------------------------------------
(* Properties.                                                             *)

\* The task has taken a broadcast that was made after it subscribed, failed to
\* write it to the client that has gone, and ended with the request unread.
Overtaken(c) == served[c] = <<>> /\ task[c] = "ended" /\ joined[c] < pos[c]

TimesIn(c, s) == Cardinality({i \in DOMAIN s : <<s[i]>> = sent[c]})

\* A message whose ipc_client_send returned 0 is still unread, or in the queue of
\* the application, or was received from it, in one place and once; it is lost
\* only to a broadcast that came first, or with the process it was sent to.
AcceptedOnce ==
  \A c \in done \ crashed :
    LET waiting == TimesIn(c, stack) + TimesIn(c, taken)
    IN  IF served[c] = <<>>
        THEN waiting = 0 /\ (task[c] = "ended" => Overtaken(c))
        ELSE waiting = 1

\* It is received in the end, although it was put under messages that came later.
AcceptedTaken ==
  \A c \in Conns :
    c \in done ~> c \in crashed \/ Overtaken(c) \/ TimesIn(c, taken) > 0
=============================================================================
