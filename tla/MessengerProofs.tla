-------------------------- MODULE MessengerProofs ---------------------------
(* Theorems about Messenger, for any number of calls, messengers and ids.  *)
EXTENDS Messenger, TLAPS

-----------------------------------------------------------------------------
(* Type correctness.                                                       *)

LEMMA DeliverType ==
  ASSUME TypeOK, NEW m \in Messengers, NEW c \in Calls, Deliver(m, c)
  PROVE  /\ pending' \in [Messengers -> [Ids -> Calls \cup {NoCall}]]
         /\ rx' \in [Calls -> {"none", "open", "closed", "value"}]
         /\ got' \in [Calls -> Calls \cup {NoCall}]
<1>1. CASE pending[m][id[c]] = NoCall
  BY <1>1 DEF TypeOK, Deliver
<1>2. CASE pending[m][id[c]] # NoCall
  <2> DEFINE d == pending[m][id[c]]
  <2>1. d \in Calls /\ id[c] \in Ids
    BY <1>2 DEF TypeOK
  <2>2. /\ pending' = [pending EXCEPT ![m][id[c]] = NoCall]
        /\ rx' = [rx EXCEPT ![d] = IF rx[d] = "open" THEN "value" ELSE rx[d]]
        /\ got' = [got EXCEPT ![d] = IF rx[d] = "open" THEN c ELSE got[d]]
    BY <1>2 DEF Deliver
  <2>3. pending' \in [Messengers -> [Ids -> Calls \cup {NoCall}]]
    BY <2>1, <2>2 DEF TypeOK
  <2>4. rx' \in [Calls -> {"none", "open", "closed", "value"}]
    BY <2>1, <2>2 DEF TypeOK
  <2>5. got' \in [Calls -> Calls \cup {NoCall}]
    BY <2>1, <2>2 DEF TypeOK
  <2> QED BY <2>3, <2>4, <2>5
<1> QED BY <1>1, <1>2

LEMMA DispatchType ==
  ASSUME TypeOK, NEW m \in Messengers, Dispatch(m)
  PROVE  TypeOK'
<1>1. PICK msg \in held[m] : IF msg.kind = "reply" THEN Deliver(m, msg.call)
                             ELSE UNCHANGED <<pending, rx, got>>
  BY DEF Dispatch
<1>2. msg.call \in Calls
  BY DEF TypeOK, Messages
<1>3. /\ pending' \in [Messengers -> [Ids -> Calls \cup {NoCall}]]
      /\ rx' \in [Calls -> {"none", "open", "closed", "value"}]
      /\ got' \in [Calls -> Calls \cup {NoCall}]
  <2>1. CASE msg.kind = "reply"
    BY <1>1, <1>2, <2>1, DeliverType
  <2>2. CASE msg.kind # "reply"
    BY <1>1, <2>2 DEF TypeOK
  <2> QED BY <2>1, <2>2
<1> QED BY <1>3 DEF TypeOK, Dispatch, fixed, server

LEMMA TypeStep ==
  ASSUME TypeOK, [Next]_vars
  PROVE  TypeOK'
<1>1. CASE UNCHANGED vars
  BY <1>1 DEF TypeOK, vars, fixed, calls, server
<1>2. ASSUME NEW m \in Messengers, Open(m) PROVE TypeOK'
  BY <1>2 DEF TypeOK, Open, Messages, Broadcast, fixed, calls, server
<1>3. ASSUME NEW m \in Messengers, Receiver(m) PROVE TypeOK'
  <2>1. CASE ReceiveOwn(m)
    BY <2>1 DEF TypeOK, ReceiveOwn, Receiving, fixed, calls, server
  <2>2. CASE ReceiveShared(m)
    <3>1. Reply(response) \in Messages
      BY <2>2 DEF TypeOK, ReceiveShared, Reply, Messages
    <3> QED BY <2>2, <3>1 DEF TypeOK, ReceiveShared, Receiving, fixed, calls
  <2>3. CASE ReceiveErr(m)
    BY <2>3 DEF TypeOK, ReceiveErr, fixed, calls, server
  <2> QED BY <1>3, <2>1, <2>2, <2>3, DispatchType DEF Receiver
<1>4. ASSUME NEW c \in Calls, Request(c) PROVE TypeOK'
  <2>1. CASE Register(c)
    <3>1. pending' \in [Messengers -> [Ids -> Calls \cup {NoCall}]]
      BY <2>1 DEF TypeOK, Register, Insert
    <3>2. rx' \in [Calls -> {"none", "open", "closed", "value"}]
      BY <2>1 DEF TypeOK, Register, Insert
    <3>3. call' \in [Calls -> {"idle", "registered", "waiting", "ok",
                               "send_error", "closed", "cancelled"}]
      BY <2>1 DEF TypeOK, Register
    <3> QED BY <2>1, <3>1, <3>2, <3>3 DEF TypeOK, Register, fixed, server
  <2>2. CASE SendOk(c)
    BY <2>2 DEF TypeOK, SendOk, fixed
  <2>3. CASE SendErr(c)
    BY <2>3 DEF TypeOK, SendErr, fixed, server
  <2>4. CASE AwaitOk(c)
    BY <2>4 DEF TypeOK, AwaitOk, fixed, server
  <2>5. CASE AwaitErr(c)
    BY <2>5 DEF TypeOK, AwaitErr, fixed, server
  <2> QED BY <1>4, <2>1, <2>2, <2>3, <2>4, <2>5 DEF Request
<1>5. ASSUME NEW c \in Calls, Cancel(c) PROVE TypeOK'
  BY <1>5 DEF TypeOK, Cancel, fixed, server
<1>6. ASSUME NEW c \in Calls, Take(c) PROVE TypeOK'
  BY <1>6 DEF TypeOK, Take, fixed, calls
<1>7. ASSUME NEW c \in Calls, Answer(c) PROVE TypeOK'
  BY <1>7 DEF TypeOK, Answer, Messages, Broadcast, Reply, fixed, calls
<1>8. CASE Crash
  BY <1>8 DEF TypeOK, Crash, fixed, calls
<1> QED BY <1>1, <1>2, <1>3, <1>4, <1>5, <1>6, <1>7, <1>8 DEF Next

\* In every execution the variables keep their types, and a message is held
\* by a receiver task exactly while the task dispatches it (lib.rs:577-585).
THEOREM TypeCorrect == Spec => []TypeOK
<1>1. Init => TypeOK
  BY DEF Init, TypeOK
<1> QED BY <1>1, TypeStep, PTL DEF Spec

-----------------------------------------------------------------------------
(* The entries of the broker.                                              *)

Unanswered == {"registered", "waiting", "send_error", "cancelled"}

\* An entry is where its call put it, and its channel holds no answer; a
\* call that has not begun has no answer either.
EntriesInv ==
  /\ \A m \in Messengers, i \in Ids :
       pending[m][i] # NoCall =>
         /\ on[pending[m][i]] = m
         /\ id[pending[m][i]] = i
         /\ rx[pending[m][i]] \in {"open", "none"}
         /\ got[pending[m][i]] = NoCall
         /\ call[pending[m][i]] \in Unanswered
  /\ \A c \in Calls : call[c] = "idle" => got[c] = NoCall

\* One step of the call c that leaves the broker alone.
LEMMA EntriesOfCaller ==
  ASSUME TypeOK, EntriesInv, NEW c \in Calls,
         SendOk(c) \/ SendErr(c) \/ AwaitOk(c) \/ AwaitErr(c) \/ Cancel(c)
  PROVE  EntriesInv'
<1>1. UNCHANGED <<on, id, pending, got>>
  BY DEF SendOk, SendErr, AwaitOk, AwaitErr, Cancel, fixed
<1>2. \A d \in Calls \ {c} : call'[d] = call[d] /\ rx'[d] = rx[d]
  BY DEF TypeOK, SendOk, SendErr, AwaitOk, AwaitErr, Cancel
<1>3. call'[c] # "idle"
  BY DEF TypeOK, SendOk, SendErr, AwaitOk, AwaitErr, Cancel
<1>4. \/ call'[c] \in Unanswered /\ (rx'[c] = rx[c] \/ rx'[c] = "none")
      \/ rx[c] \in {"value", "closed"}
  BY DEF TypeOK, SendOk, SendErr, AwaitOk, AwaitErr, Cancel, Unanswered
<1>5. \A d \in Calls : call'[d] = "idle" => got'[d] = NoCall
  BY <1>1, <1>2, <1>3 DEF EntriesInv
<1>6. ASSUME NEW m \in Messengers, NEW i \in Ids, pending'[m][i] # NoCall
      PROVE  /\ on'[pending'[m][i]] = m
             /\ id'[pending'[m][i]] = i
             /\ rx'[pending'[m][i]] \in {"open", "none"}
             /\ got'[pending'[m][i]] = NoCall
             /\ call'[pending'[m][i]] \in Unanswered
  <2> DEFINE d == pending[m][i]
  <2>1. d \in Calls /\ pending'[m][i] = d
    BY <1>1, <1>6 DEF TypeOK
  <2>2. /\ on[d] = m /\ id[d] = i /\ got[d] = NoCall
        /\ rx[d] \in {"open", "none"} /\ call[d] \in Unanswered
    BY <1>6, <2>1 DEF EntriesInv
  <2>3. CASE d = c
    BY <1>1, <1>4, <2>1, <2>2, <2>3
  <2>4. CASE d # c
    BY <1>1, <1>2, <2>1, <2>2, <2>4
  <2> QED BY <2>3, <2>4
<1> QED BY <1>5, <1>6 DEF EntriesInv

LEMMA EntriesRegister ==
  ASSUME TypeOK, EntriesInv, NEW c \in Calls, Register(c)
  PROVE  EntriesInv'
<1> DEFINE M == on[c]
           I == id[c]
           old == pending[M][I]
<1>1. M \in Messengers /\ I \in Ids
  BY DEF TypeOK
<1>2. UNCHANGED <<on, id, got>> /\ call[c] = "idle"
  BY DEF Register, fixed
<1>3. /\ call'[c] = "registered"
      /\ \A d \in Calls \ {c} : call'[d] = call[d]
  BY DEF TypeOK, Register
<1>4. /\ pending'[M][I] = c
      /\ \A m \in Messengers, i \in Ids :
           ~(m = M /\ i = I) => pending'[m][i] = pending[m][i]
  BY <1>1 DEF TypeOK, Register, Insert
<1>5. /\ rx'[c] = "open"
      /\ \A d \in Calls \ {c} : d # old => rx'[d] = rx[d]
  BY <1>1 DEF TypeOK, Register, Insert
<1>6. \A d \in Calls : call'[d] = "idle" => got'[d] = NoCall
  BY <1>2, <1>3 DEF EntriesInv
<1>7. ASSUME NEW m \in Messengers, NEW i \in Ids, pending'[m][i] # NoCall
      PROVE  /\ on'[pending'[m][i]] = m
             /\ id'[pending'[m][i]] = i
             /\ rx'[pending'[m][i]] \in {"open", "none"}
             /\ got'[pending'[m][i]] = NoCall
             /\ call'[pending'[m][i]] \in Unanswered
  <2>1. CASE m = M /\ i = I
    <3>1. got[c] = NoCall
      BY <1>2 DEF EntriesInv
    <3> QED BY <1>2, <1>3, <1>4, <1>5, <2>1, <3>1 DEF Unanswered
  <2>2. CASE ~(m = M /\ i = I)
    <3> DEFINE d == pending[m][i]
    <3>1. d \in Calls /\ d # NoCall /\ pending'[m][i] = d
      BY <1>4, <1>7, <2>2 DEF TypeOK
    <3>2. /\ on[d] = m /\ id[d] = i /\ got[d] = NoCall
          /\ rx[d] \in {"open", "none"} /\ call[d] \in Unanswered
      BY <3>1 DEF EntriesInv
    <3>3. d # c
      BY <1>2, <3>2 DEF Unanswered
    <3>4. d # old
      BY <1>1, <2>2, <3>1, <3>2 DEF EntriesInv
    <3> QED BY <1>2, <1>3, <1>5, <3>1, <3>2, <3>3, <3>4
  <2> QED BY <2>1, <2>2
<1> QED BY <1>6, <1>7 DEF EntriesInv

\* What dispatching the answer to c does: nothing, or it answers the call d
\* that has c's id on this messenger and takes its entry away.
LEMMA DeliverEffect ==
  ASSUME TypeOK, EntriesInv, NEW m \in Messengers, NEW c \in Calls, Deliver(m, c)
  PROVE  \/ pending[m][id[c]] = NoCall /\ UNCHANGED <<pending, rx, got>>
         \/ \E d \in Calls :
              /\ pending[m][id[c]] = d /\ on[d] = m /\ id[d] = id[c]
              /\ pending' = [pending EXCEPT ![m][id[c]] = NoCall]
              /\ rx' = [rx EXCEPT ![d] = IF rx[d] = "open" THEN "value" ELSE rx[d]]
              /\ got' = [got EXCEPT ![d] = IF rx[d] = "open" THEN c ELSE got[d]]
<1>1. id[c] \in Ids
  BY DEF TypeOK
<1>2. CASE pending[m][id[c]] = NoCall
  BY <1>2 DEF Deliver
<1>3. CASE pending[m][id[c]] # NoCall
  <2> DEFINE d == pending[m][id[c]]
  <2>1. d \in Calls
    BY <1>1, <1>3 DEF TypeOK
  <2>2. on[d] = m /\ id[d] = id[c]
    BY <1>1, <1>3 DEF EntriesInv
  <2>3. /\ pending' = [pending EXCEPT ![m][id[c]] = NoCall]
        /\ rx' = [rx EXCEPT ![d] = IF rx[d] = "open" THEN "value" ELSE rx[d]]
        /\ got' = [got EXCEPT ![d] = IF rx[d] = "open" THEN c ELSE got[d]]
    BY <1>3 DEF Deliver
  <2> QED BY <2>1, <2>2, <2>3
<1> QED BY <1>2, <1>3

LEMMA EntriesDeliver ==
  ASSUME TypeOK, EntriesInv, NEW m \in Messengers, NEW c \in Calls, Deliver(m, c),
         UNCHANGED <<on, id, call>>
  PROVE  EntriesInv'
<1>1. CASE UNCHANGED <<pending, rx, got>>
  BY <1>1 DEF EntriesInv
<1>2. ASSUME NEW d \in Calls,
             pending[m][id[c]] = d, on[d] = m, id[d] = id[c],
             pending' = [pending EXCEPT ![m][id[c]] = NoCall],
             rx' = [rx EXCEPT ![d] = IF rx[d] = "open" THEN "value" ELSE rx[d]],
             got' = [got EXCEPT ![d] = IF rx[d] = "open" THEN c ELSE got[d]]
      PROVE  EntriesInv'
  <2>1. id[c] \in Ids /\ d # NoCall
    BY NoCallAssumption DEF TypeOK
  <2>2. call[d] # "idle"
    BY <1>2, <2>1 DEF EntriesInv, Unanswered
  <2>3. \A e \in Calls \ {d} : rx'[e] = rx[e] /\ got'[e] = got[e]
    BY <1>2 DEF TypeOK
  <2>4. \A e \in Calls : call'[e] = "idle" => got'[e] = NoCall
    BY <2>2, <2>3 DEF EntriesInv
  <2>5. ASSUME NEW n \in Messengers, NEW i \in Ids, pending'[n][i] # NoCall
        PROVE  /\ on'[pending'[n][i]] = n
               /\ id'[pending'[n][i]] = i
               /\ rx'[pending'[n][i]] \in {"open", "none"}
               /\ got'[pending'[n][i]] = NoCall
               /\ call'[pending'[n][i]] \in Unanswered
    <3> DEFINE e == pending[n][i]
    <3>1. ~(n = m /\ i = id[c])
      BY <1>2, <2>1, <2>5 DEF TypeOK
    <3>2. e \in Calls /\ e # NoCall /\ pending'[n][i] = e
      BY <1>2, <2>1, <2>5, <3>1 DEF TypeOK
    <3>3. /\ on[e] = n /\ id[e] = i /\ got[e] = NoCall
          /\ rx[e] \in {"open", "none"} /\ call[e] \in Unanswered
      BY <3>2 DEF EntriesInv
    <3>4. e # d
      BY <1>2, <3>1, <3>3
    <3> QED BY <2>3, <3>2, <3>3, <3>4
  <2> QED BY <2>4, <2>5 DEF EntriesInv
<1> QED BY <1>1, <1>2, DeliverEffect

LEMMA EntriesStep ==
  ASSUME TypeOK, EntriesInv, [Next]_vars
  PROVE  EntriesInv'
<1>1. CASE UNCHANGED <<fixed, calls, pending>>
  BY <1>1 DEF EntriesInv, fixed, calls
<1>2. ASSUME NEW m \in Messengers, Dispatch(m) PROVE EntriesInv'
  <2>1. PICK msg \in held[m] : IF msg.kind = "reply" THEN Deliver(m, msg.call)
                               ELSE UNCHANGED <<pending, rx, got>>
    BY <1>2 DEF Dispatch
  <2>2. msg.call \in Calls
    BY DEF TypeOK, Messages
  <2>3. UNCHANGED <<on, id, call>>
    BY <1>2 DEF Dispatch, fixed
  <2>4. CASE msg.kind = "reply"
    BY <2>1, <2>2, <2>3, <2>4, EntriesDeliver
  <2>5. CASE msg.kind # "reply"
    BY <2>1, <2>3, <2>5 DEF EntriesInv
  <2> QED BY <2>4, <2>5
<1>3. ASSUME NEW c \in Calls, Request(c) \/ Cancel(c) PROVE EntriesInv'
  BY <1>3, EntriesOfCaller, EntriesRegister DEF Request
<1>4. CASE UNCHANGED vars
  BY <1>1, <1>4 DEF vars
<1>5. ASSUME NEW m \in Messengers, Open(m) \/ Receiver(m) PROVE EntriesInv'
  <2>1. CASE Dispatch(m)
    BY <1>2, <2>1
  <2>2. CASE ~Dispatch(m)
    <3>1. UNCHANGED <<fixed, calls, pending>>
      BY <1>5, <2>2 DEF Receiver, Open, ReceiveOwn, ReceiveShared, ReceiveErr
    <3> QED BY <1>1, <3>1
  <2> QED BY <2>1, <2>2
<1>6. ASSUME NEW c \in Calls, Take(c) \/ Answer(c) PROVE EntriesInv'
  <2>1. UNCHANGED <<fixed, calls, pending>>
    BY <1>6 DEF Take, Answer
  <2> QED BY <1>1, <2>1
<1>7. CASE Crash
  <2>1. UNCHANGED <<fixed, calls, pending>>
    BY <1>7 DEF Crash
  <2> QED BY <1>1, <2>1
<1> QED BY <1>3, <1>4, <1>5, <1>6, <1>7 DEF Next

\* The broker keeps a sender only for calls that have no answer, under the
\* messenger and the id they were made with: an answer cannot be given twice
\* and no call can be answered through another messenger (lib.rs:532-549).
THEOREM EntriesUnanswered == Spec => []PendingUnanswered
<1>1. Init => TypeOK /\ EntriesInv
  BY DEF Init, TypeOK, EntriesInv
<1>2. TypeOK /\ EntriesInv => PendingUnanswered
  BY DEF EntriesInv, PendingUnanswered, Unanswered
<1> QED BY <1>1, <1>2, TypeStep, EntriesStep, PTL DEF Spec

-----------------------------------------------------------------------------
(* Answers go to their own requests.                                       *)

FreshInv == \A c, d \in Calls : id[c] = id[d] => c = d

LEMMA FixedStep ==
  ASSUME [Next]_vars
  PROVE  UNCHANGED fixed
<1>1. CASE UNCHANGED vars
  BY <1>1 DEF vars
<1>2. ASSUME NEW m \in Messengers, Open(m) \/ Receiver(m) PROVE UNCHANGED fixed
  BY <1>2 DEF Open, Receiver, ReceiveOwn, ReceiveShared, ReceiveErr, Dispatch
<1>3. ASSUME NEW c \in Calls, Request(c) \/ Cancel(c) PROVE UNCHANGED fixed
  BY <1>3 DEF Request, Register, SendOk, SendErr, AwaitOk, AwaitErr, Cancel
<1>4. ASSUME NEW c \in Calls, Take(c) \/ Answer(c) PROVE UNCHANGED fixed
  BY <1>4 DEF Take, Answer
<1>5. CASE Crash
  BY <1>5 DEF Crash
<1> QED BY <1>1, <1>2, <1>3, <1>4, <1>5 DEF Next

LEMMA OwnStep ==
  ASSUME TypeOK, EntriesInv, OwnAnswer, [Next]_vars
  PROVE  OwnAnswer'
<1>0. UNCHANGED id
  BY FixedStep DEF fixed
<1>1. CASE UNCHANGED got
  BY <1>0, <1>1 DEF OwnAnswer
<1>2. ASSUME NEW m \in Messengers, Dispatch(m) PROVE OwnAnswer'
  <2>1. PICK msg \in held[m] : IF msg.kind = "reply" THEN Deliver(m, msg.call)
                               ELSE UNCHANGED <<pending, rx, got>>
    BY <1>2 DEF Dispatch
  <2>2. msg.call \in Calls
    BY DEF TypeOK, Messages
  <2>3. ASSUME Deliver(m, msg.call), ~UNCHANGED got PROVE OwnAnswer'
    <3>1. PICK d \in Calls :
            /\ id[d] = id[msg.call]
            /\ got' = [got EXCEPT ![d] = IF rx[d] = "open" THEN msg.call ELSE got[d]]
      BY <2>2, <2>3, DeliverEffect
    <3>2. ASSUME NEW c \in Calls, got'[c] # NoCall PROVE id[got'[c]] = id[c]
      <4>1. CASE c = d /\ rx[d] = "open"
        BY <3>1, <4>1 DEF TypeOK
      <4>2. CASE ~(c = d /\ rx[d] = "open")
        <5>1. got'[c] = got[c]
          BY <3>1, <4>2 DEF TypeOK
        <5> QED BY <3>2, <5>1 DEF OwnAnswer
      <4> QED BY <4>1, <4>2
    <3> QED BY <1>0, <3>2 DEF OwnAnswer
  <2> QED BY <1>1, <2>1, <2>3
<1>3. ASSUME NEW m \in Messengers, Open(m) \/ Receiver(m) PROVE OwnAnswer'
  <2>1. CASE Dispatch(m)
    BY <1>2, <2>1
  <2>2. CASE ~Dispatch(m)
    <3>1. UNCHANGED got
      BY <1>3, <2>2 DEF Receiver, Open, ReceiveOwn, ReceiveShared, ReceiveErr, calls
    <3> QED BY <1>1, <3>1
  <2> QED BY <2>1, <2>2
<1>4. ASSUME NEW c \in Calls, Request(c) \/ Cancel(c) PROVE OwnAnswer'
  <2>1. UNCHANGED got
    BY <1>4 DEF Request, Register, SendOk, SendErr, AwaitOk, AwaitErr, Cancel
  <2> QED BY <1>1, <2>1
<1>5. ASSUME NEW c \in Calls, Take(c) \/ Answer(c) PROVE OwnAnswer'
  <2>1. UNCHANGED got
    BY <1>5 DEF Take, Answer, calls
  <2> QED BY <1>1, <2>1
<1>6. CASE Crash
  <2>1. UNCHANGED got
    BY <1>6 DEF Crash, calls
  <2> QED BY <1>1, <2>1
<1>7. CASE UNCHANGED vars
  BY <1>1, <1>7 DEF vars, calls
<1> QED BY <1>3, <1>4, <1>5, <1>6, <1>7 DEF Next

\* Over every transport, with answers stolen, overwritten or late and ids
\* reused, Messenger::request (lib.rs:596-611) returns an answer to the id it
\* was called with, or none.
THEOREM AnswersOwnId == Spec => []OwnAnswer
<1>1. Init => TypeOK /\ EntriesInv /\ OwnAnswer
  BY DEF Init, TypeOK, EntriesInv, OwnAnswer
<1> QED BY <1>1, TypeStep, EntriesStep, OwnStep, PTL DEF Spec

\* If no two requests share an id, it returns the answer to the request it
\* was called with.
THEOREM AnswersOwnRequest ==
  ASSUME FreshIds
  PROVE  Spec => [](\A c \in Calls : got[c] # NoCall => got[c] = c)
<1>1. Init => FreshInv
  BY DEF Init, FreshInv
<1>2. FreshInv /\ [Next]_vars => FreshInv'
  BY FixedStep DEF FreshInv, fixed
<1>3. TypeOK /\ FreshInv /\ OwnAnswer
        => \A c \in Calls : got[c] # NoCall => got[c] = c
  BY DEF TypeOK, FreshInv, OwnAnswer
<1> QED BY <1>1, <1>2, <1>3, TypeCorrect, AnswersOwnId, PTL DEF Spec

-----------------------------------------------------------------------------
(* A closed channel means a reused id.                                     *)

ReusedBy(c, d) == on[d] = on[c] /\ id[d] = id[c] /\ call[d] # "idle"

ClosedInv ==
  \A c \in Calls :
    rx[c] = "closed" \/ call[c] = "closed" => \E d \in Calls \ {c} : ReusedBy(c, d)

\* No step makes a call idle again.
LEMMA CallsBegun ==
  ASSUME TypeOK, [Next]_vars, NEW d \in Calls, call[d] # "idle"
  PROVE  call'[d] # "idle"
<1>1. CASE UNCHANGED call
  BY <1>1
<1>2. ASSUME NEW m \in Messengers, Open(m) \/ Receiver(m) PROVE UNCHANGED call
  BY <1>2 DEF Open, Receiver, ReceiveOwn, ReceiveShared, ReceiveErr, Dispatch, calls
<1>3. ASSUME NEW c \in Calls, Request(c) \/ Cancel(c) PROVE call'[d] # "idle"
  BY <1>3 DEF TypeOK, Request, Register, SendOk, SendErr, AwaitOk, AwaitErr, Cancel
<1>4. ASSUME NEW c \in Calls, Take(c) \/ Answer(c) PROVE UNCHANGED call
  BY <1>4 DEF Take, Answer, calls
<1>5. CASE Crash
  BY <1>1, <1>5 DEF Crash, calls
<1>6. CASE UNCHANGED vars
  BY <1>1, <1>6 DEF vars, calls
<1> QED BY <1>1, <1>2, <1>3, <1>4, <1>5, <1>6 DEF Next

LEMMA ClosedStep ==
  ASSUME TypeOK, EntriesInv, ClosedInv, [Next]_vars
  PROVE  ClosedInv'
<1>1. ASSUME NEW c \in Calls, rx[c] = "closed" \/ call[c] = "closed"
      PROVE  \E d \in Calls \ {c} : ReusedBy(c, d)'
  <2>1. PICK d \in Calls \ {c} : ReusedBy(c, d)
    BY <1>1 DEF ClosedInv
  <2>2. UNCHANGED <<on, id>>
    BY FixedStep DEF fixed
  <2>3. call'[d] # "idle"
    BY <2>1, CallsBegun DEF ReusedBy
  <2> QED BY <2>1, <2>2, <2>3 DEF ReusedBy
<1>2. ASSUME NEW c \in Calls, rx'[c] = "closed" \/ call'[c] = "closed",
             ~(rx[c] = "closed" \/ call[c] = "closed")
      PROVE  \E d \in Calls \ {c} : ReusedBy(c, d)'
  <2>1. ASSUME NEW d \in Calls, Register(d) PROVE ReusedBy(c, d)' /\ c # d
    <3>1. on[d] \in Messengers /\ id[d] \in Ids
      BY DEF TypeOK
    <3>2. /\ UNCHANGED <<on, id>>
          /\ call'[d] = "registered" /\ rx'[d] = "open"
          /\ \A e \in Calls \ {d} : call'[e] = call[e]
      BY <2>1 DEF TypeOK, Register, Insert, fixed
    <3>3. c # d /\ rx'[c] = "closed" /\ rx[c] # "closed"
      BY <1>2, <3>2
    <3>4. c = pending[on[d]][id[d]]
      BY <2>1, <3>3 DEF Register, Insert
    <3>5. on[c] = on[d] /\ id[c] = id[d]
      BY <3>1, <3>4, NoCallAssumption DEF EntriesInv
    <3> QED BY <3>2, <3>3, <3>5 DEF ReusedBy
  <2>2. ASSUME NEW d \in Calls, Request(d) \/ Cancel(d), ~Register(d) PROVE FALSE
    BY <1>2, <2>2 DEF TypeOK, Request, SendOk, SendErr, AwaitOk, AwaitErr, Cancel
  <2>3. ASSUME NEW m \in Messengers, Dispatch(m) PROVE FALSE
    <3>1. PICK msg \in held[m] : IF msg.kind = "reply" THEN Deliver(m, msg.call)
                                 ELSE UNCHANGED <<pending, rx, got>>
      BY <2>3 DEF Dispatch
    <3>2. msg.call \in Calls
      BY DEF TypeOK, Messages
    <3>3. UNCHANGED call
      BY <2>3 DEF Dispatch
    <3>4. rx'[c] = "closed" /\ rx[c] # "closed"
      BY <1>2, <3>3
    <3>5. PICK d \in Calls :
            rx' = [rx EXCEPT ![d] = IF rx[d] = "open" THEN "value" ELSE rx[d]]
      BY <3>1, <3>2, <3>4, DeliverEffect
    <3> QED BY <3>4, <3>5 DEF TypeOK
  <2>4. ASSUME UNCHANGED calls PROVE FALSE
    BY <1>2, <2>4 DEF calls
  <2>5. ASSUME NEW m \in Messengers, Open(m) \/ Receiver(m), ~Dispatch(m)
        PROVE  UNCHANGED calls
    BY <2>5 DEF Open, Receiver, ReceiveOwn, ReceiveShared, ReceiveErr
  <2>6. ASSUME NEW d \in Calls, Take(d) \/ Answer(d) PROVE UNCHANGED calls
    BY <2>6 DEF Take, Answer
  <2>7. Crash \/ UNCHANGED vars => UNCHANGED calls
    BY DEF Crash, vars
  <2>8. PICK d \in Calls : Register(d)
    BY <2>2, <2>3, <2>4, <2>5, <2>6, <2>7 DEF Next, Request
  <2> QED BY <2>1, <2>8
<1> QED BY <1>1, <1>2 DEF ClosedInv

\* Over every transport and with any reuse of ids, a request reports
\* "Response channel closed" (lib.rs:607) only because another request with
\* its id was made on the same messenger.
THEOREM ClosedMeansReuse == Spec => []ClosedOnlyOnReuse
<1>1. Init => TypeOK /\ EntriesInv /\ ClosedInv
  BY DEF Init, TypeOK, EntriesInv, ClosedInv
<1>2. ClosedInv => ClosedOnlyOnReuse
  BY DEF ClosedInv, ClosedOnlyOnReuse, ReusedBy
<1> QED BY <1>1, <1>2, TypeStep, EntriesStep, ClosedStep, PTL DEF Spec

-----------------------------------------------------------------------------
(* Over Unix sockets nothing is lost while the server lives.               *)

UnixOnly == FreshIds /\ Transports = {"UnixSocket"}

UnixInv ==
  /\ transport = "UnixSocket"
  /\ FreshInv
  /\ \A m \in Messengers : \A x, y \in held[m] : x = y
  /\ \A c \in Calls : call[c] # "idle" => recv[on[c]] # "absent"

\* The channel of c has the answer, or the broker has the channel.
Linked(c) == \/ rx[c] = "value"
             \/ rx[c] = "open" /\ pending[on[c]][id[c]] = c

KeptFor(c) ==
  /\ call[c] = "registered" => Linked(c)
  /\ call[c] = "waiting" => Linked(c) /\ (rx[c] = "value" \/ OnTheWay(c))

KeptInv == alive => \A c \in Calls : KeptFor(c)

LEMMA UnixStep ==
  ASSUME TypeOK, UnixInv, [Next]_vars
  PROVE  UnixInv'
<1>1. UNCHANGED <<transport, on, id>> /\ FreshInv'
  BY FixedStep DEF UnixInv, FreshInv, fixed
<1>2. ASSUME NEW m \in Messengers PROVE \A x, y \in held'[m] : x = y
  <2>1. CASE UNCHANGED held
    BY <2>1 DEF UnixInv
  <2>2. ASSUME NEW n \in Messengers, NEW msg, Receiving(n, msg)
        PROVE  \A x, y \in held'[m] : x = y
    BY <2>2 DEF TypeOK, UnixInv, Receiving
  <2>3. ASSUME NEW n \in Messengers, Dispatch(n)
        PROVE  \A x, y \in held'[m] : x = y
    BY <2>3 DEF TypeOK, UnixInv, Dispatch
  <2>4. ASSUME NEW n \in Messengers, Open(n) \/ Receiver(n)
        PROVE  \A x, y \in held'[m] : x = y
    BY <2>1, <2>2, <2>3, <2>4
       DEF Open, Receiver, ReceiveOwn, ReceiveShared, ReceiveErr
  <2>5. ASSUME NEW c \in Calls, Request(c) \/ Cancel(c) PROVE UNCHANGED held
    BY <2>5 DEF Request, Register, SendOk, SendErr, AwaitOk, AwaitErr, Cancel
  <2>6. ASSUME NEW c \in Calls, Take(c) \/ Answer(c) PROVE UNCHANGED held
    BY <2>6 DEF Take, Answer
  <2>7. Crash \/ UNCHANGED vars => UNCHANGED held
    BY DEF Crash, vars
  <2> QED BY <2>1, <2>4, <2>5, <2>6, <2>7 DEF Next
<1>3. ASSUME NEW m \in Messengers, recv[m] # "absent" PROVE recv'[m] # "absent"
  <2>1. CASE UNCHANGED recv
    BY <1>3, <2>1
  <2>2. ASSUME NEW n \in Messengers, Open(n) \/ Receiver(n)
        PROVE  recv'[m] # "absent"
    BY <1>3, <2>2 DEF TypeOK, Open, Receiver, ReceiveOwn, ReceiveShared,
                      ReceiveErr, Dispatch, Receiving
  <2>3. ASSUME NEW c \in Calls, Request(c) \/ Cancel(c) PROVE UNCHANGED recv
    BY <2>3 DEF Request, Register, SendOk, SendErr, AwaitOk, AwaitErr, Cancel
  <2>4. ASSUME NEW c \in Calls, Take(c) \/ Answer(c) PROVE UNCHANGED recv
    BY <2>4 DEF Take, Answer
  <2>5. Crash \/ UNCHANGED vars => UNCHANGED recv
    BY DEF Crash, vars
  <2> QED BY <2>1, <2>2, <2>3, <2>4, <2>5 DEF Next
<1>4. ASSUME NEW c \in Calls, call'[c] # "idle" PROVE recv'[on'[c]] # "absent"
  <2>1. on[c] \in Messengers
    BY DEF TypeOK
  <2>2. call[c] # "idle" \/ recv[on[c]] # "absent"
    <3>1. ASSUME NEW d \in Calls, Request(d) \/ Cancel(d)
          PROVE  call[c] # "idle" \/ recv[on[c]] # "absent"
      BY <1>4, <3>1 DEF TypeOK, UnixInv, Request, Register, SendOk, SendErr,
                        AwaitOk, AwaitErr, Cancel
    <3>2. ASSUME NEW m \in Messengers, Open(m) \/ Receiver(m) PROVE UNCHANGED call
      BY <3>2 DEF Open, Receiver, ReceiveOwn, ReceiveShared, ReceiveErr, Dispatch, calls
    <3>3. ASSUME NEW d \in Calls, Take(d) \/ Answer(d) PROVE UNCHANGED call
      BY <3>3 DEF Take, Answer, calls
    <3>4. Crash \/ UNCHANGED vars => UNCHANGED call
      BY DEF Crash, vars, calls
    <3> QED BY <1>4, <3>1, <3>2, <3>3, <3>4 DEF Next
  <2>3. recv[on[c]] # "absent"
    BY <2>2 DEF UnixInv
  <2> QED BY <1>1, <1>3, <2>1, <2>3
<1> QED BY <1>1, <1>2, <1>4 DEF UnixInv

\* A step that leaves the calls and the broker alone and loses no message.
LEMMA KeptFrame ==
  ASSUME NEW c \in Calls, KeptFor(c), UNCHANGED <<fixed, calls, pending>>,
         OnTheWay(c) => OnTheWay(c)'
  PROVE  KeptFor(c)'
BY DEF KeptFor, Linked, fixed, calls

LEMMA KeptServer ==
  ASSUME TypeOK, UnixInv, NEW c \in Calls, KeptFor(c), NEW d \in Calls,
         Take(d) \/ Answer(d)
  PROVE  KeptFor(c)'
<1>1. UNCHANGED <<fixed, calls, pending, held>>
  BY DEF Take, Answer
<1>2. on[c] \in Messengers /\ on' = on
  BY <1>1 DEF TypeOK, fixed
<1>3. CASE Take(d)
  <2>1. OnTheWay(c) => OnTheWay(c)'
    BY <1>1, <1>2, <1>3 DEF OnTheWay, Take
  <2> QED BY <1>1, <2>1, KeptFrame
<1>4. CASE Answer(d)
  <2>1. inbox[on[c]] \subseteq inbox'[on[c]]
    BY <1>2, <1>4 DEF Answer
  <2>2. requests' = requests /\ handling' = handling \ {d}
    BY <1>4 DEF Answer, UnixInv
  <2>3. c = d => Reply(c) \in inbox'[on[c]]
    BY <1>2, <1>4 DEF Answer, UnixInv
  <2>4. OnTheWay(c) => OnTheWay(c)'
    BY <1>1, <1>2, <2>1, <2>2, <2>3 DEF OnTheWay
  <2> QED BY <1>1, <2>4, KeptFrame
<1> QED BY <1>3, <1>4

LEMMA KeptReceive ==
  ASSUME TypeOK, UnixInv, NEW c \in Calls, KeptFor(c), alive, NEW m \in Messengers,
         Open(m) \/ ReceiveOwn(m) \/ ReceiveShared(m) \/ ReceiveErr(m)
  PROVE  KeptFor(c)'
<1>1. UNCHANGED <<fixed, calls, pending, requests, handling>>
  BY DEF Open, ReceiveOwn, ReceiveShared, ReceiveErr, server
<1>2. on[c] \in Messengers /\ on' = on
  BY <1>1 DEF TypeOK, fixed
<1>3. CASE Open(m)
  <2>1. CASE call[c] = "idle"
    BY <1>1, <2>1 DEF KeptFor, calls
  <2>2. CASE call[c] # "idle"
    <3>1. on[c] # m
      BY <1>3, <2>2 DEF Open, UnixInv
    <3>2. inbox'[on[c]] = inbox[on[c]] /\ held' = held
      BY <1>2, <1>3, <3>1 DEF TypeOK, Open
    <3>3. OnTheWay(c) => OnTheWay(c)'
      BY <1>1, <1>2, <3>2 DEF OnTheWay
    <3> QED BY <1>1, <3>3, KeptFrame
  <2> QED BY <2>1, <2>2
<1>4. CASE ReceiveOwn(m)
  <2>1. \A n \in Messengers : inbox[n] \cup held[n] \subseteq inbox'[n] \cup held'[n]
    BY <1>4 DEF TypeOK, ReceiveOwn, Receiving
  <2>2. OnTheWay(c) => OnTheWay(c)'
    BY <1>1, <1>2, <2>1 DEF OnTheWay
  <2> QED BY <1>1, <2>2, KeptFrame
<1>5. CASE ReceiveShared(m)
  <2>1. \A n \in Messengers : inbox[n] \cup held[n] \subseteq inbox'[n] \cup held'[n]
    BY <1>5 DEF TypeOK, ReceiveShared, Receiving
  <2>2. OnTheWay(c) => OnTheWay(c)'
    BY <1>1, <1>2, <2>1 DEF OnTheWay
  <2> QED BY <1>1, <2>2, KeptFrame
<1>6. CASE ReceiveErr(m)
  <2>1. OnTheWay(c) => OnTheWay(c)'
    BY <1>1, <1>2, <1>6 DEF OnTheWay, ReceiveErr
  <2> QED BY <1>1, <2>1, KeptFrame
<1> QED BY <1>3, <1>4, <1>5, <1>6

LEMMA KeptDispatch ==
  ASSUME TypeOK, EntriesInv, UnixInv, NEW c \in Calls, KeptFor(c),
         NEW m \in Messengers, Dispatch(m)
  PROVE  KeptFor(c)'
<1>1. PICK msg \in held[m] : IF msg.kind = "reply" THEN Deliver(m, msg.call)
                             ELSE UNCHANGED <<pending, rx, got>>
  BY DEF Dispatch
<1>2. msg.call \in Calls /\ msg \in Messages
  BY DEF TypeOK, Messages
<1>3. /\ UNCHANGED <<fixed, call, requests, handling, inbox>>
      /\ \A n \in Messengers \ {m} : held'[n] = held[n]
  BY DEF TypeOK, Dispatch, server
<1>4. on[c] \in Messengers /\ id[c] \in Ids /\ on' = on /\ id' = id
  BY <1>3 DEF TypeOK, fixed
\* A message that is not c's answer on c's messenger changes nothing for c.
<1>5. ASSUME ~(msg = Reply(c) /\ on[c] = m) PROVE OnTheWay(c) => OnTheWay(c)'
  <2>1. Reply(c) \in held[on[c]] => Reply(c) \in held'[on[c]]
    BY <1>3, <1>4, <1>5 DEF UnixInv
  <2> QED BY <1>3, <1>4, <2>1 DEF OnTheWay
<1>6. CASE UNCHANGED <<pending, rx, got>>
  <2>1. CASE msg = Reply(c) /\ on[c] = m
    <3>1. msg.kind = "reply" /\ msg.call = c
      BY <2>1 DEF Reply
    <3>2. Deliver(m, c)
      BY <1>1, <3>1
    <3>3. pending[m][id[c]] # c
      BY <1>4, <1>6, <3>2, NoCallAssumption DEF TypeOK, Deliver
    <3> QED BY <1>3, <1>4, <1>6, <2>1, <3>3 DEF KeptFor, Linked
  <2>2. CASE ~(msg = Reply(c) /\ on[c] = m)
    BY <1>3, <1>5, <1>6, <2>2, KeptFrame DEF calls
  <2> QED BY <2>1, <2>2
<1>7. ASSUME NEW d \in Calls,
             pending[m][id[msg.call]] = d, on[d] = m, id[d] = id[msg.call],
             pending' = [pending EXCEPT ![m][id[msg.call]] = NoCall],
             rx' = [rx EXCEPT ![d] = IF rx[d] = "open" THEN "value" ELSE rx[d]]
      PROVE  KeptFor(c)'
  <2>1. d = msg.call
    BY <1>2, <1>7 DEF UnixInv, FreshInv
  <2>2. CASE d = c
    <3>1. rx'[c] = "value" \/ (rx'[c] = rx[c] /\ rx[c] # "open")
      BY <1>7, <2>2 DEF TypeOK
    <3> QED BY <1>3, <3>1 DEF KeptFor, Linked
  <2>3. CASE d # c
    <3>1. id[c] # id[msg.call]
      BY <1>2, <2>1, <2>3 DEF UnixInv, FreshInv
    <3>2. rx'[c] = rx[c] /\ pending'[on[c]][id[c]] = pending[on[c]][id[c]]
      BY <1>2, <1>4, <1>7, <2>3, <3>1 DEF TypeOK
    <3>3. msg # Reply(c)
      BY <2>1, <2>3 DEF Reply
    <3>4. OnTheWay(c) => OnTheWay(c)'
      BY <1>5, <3>3
    <3> QED BY <1>3, <1>4, <3>2, <3>4 DEF KeptFor, Linked
  <2> QED BY <2>2, <2>3
<1> QED BY <1>1, <1>2, <1>6, <1>7, DeliverEffect

LEMMA KeptCaller ==
  ASSUME TypeOK, EntriesInv, UnixInv, alive, NEW c \in Calls, KeptFor(c),
         NEW d \in Calls, Request(d) \/ Cancel(d)
  PROVE  KeptFor(c)'
<1>1. UNCHANGED <<fixed, held, inbox, handling>>
  BY DEF Request, Register, SendOk, SendErr, AwaitOk, AwaitErr, Cancel, server
<1>2. /\ on[c] \in Messengers /\ id[c] \in Ids /\ on' = on /\ id' = id
      /\ on[d] \in Messengers /\ id[d] \in Ids
  BY <1>1 DEF TypeOK, fixed
<1>3. requests \subseteq requests'
  BY DEF Request, Register, SendOk, SendErr, AwaitOk, AwaitErr, Cancel, server, UnixInv
<1>4. OnTheWay(c) => OnTheWay(c)'
  BY <1>1, <1>2, <1>3 DEF OnTheWay
<1>5. CASE Register(d)
  <2>1. CASE c = d
    <3>1. call'[c] = "registered" /\ rx'[c] = "open" /\ pending'[on[c]][id[c]] = c
      BY <1>2, <1>5, <2>1 DEF TypeOK, Register, Insert
    <3> QED BY <1>2, <3>1 DEF KeptFor, Linked
  <2>2. CASE c # d
    <3>1. call'[c] = call[c] /\ id[c] # id[d]
      BY <1>5, <2>2 DEF TypeOK, Register, UnixInv, FreshInv
    <3>2. pending'[on[c]][id[c]] = pending[on[c]][id[c]]
      BY <1>2, <1>5, <3>1 DEF TypeOK, Register, Insert
    <3>3. pending[on[d]][id[d]] # c
      BY <1>2, <3>1, NoCallAssumption DEF EntriesInv
    <3>4. rx'[c] = rx[c]
      BY <1>5, <2>2, <3>3 DEF TypeOK, Register, Insert
    <3> QED BY <1>2, <1>4, <3>1, <3>2, <3>4 DEF KeptFor, Linked
  <2> QED BY <2>1, <2>2
<1>6. CASE SendOk(d)
  <2>1. UNCHANGED <<rx, pending>> /\ d \in requests'
    BY <1>6 DEF SendOk, UnixInv
  <2>2. c = d => call[c] = "registered" /\ call'[c] = "waiting" /\ OnTheWay(c)'
    BY <1>6, <2>1 DEF TypeOK, SendOk, OnTheWay
  <2>3. c # d => call'[c] = call[c]
    BY <1>6 DEF TypeOK, SendOk
  <2> QED BY <1>2, <1>4, <2>1, <2>2, <2>3 DEF KeptFor, Linked
<1>7. CASE SendErr(d) \/ AwaitOk(d) \/ AwaitErr(d) \/ Cancel(d)
  <2>1. UNCHANGED pending
    BY <1>7 DEF SendErr, AwaitOk, AwaitErr, Cancel
  <2>2. c = d => call'[c] \notin {"registered", "waiting"}
    BY <1>7 DEF TypeOK, SendErr, AwaitOk, AwaitErr, Cancel
  <2>3. c # d => call'[c] = call[c] /\ rx'[c] = rx[c]
    BY <1>7 DEF TypeOK, SendErr, AwaitOk, AwaitErr, Cancel
  <2> QED BY <1>2, <1>4, <2>1, <2>2, <2>3 DEF KeptFor, Linked
<1> QED BY <1>5, <1>6, <1>7 DEF Request

LEMMA KeptStep ==
  ASSUME TypeOK, EntriesInv, UnixInv, KeptInv, [Next]_vars
  PROVE  KeptInv'
<1>1. SUFFICES ASSUME alive', NEW c \in Calls PROVE KeptFor(c)'
  BY DEF KeptInv
<1>2. CASE Crash
  BY <1>1, <1>2 DEF Crash
<1>3. CASE ~Crash
  <2>1. alive
    <3>1. ASSUME NEW m \in Messengers, Open(m) \/ Receiver(m) PROVE UNCHANGED alive
      BY <3>1 DEF Open, Receiver, ReceiveOwn, ReceiveShared, ReceiveErr, Dispatch
    <3>2. ASSUME NEW d \in Calls, Request(d) \/ Cancel(d) PROVE UNCHANGED alive
      BY <3>2 DEF Request, Register, SendOk, SendErr, AwaitOk, AwaitErr, Cancel
    <3>3. ASSUME NEW d \in Calls, Take(d) \/ Answer(d) PROVE UNCHANGED alive
      BY <3>3 DEF Take, Answer
    <3>4. UNCHANGED vars => UNCHANGED alive
      BY DEF vars
    <3> QED BY <1>1, <1>3, <3>1, <3>2, <3>3, <3>4 DEF Next
  <2>2. KeptFor(c)
    BY <2>1 DEF KeptInv
  <2>3. CASE UNCHANGED vars
    BY <2>2, <2>3 DEF vars, fixed, calls, server, KeptFor, Linked, OnTheWay
  <2>4. ASSUME NEW m \in Messengers, Open(m) \/ Receiver(m) PROVE KeptFor(c)'
    BY <2>1, <2>2, <2>4, KeptReceive, KeptDispatch DEF Receiver
  <2>5. ASSUME NEW d \in Calls, Request(d) \/ Cancel(d) PROVE KeptFor(c)'
    BY <2>1, <2>2, <2>5, KeptCaller
  <2>6. ASSUME NEW d \in Calls, Take(d) \/ Answer(d) PROVE KeptFor(c)'
    BY <2>2, <2>6, KeptServer
  <2> QED BY <1>3, <2>3, <2>4, <2>5, <2>6 DEF Next
<1> QED BY <1>2, <1>3

\* Over Unix sockets with unique ids, while the server lives, no step of the
\* callers, the receiver tasks or the server loses a request, an answer or
\* the channel that waits for it (lib.rs:532-611).
THEOREM UnixAnswersKept ==
  ASSUME UnixOnly
  PROVE  Spec => []AnswerKept
<1>1. Init => TypeOK /\ EntriesInv /\ UnixInv /\ KeptInv
  BY DEF UnixOnly, Init, TypeOK, EntriesInv, UnixInv, FreshInv, KeptInv, KeptFor
<1>2. KeptInv => AnswerKept
  BY DEF KeptInv, KeptFor, Linked, AnswerKept
<1> QED BY <1>1, <1>2, TypeStep, EntriesStep, UnixStep, KeptStep, PTL DEF Spec
=============================================================================
