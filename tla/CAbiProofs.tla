----------------------------- MODULE CAbiProofs -----------------------------
(***************************************************************************)
(* Theorems about CAbi: the transport keeps under the C interface what it  *)
(* promises, and a message that was accepted is in one place.  The proofs  *)
(* rest on the invariants of UnixChannel, which the one step of CAbi that  *)
(* is two of UnixChannel keeps as well.                                    *)
(***************************************************************************)
EXTENDS CAbi, UnixOrderProofs, FiniteSetTheorems

-----------------------------------------------------------------------------
(* The inductive invariant: what the interface adds to that of UnixChannel. *)

OtherCalls == {Idle} \cup [op : {"receive", "ping"}, conn : Conns]
SendCalls == [op : {"send", "failed"}, conn : Conns]
IsSending(k) == call[k].op \in {"send", "failed"}

AbiTyping ==
  /\ call \in [Handles -> OtherCalls \cup SendCalls]
  /\ kept \in [Handles -> Conns \cup {NoConn}]
  /\ stack \in Seq(Messages) /\ taken \in Seq(Messages)
  /\ done \subseteq Conns /\ joined \in [Conns -> Nat]

\* The interface drops no send, and in its format a task that has lost its place
\* ends.
UncutAndInPlace(c) ==
  ~Dropped(c, "send") /\ ~Dropped(c, "stray") /\ task[c] # "garbled"
NoTwoCuts == \A c \in Conns : UncutAndInPlace(c)

\* A connection that is sent over is one handle's.  Nothing has moved of its
\* line, or the message was begun and what is left is the end at most.
OneLine(c) ==
  \/ Len(sent[c]) = 0 /\ Len(wr[c]) = 2
  \/ Len(sent[c]) = 1 /\ Len(wr[c]) # 2
Sender(k) ==
  IsSending(k) =>
    /\ client[call[k].conn] # "none"
    /\ \A l \in Handles : IsSending(l) /\ call[l].conn = call[k].conn => l = k
    /\ call[k].op = "send" /\ client[call[k].conn] # "closed" => OneLine(call[k].conn)

\* A message is sent once.
SentOnce ==
  /\ \A c, d \in Conns : \A i \in DOMAIN sent[c], j \in DOMAIN sent[d] :
       sent[c][i] = sent[d][j] => c = d /\ i = j
  /\ \A c \in Conns : Len(wr[c]) = 2 => ~IsSent(wr[c][1].item[2])

\* Over a connection whose send returned 0 one line was written to its end.
Finished(c) ==
  c \in done =>
    /\ client[c] = "closed" /\ Len(sent[c]) = 1
    /\ Unserved(c) /\ ~Dropped(c, "read") => LastEnds(Coming(c))

\* What a task loses, and what it ends for unless the client has gone and
\* everything is served, comes with a broadcast made after it subscribed.
Late(c) == joined[c] < pos[c]
After(c) ==
  /\ task[c] = "none" => out[c] = <<>>
  /\ joined[c] <= pos[c]
  /\ Dropped(c, "read") => Late(c)
  /\ \A i \in DOMAIN out[c] : out[c][i].item[1] = "cast" => Late(c)
  /\ task[c] = "ended" /\ c \notin crashed =>
       Late(c) \/ (client[c] = "closed" /\ (c \in done => served[c] # <<>>))

\* What the handler was called with is in one place, unless its process died.
InHand(m) == (\E i \in DOMAIN stack : stack[i] = m) \/ (\E i \in DOMAIN taken : taken[i] = m)
ServedOver(c, m) == \E i \in DOMAIN served[c] : served[c][i] = m
WasServed(m) == \E c \in Conns : \E i \in DOMAIN served[c] : served[c][i] = m
InPlace ==
  /\ \A i, j \in DOMAIN stack : stack[i] = stack[j] => i = j
  /\ \A i, j \in DOMAIN taken : taken[i] = taken[j] => i = j
  /\ \A i \in DOMAIN stack, j \in DOMAIN taken : stack[i] # taken[j]
  /\ \A m : InHand(m) => WasServed(m)
  /\ \A c \in Conns \ crashed : \A m : ServedOver(c, m) => InHand(m)

AbiInv ==
  /\ AbiTyping /\ NoTwoCuts /\ SentOnce
  /\ \A k \in Handles : Sender(k)
  /\ \A c \in Conns : Finished(c) /\ After(c)
  /\ (loop # "dead" => running) /\ InPlace

-----------------------------------------------------------------------------
(* The steps of the interface, by what they do to the transport.           *)

USE DEF accepting, serving, calling, streams, history

\* A connection is made with a line to write: two steps of UnixChannel in one.
Begin(c, m) == ConnectToSend(c, Line(<<"request", m>>)) /\ ~WasSent(m)

\* A handle that does not send goes on, over some connection or none.
Other ==
  /\ \E k \in Handles, x \in OtherCalls : ~IsSending(k) /\ call' = [call EXCEPT ![k] = x]
  /\ kept' \in [Handles -> Conns \cup {NoConn}]
Hearing(c) == Connect(c) \/ ReceivePart(c) \/ Receive(c) \/ DropReceive(c)
Talks == Other /\ UNCHANGED <<stack, taken, done, joined>>
               /\ ((\E c \in Conns : Hearing(c)) \/ UNCHANGED vars)
Leaves == Other /\ UNCHANGED <<stack, taken, done, joined>> /\ \E c \in Conns : Close(c)

LEMMA IdleFacts == Idle.op = "none" /\ Idle \notin SendCalls /\ Idle \in OtherCalls
<1>1. Idle.op = "none"
  BY DEF Idle
<1>2. \A x \in SendCalls : x.op \in {"send", "failed"}
  BY DEF SendCalls
<1> QED BY <1>1, <1>2 DEF OtherCalls

LEMMA CallTypes ==
  ASSUME AbiTyping, NEW k \in Handles
  PROVE  /\ call[k] \in OtherCalls \cup SendCalls
         /\ call[k].op \in {"send", "failed"} <=> call[k] \in SendCalls
         /\ call[k] \in OtherCalls <=> ~IsSending(k)
         /\ call[k].op # "none" => call[k].conn \in Conns
         /\ Idle \in OtherCalls
         /\ \A c \in Conns, p \in {"receive", "ping"} : [op |-> p, conn |-> c] \in OtherCalls
         /\ \A c \in Conns, p \in {"send", "failed"} : [op |-> p, conn |-> c] \in SendCalls
         /\ kept[k] # NoConn => kept[k] \in Conns
<1>1. call[k] \in OtherCalls \cup SendCalls /\ (kept[k] # NoConn => kept[k] \in Conns)
  BY DEF AbiTyping
<1>2. /\ \A x \in SendCalls : x.op \in {"send", "failed"} /\ x.conn \in Conns
      /\ \A x \in OtherCalls : x = Idle \/ (x.op \in {"receive", "ping"} /\ x.conn \in Conns)
  BY DEF SendCalls, OtherCalls
<1>3. /\ \A c \in Conns, p \in {"receive", "ping"} : [op |-> p, conn |-> c] \in OtherCalls
      /\ \A c \in Conns, p \in {"send", "failed"} : [op |-> p, conn |-> c] \in SendCalls
  BY DEF SendCalls, OtherCalls
<1> QED BY <1>1, <1>2, <1>3, IdleFacts DEF IsSending

LEMMA AbiSteps ==
  ASSUME AbiTyping, [CNext]_cvars
  PROVE  \/ UNCHANGED cvars
         \/ \E k \in Handles, m \in Messages : CallSend(k, m)
         \/ \E k \in Handles : SendGoes(k) \/ SendReturns(k)
         \/ Talks \/ Leaves
         \/ \E c \in Conns : Push(c)
         \/ Pop \/ Joins
         \/ \E h \in Hosted : Broadcast(h)
         \/ Dies \/ Restarts
<1>0. kept \in [Handles -> Conns \cup {NoConn}]
  BY DEF AbiTyping
<1>1. ASSUME NEW k \in Handles, CallReceive(k) PROVE Talks
  <2>1. ~IsSending(k) /\ call[k] = Idle
    BY <1>1, IdleFacts DEF CallReceive, Begins, IsSending
  <2>2. CASE kept[k] = NoConn
    <3>1. PICK c \in Conns : Begins(k, "receive", c) /\ Connect(c)
      BY <1>1, <2>2 DEF CallReceive
    <3>2. [op |-> "receive", conn |-> c] \in OtherCalls
      BY CallTypes
    <3>3. Other
      BY <1>0, <1>1, <2>1, <2>2, <3>1, <3>2 DEF CallReceive, Begins, Other
    <3> QED BY <1>1, <3>1, <3>3 DEF CallReceive, Talks, Hearing
  <2>3. CASE kept[k] # NoConn
    <3>1. Begins(k, "receive", kept[k]) /\ UNCHANGED vars
      BY <1>1, <2>3 DEF CallReceive
    <3>2. [op |-> "receive", conn |-> kept[k]] \in OtherCalls
      BY <2>3, CallTypes
    <3>3. Other
      BY <1>0, <1>1, <2>1, <2>3, <3>1, <3>2 DEF CallReceive, Begins, Other
    <3> QED BY <1>1, <3>1, <3>3 DEF CallReceive, Talks
  <2> QED BY <2>2, <2>3
<1>2. ASSUME NEW k \in Handles, ReceiveReturns(k) PROVE Talks
  <2>1. call[k].op = "receive"
    BY <1>2 DEF ReceiveReturns, Goes
  <2>2. ~IsSending(k) /\ call[k].conn \in Conns /\ call[k] \in OtherCalls /\ Idle \in OtherCalls
    <3>1. ~IsSending(k)
      BY <2>1 DEF IsSending
    <3> QED BY <2>1, <3>1, CallTypes
  <2>3. call' = call \/ call' = [call EXCEPT ![k] = Idle]
    BY <1>2 DEF ReceiveReturns, Returns
  <2>4. call = [call EXCEPT ![k] = call[k]]
    BY DEF AbiTyping
  <2>5. Other
    BY <1>0, <1>2, <2>2, <2>3, <2>4 DEF ReceiveReturns, Other
  <2>6. Hearing(call[k].conn) \/ UNCHANGED vars
    BY <1>2 DEF ReceiveReturns, Hearing
  <2> QED BY <1>2, <2>2, <2>5, <2>6 DEF ReceiveReturns, Talks
<1>3. ASSUME NEW k \in Handles, Disconnect(k) PROVE Leaves
  <2>1. ~IsSending(k) /\ call[k] = Idle /\ kept[k] \in Conns
    BY <1>3, CallTypes, IdleFacts DEF Disconnect, IsSending
  <2>2. call = [call EXCEPT ![k] = call[k]]
    BY DEF AbiTyping
  <2>3. Other
    <3>1. UNCHANGED call /\ kept' = [kept EXCEPT ![k] = NoConn]
      BY <1>3 DEF Disconnect
    <3>2. call[k] \in OtherCalls
      BY <2>1, IdleFacts
    <3> QED BY <1>0, <2>1, <2>2, <3>1, <3>2 DEF Other
  <2> QED BY <1>3, <2>1, <2>3 DEF Disconnect, Leaves
<1>4. ASSUME NEW k \in Handles, CallPing(k) PROVE Talks
  <2>1. PICK c \in Conns : Begins(k, "ping", c) /\ Connect(c)
    BY <1>4 DEF CallPing
  <2>2. ~IsSending(k) /\ [op |-> "ping", conn |-> c] \in OtherCalls
    BY <2>1, CallTypes, IdleFacts DEF Begins, IsSending
  <2>3. Other
    BY <1>0, <1>4, <2>1, <2>2 DEF CallPing, Begins, Other
  <2> QED BY <1>4, <2>1, <2>3 DEF CallPing, Talks, Hearing
<1>5. ASSUME NEW k \in Handles, PingReturns(k) PROVE Leaves
  <2>1. call[k].op = "ping"
    BY <1>5 DEF PingReturns, Goes
  <2>2. ~IsSending(k) /\ call[k].conn \in Conns /\ Idle \in OtherCalls
    <3>1. ~IsSending(k)
      BY <2>1 DEF IsSending
    <3> QED BY <2>1, <3>1, CallTypes
  <2>3. Other
    BY <1>0, <1>5, <2>2 DEF Other, PingReturns, Returns
  <2> QED BY <1>5, <2>2, <2>3 DEF PingReturns, Leaves
<1> QED BY <1>1, <1>2, <1>3, <1>4, <1>5 DEF CNext

\* Every step but the start of a send is one of UnixChannel.
LEMMA AbiNext ==
  ASSUME AbiTyping, [CNext]_cvars
  PROVE  [Next]_vars \/ \E c \in Conns, m \in Messages : Begin(c, m)
<1>1. CASE UNCHANGED cvars \/ Pop
  BY <1>1 DEF cvars, Pop
<1>2. ASSUME NEW k \in Handles, NEW m \in Messages, CallSend(k, m)
      PROVE  \E c \in Conns : Begin(c, m)
  BY <1>2 DEF CallSend, Begin
<1>3. ASSUME NEW k \in Handles, SendGoes(k) \/ SendReturns(k) PROVE [Next]_vars
  <2>1. call[k].op \in {"send", "failed"}
    BY <1>3 DEF SendGoes, SendReturns, Goes
  <2>2. call[k].conn \in Conns
    BY <2>1, CallTypes
  <2>3. Sending(call[k].conn) \/ Close(call[k].conn)
    BY <1>3 DEF SendGoes, SendReturns, Sending
  <2> QED BY <2>2, <2>3 DEF Next
<1>4. CASE Talks \/ Leaves
  BY <1>4 DEF Talks, Leaves, Hearing, Next, Receiving
<1>5. ASSUME NEW c \in Conns, Push(c) PROVE [Next]_vars
  BY <1>5 DEF Push, PushUnless, Next
<1>6. CASE Joins \/ Dies \/ Restarts
  BY <1>6 DEF Joins, Dies, Restarts, Next
<1>7. ASSUME NEW h \in Hosted, Broadcast(h) PROVE [Next]_vars
  BY <1>7 DEF Broadcast, Next
<1> QED BY <1>1, <1>2, <1>3, <1>4, <1>5, <1>6, <1>7, AbiSteps

-----------------------------------------------------------------------------
(* What the transport keeps.                                               *)

\* What Begin does to the invariant of the connections: Connect, then BeginSend.
LEMMA BeginLink ==
  ASSUME LinkInv, NEW c \in Conns, NEW m \in Messages, Begin(c, m)
  PROVE  LinkInv'
<1> DEFINE line == Line(<<"request", m>>)
<1>1. /\ client[c] = "none" /\ client' = [client EXCEPT ![c] = "open"]
      /\ wr' = [wr EXCEPT ![c] = line] /\ backlog' = Append(backlog, c)
      /\ UNCHANGED <<case, loop, running, log, serving, rdpart, streams, history>>
  BY DEF Begin, ConnectToSend
<1>2. Typing /\ Queue /\ Sound(c) /\ task[c] = "none" /\ wr[c] = <<>>
  BY <1>1 DEF LinkInv, Sound, Untouched, Shape
<1>3. line \in Seq(Sends) /\ Len(line) = 2
  BY LineTypes, LineFacts
<1> HIDE DEF line
<1>4. Typing'
  <2>1. backlog \in Seq(Conns) /\ wr \in [Conns -> Seq(Sends)]
        /\ client \in [Conns -> {"none", "open", "garbled", "closed"}]
    BY <1>2 DEF Typing
  <2>2. backlog' \in Seq(Conns)
    BY <1>1, <2>1
  <2>3. wr' \in [Conns -> Seq(Sends)] /\ client' \in [Conns -> {"none", "open", "garbled", "closed"}]
    BY <1>1, <1>3, <2>1
  <2> QED BY <1>1, <1>2, <2>2, <2>3 DEF Typing
<1>5. client'[c] = "open" /\ wr'[c] = line /\ Len(wr'[c]) = 2
  BY <1>1, <1>2, <1>3 DEF Typing
<1>6. \A d \in Conns \ {c} : Still(d)
  BY <1>1, <1>2 DEF Typing, Still
<1>7. Sound(c)'
  <2>1. (Coming(c))' = Coming(c) /\ Coming(c) = <<>>
    <3>1. inpart[c] = <<>> /\ up[c] = <<>>
      BY <1>1, <1>2 DEF Sound, Untouched
    <3> QED BY <1>1, <3>1 DEF Coming
  <2>2. Shape(c)' /\ Untouched(c)'
    BY <1>1, <1>2, <1>5 DEF Sound, Shape, Untouched, Dropped, line
  <2>3. Tracked(c)'
    BY <1>1, <1>2, <2>1 DEF Sound, Tracked, Unserved, Dropped
  <2>4. Aligned(c)' /\ Headless(c)'
    BY <1>1, <1>2, <1>5, <2>1 DEF Sound, Aligned, Headless, Unserved, Dropped, Damaged, LastEnds
  <2>5. Caused(c)' /\ Prefix(c)'
    BY <1>1, <1>2 DEF Sound, Caused, Prefix, Dropped
  <2> QED BY <2>2, <2>3, <2>4, <2>5 DEF Sound
<1>8. Queue'
  <2>1. backlog \in Seq(Conns)
    BY <1>2 DEF Typing
  <2>2. /\ Len(backlog') = Len(backlog) + 1 /\ backlog'[Len(backlog) + 1] = c
        /\ \A i \in 1..Len(backlog) : backlog'[i] = backlog[i] /\ backlog[i] \in Conns
    BY <1>1, <2>1
  <2>3. Len(backlog) \in Nat
    BY <2>1
  <2>4. \A i \in 1..Len(backlog') : i \in 1..Len(backlog) \/ i = Len(backlog) + 1
    BY <2>2, <2>3
  <2>5. \A i \in 1..Len(backlog) : backlog[i] # c /\ client[backlog[i]] # "none" /\ task[backlog[i]] = "none"
    BY <1>1, <1>2 DEF Queue
  <2>6. \A d \in Conns \ {c} : client'[d] = client[d]
    BY <1>6 DEF Still
  <2>7. task' = task
    BY <1>1
  <2>8. ASSUME NEW i \in 1..Len(backlog')
        PROVE  task'[backlog'[i]] = "none" /\ client'[backlog'[i]] # "none"
    BY <1>2, <1>5, <2>2, <2>4, <2>5, <2>6, <2>7
  <2>9. ASSUME NEW i \in 1..Len(backlog'), NEW j \in 1..Len(backlog'), backlog'[i] = backlog'[j]
        PROVE  i = j
    BY <1>2, <2>2, <2>4, <2>5, <2>9 DEF Queue
  <2> QED BY <2>8, <2>9 DEF Queue
<1>9. ASSUME NEW d \in Conns PROVE Sound(d)'
  <2>1. UNCHANGED <<loop, running, crashed>> /\ Sound(d)
    BY <1>1 DEF LinkInv
  <2> QED BY <1>6, <1>7, <2>1, StillSound
<1> QED BY <1>4, <1>8, <1>9 DEF LinkInv

\* The invariants of UnixChannel are invariants under the interface.
Base == LinkInv /\ Unique

LEMMA BaseInit == CInit => Base
BY SoundInit, UniqueInit DEF CInit, Base

LEMMA BaseStep == Base /\ AbiTyping /\ [CNext]_cvars => Base'
<1> SUFFICES ASSUME Base, AbiTyping, [CNext]_cvars PROVE Base'
  OBVIOUS
<1>1. CASE [Next]_vars
  BY <1>1, LinkStep, UniqueStep DEF Base
<1>2. ASSUME NEW c \in Conns, NEW m \in Messages, Begin(c, m) PROVE Base'
  <2>1. Typing /\ Unique /\ wr[c] = <<>>
    BY <1>2 DEF Base, LinkInv, Sound, Shape, Begin, ConnectToSend
  <2>2. Unique'
    BY <1>2, <2>1, BeginUnique DEF Begin, ConnectToSend
  <2> QED BY <1>2, <2>2, BeginLink DEF Base
<1> QED BY <1>1, <1>2, AbiNext

-----------------------------------------------------------------------------
(* Types, and what is never cut.                                           *)

LEMMA AbiTypingInit == CInit => AbiTyping
<1> SUFFICES ASSUME CInit PROVE AbiTyping
  OBVIOUS
<1>1. Idle \in OtherCalls
  BY IdleFacts
<1> QED BY <1>1 DEF CInit, AbiTyping

\* A step of a task: the handler pushes what it is called with.
LEMMA PushFacts ==
  ASSUME Base, AbiTyping, NEW c \in Conns, Push(c)
  PROVE  \/ WithoutRequest(c) /\ stack' = stack /\ served' = served
         \/ /\ HandleRequest(c)
            /\ \E m \in Messages, k \in DOMAIN up[c] :
                 /\ up[c][k].end /\ m = up[c][k].item[2]
                 /\ served' = [served EXCEPT ![c] = Append(@, m)]
                 /\ stack' = Append(stack, m)
<1>1. /\ Serve(c) /\ stack' = IF served'[c] = served[c] THEN stack
                             ELSE Append(stack, served'[c][Len(served'[c])])
  BY DEF Push, PushUnless
<1>2. Typing /\ up[c] \in Seq(Sends) /\ served[c] \in Seq(Messages)
  BY ConnTypes DEF Base, LinkInv
<1>3. CASE WithoutRequest(c)
  <2>1. served' = served
    BY <1>3 DEF WithoutRequest, ReadPart, ReadGarbage, ReadGarbled, ReadEnd, EndTask,
                TakeBroadcast, Deliver, Lag, LagTo, Respond, RespondFails
  <2> QED BY <1>1, <1>3, <2>1
<1>4. CASE HandleRequest(c)
  <2>1. PICK k \in DOMAIN up[c] : LineRead(c, k) /\ Handle(c, k, Answer(c, k))
    BY <1>4 DEF HandleRequest
  <2>2. PICK m : m = up[c][k].item[2]
    OBVIOUS
  <2>3. up[c][k].end /\ up[c][k] \in Sends
    BY <1>2, <2>1 DEF LineRead, EndsAt
  <2>4. m \in Messages
    BY <2>2, <2>3, PieceFacts
  <2>5. served' = [served EXCEPT ![c] = Append(served[c], m)]
    BY <2>1, <2>2 DEF Handle
  <2>6. served'[c] = Append(served[c], m)
    BY <1>2, <2>5 DEF Typing
  <2>7. PICK v : v = served[c] /\ v \in Seq(Messages)
    BY <1>2
  <2>8. Append(v, m) # v /\ Append(v, m)[Len(Append(v, m))] = m
    BY <2>4, <2>7
  <2>9. stack' = Append(stack, m)
    BY <1>1, <2>6, <2>7, <2>8
  <2> QED BY <1>4, <2>2, <2>3, <2>4, <2>5, <2>9
<1> QED BY <1>1, <1>3, <1>4 DEF Serve

LEMMA PopFacts ==
  ASSUME AbiTyping, Pop
  PROVE  /\ stack' \in Seq(Messages) /\ taken' \in Seq(Messages)
         /\ Len(stack) \in Nat \ {0} /\ Len(taken) \in Nat
         /\ Len(stack') = Len(stack) - 1 /\ \A i \in 1..(Len(stack) - 1) : stack'[i] = stack[i]
         /\ Len(taken') = Len(taken) + 1 /\ \A i \in 1..Len(taken) : taken'[i] = taken[i]
         /\ taken'[Len(taken) + 1] = stack[Len(stack)]
<1>1. /\ stack \in Seq(Messages) /\ taken \in Seq(Messages) /\ stack # <<>>
      /\ taken' = Append(taken, stack[Len(stack)])
      /\ stack' = SubSeq(stack, 1, Len(stack) - 1)
  BY DEF AbiTyping, Pop
<1>2. PICK s, t : s = stack /\ t = taken
  OBVIOUS
<1>3. Len(s) \in Nat \ {0} /\ s[Len(s)] \in Messages /\ Len(t) \in Nat
  BY <1>1, <1>2
<1>4. PICK m : m = s[Len(s)]
  OBVIOUS
<1>5. /\ Append(t, m) \in Seq(Messages) /\ Len(Append(t, m)) = Len(t) + 1
      /\ Append(t, m)[Len(t) + 1] = m /\ \A i \in 1..Len(t) : Append(t, m)[i] = t[i]
  BY <1>1, <1>2, <1>3, <1>4
<1>6. /\ SubSeq(s, 1, Len(s) - 1) \in Seq(Messages)
      /\ Len(SubSeq(s, 1, Len(s) - 1)) = Len(s) - 1
      /\ \A i \in 1..(Len(s) - 1) : SubSeq(s, 1, Len(s) - 1)[i] = s[i]
  <2>1. s \in Seq(Messages) /\ Len(s) - 1 \in 0..Len(s)
    BY <1>1, <1>2, <1>3
  <2>2. /\ Taken(s, Len(s) - 1) \in Seq(Messages)
        /\ Len(Taken(s, Len(s) - 1)) = Len(s) - 1
        /\ \A i \in 1..(Len(s) - 1) : Taken(s, Len(s) - 1)[i] = s[i]
    BY ONLY <2>1, SplitFacts
  <2> QED BY <2>2 DEF Taken
<1> QED BY <1>1, <1>2, <1>3, <1>4, <1>5, <1>6

LEMMA AbiTypingStep == Base /\ AbiTyping /\ [CNext]_cvars => AbiTyping'
<1> SUFFICES ASSUME Base, AbiTyping, [CNext]_cvars PROVE AbiTyping'
  OBVIOUS
<1>0. Typing /\ served' \in [Conns -> Seq(Messages)]
  BY BaseStep DEF Base, LinkInv, Typing
<1>1. /\ call \in [Handles -> OtherCalls \cup SendCalls]
      /\ kept \in [Handles -> Conns \cup {NoConn}]
      /\ stack \in Seq(Messages) /\ taken \in Seq(Messages)
      /\ done \subseteq Conns /\ joined \in [Conns -> Nat]
  BY DEF AbiTyping
<1>2. call' \in [Handles -> OtherCalls \cup SendCalls]
  <2>1. ASSUME NEW k \in Handles, NEW m \in Messages, CallSend(k, m)
        PROVE  call' \in [Handles -> OtherCalls \cup SendCalls]
    <3>1. PICK c \in Conns : call' = [call EXCEPT ![k] = [op |-> "send", conn |-> c]]
      BY <2>1 DEF CallSend, Begins
    <3>2. [op |-> "send", conn |-> c] \in SendCalls
      BY DEF SendCalls
    <3> QED BY <1>1, <3>1, <3>2
  <2>2. ASSUME NEW k \in Handles, SendGoes(k)
        PROVE  call' \in [Handles -> OtherCalls \cup SendCalls]
    <3>1. call[k] \in SendCalls
      BY <2>2, CallTypes DEF SendGoes, Goes
    <3>2. [call[k] EXCEPT !.op = "failed"] \in SendCalls
      BY <3>1 DEF SendCalls
    <3>3. call' = call \/ call' = [call EXCEPT ![k] = [call[k] EXCEPT !.op = "failed"]]
      BY <2>2 DEF SendGoes
    <3> QED BY <1>1, <3>2, <3>3
  <2>3. ASSUME NEW k \in Handles, SendReturns(k)
        PROVE  call' \in [Handles -> OtherCalls \cup SendCalls]
    BY <1>1, <2>3, IdleFacts DEF SendReturns, Returns
  <2>4. CASE Talks \/ Leaves
    BY <1>1, <2>4 DEF Talks, Leaves, Other
  <2>5. CASE UNCHANGED call
    BY <1>1, <2>5
  <2> QED BY <2>1, <2>2, <2>3, <2>4, <2>5, AbiSteps
      DEF Push, PushUnless, Pop, Joins, Broadcast, Dies, Restarts, cvars, abi
<1>3. kept' \in [Handles -> Conns \cup {NoConn}]
  <2>1. CASE Talks \/ Leaves
    BY <2>1 DEF Talks, Leaves, Other
  <2>2. CASE UNCHANGED kept
    BY <1>1, <2>2
  <2> QED BY <2>1, <2>2, AbiSteps
      DEF CallSend, SendGoes, SendReturns, Push, PushUnless, Pop, Joins, Broadcast, Dies, Restarts, cvars, abi
<1>4. stack' \in Seq(Messages) /\ taken' \in Seq(Messages)
  <2>1. ASSUME NEW c \in Conns, Push(c) PROVE stack' \in Seq(Messages) /\ taken' \in Seq(Messages)
    <3>1. stack' = stack \/ \E m \in Messages : stack' = Append(stack, m)
      BY <2>1, PushFacts
    <3>2. taken' = taken
      BY <2>1 DEF Push, PushUnless
    <3>3. ASSUME NEW m \in Messages, stack' = Append(stack, m) PROVE stack' \in Seq(Messages)
      BY <1>1, <3>3
    <3> QED BY <1>1, <3>1, <3>2, <3>3
  <2>2. CASE Pop
    BY <2>2, PopFacts
  <2>3. CASE Dies
    BY <1>1, <2>3 DEF Dies
  <2>4. CASE UNCHANGED <<stack, taken>>
    BY <1>1, <2>4
  <2> QED BY <2>1, <2>2, <2>3, <2>4, AbiSteps
      DEF CallSend, SendGoes, SendReturns, Talks, Leaves, Joins, Broadcast, Restarts, cvars, abi
<1>5. done' \subseteq Conns
  <2>1. ASSUME NEW k \in Handles, SendReturns(k) PROVE done' \subseteq Conns
    <3>1. call[k].conn \in Conns
      BY <2>1, CallTypes DEF SendReturns
    <3> QED BY <1>1, <2>1, <3>1 DEF SendReturns
  <2>2. CASE UNCHANGED done
    BY <1>1, <2>2
  <2> QED BY <2>1, <2>2, AbiSteps
      DEF CallSend, SendGoes, Talks, Leaves, Push, PushUnless, Pop, Joins, Broadcast, Dies, Restarts, cvars, abi
<1>6. joined' \in [Conns -> Nat]
  <2>1. CASE Joins
    <3>1. Len(log) \in Nat
      BY <1>0 DEF Typing
    <3>2. joined' = joined \/ joined' = [joined EXCEPT ![Head(backlog)] = Len(log)]
      BY <2>1 DEF Joins
    <3> QED BY <1>1, <3>1, <3>2
  <2>2. CASE UNCHANGED joined
    BY <1>1, <2>2
  <2> QED BY <2>1, <2>2, AbiSteps
      DEF CallSend, SendGoes, SendReturns, Talks, Leaves, Push, PushUnless, Pop, Broadcast, Dies, Restarts, cvars, abi
<1> QED BY <1>2, <1>3, <1>4, <1>5, <1>6 DEF AbiTyping

LEMMA NoTwoCutsStep == Base /\ AbiTyping /\ NoTwoCuts /\ [CNext]_cvars => NoTwoCuts'
<1> SUFFICES ASSUME Base, AbiTyping, NoTwoCuts, [CNext]_cvars, NEW c \in Conns
             PROVE  UncutAndInPlace(c)'
  BY DEF NoTwoCuts
<1>1. UncutAndInPlace(c) /\ Typing
  BY DEF NoTwoCuts, Base, LinkInv
<1>2. ASSUME NEW d \in Conns, Push(d) PROVE UncutAndInPlace(c)'
  <2>1. /\ cut' \in {cut, cut \cup {<<d, "read">>}}
        /\ \E t \in {task[d], "open", "ended"} : task' = [task EXCEPT ![d] = t]
    <3>1. task[d] # "garbled" /\ case.format = "Json" /\ task = [task EXCEPT ![d] = task[d]]
      BY <1>1, FormatAssumption DEF NoTwoCuts, UncutAndInPlace, Typing
    <3>2. Lost(d) \in {{}, {<<d, "read">>}} /\ cut \cup {} = cut
      BY <3>1 DEF Lost
    <3>3. CASE HandleRequest(d) \/ ReadPart(d) \/ Respond(d)
      BY <3>1, <3>3 DEF HandleRequest, Handle, ReadPart, Respond
    <3>4. CASE ReadGarbage(d) \/ ReadGarbled(d) \/ ReadEnd(d)
      BY <3>1, <3>4 DEF ReadGarbage, ReadGarbled, ReadEnd, EndTask
    <3>5. CASE TakeBroadcast(d) \/ Lag(d)
      <4>1. cut' = cut \cup Lost(d) /\ task' = [task EXCEPT ![d] = "open"]
        BY <3>5 DEF TakeBroadcast, Deliver, Lag, LagTo, DropRead
      <4> QED BY <3>2, <4>1
    <3>6. CASE RespondFails(d)
      <4>1. UNCHANGED cut /\ \E t \in {task[d], "ended"} : task' = [task EXCEPT ![d] = t]
        BY <3>6 DEF RespondFails
      <4> QED BY <4>1
    <3> QED BY <1>2, <3>3, <3>4, <3>5, <3>6 DEF Push, PushUnless, Serve, WithoutRequest
  <2> QED BY <1>1, <2>1 DEF UncutAndInPlace, Dropped, Typing
<1>3. ASSUME NEW d \in Conns, Hearing(d)
      PROVE  task' = task /\ cut' \in {cut, cut \cup {<<d, "receive">>}}
  BY <1>3 DEF Hearing, Connect, ConnectToSend, ReceivePart, Receive, ReceiveLine, DropReceive
<1>4. CASE UNCHANGED <<cut, task>>
  BY <1>1, <1>4 DEF UncutAndInPlace, Dropped
<1>5. ASSUME NEW k \in Handles, NEW m \in Messages, CallSend(k, m) PROVE UNCHANGED <<cut, task>>
  BY <1>5 DEF CallSend, ConnectToSend
<1>6. ASSUME NEW k \in Handles, SendGoes(k) \/ SendReturns(k) PROVE UNCHANGED <<cut, task>>
  BY <1>6 DEF SendGoes, SendReturns, Write, WriteFails, Close
<1>7. ASSUME Leaves \/ Pop \/ Restarts \/ UNCHANGED cvars PROVE UNCHANGED <<cut, task>>
  BY <1>7 DEF Leaves, Close, Pop, Restarts, Start, cvars, vars
<1>8. ASSUME NEW h \in Hosted, Broadcast(h) PROVE UNCHANGED <<cut, task>>
  BY <1>8 DEF Broadcast, HostBroadcast
<1>9. CASE Talks
  <2>1. task' = task /\ (cut' = cut \/ \E d \in Conns : cut' = cut \cup {<<d, "receive">>})
    BY <1>3, <1>9 DEF Talks, vars
  <2> QED BY <1>1, <2>1 DEF UncutAndInPlace, Dropped
<1>10. CASE Dies
  <2>1. cut' = cut /\ task'[c] # "garbled"
    BY <1>10 DEF Dies, Crash
  <2> QED BY <1>1, <2>1 DEF UncutAndInPlace, Dropped
<1>11. CASE Joins
  <2>1. CASE CheckRunning
    BY <1>1, <2>1 DEF CheckRunning, UncutAndInPlace, Dropped
  <2>2. CASE Accept
    BY <1>1, <2>2 DEF Accept, Spawn, UncutAndInPlace, Dropped, Typing
  <2> QED BY <1>11, <2>1, <2>2 DEF Joins, Accepting
<1> QED BY <1>2, <1>4, <1>5, <1>6, <1>7, <1>8, <1>9, <1>10, <1>11, AbiSteps

-----------------------------------------------------------------------------
(* What is written.                                                        *)

\* A write moves the end of a line, or its beginning.
LEMMA WriteMoves ==
  ASSUME LinkInv, NEW c \in Conns, Write(c)
  PROVE  /\ UNCHANGED <<task, client, served, cut, out, pos, crashed>>
         /\ \A d \in Conns \ {c} : wr'[d] = wr[d] /\ up'[d] = up[d]
         /\ wr[c] # <<>> /\ client[c] \notin {"none", "closed"}
         /\ \/ Len(wr[c]) = 1 /\ Len(wr'[c]) = 0 /\ sent' = sent
            \/ /\ Len(wr[c]) = 2 /\ Len(wr'[c]) \in {0, 1}
               /\ wr[c][2].end /\ wr[c][2].item[2] = wr[c][1].item[2]
               /\ wr[c][1].item[2] \in Messages
               /\ sent' = [sent EXCEPT ![c] = Append(@, wr[c][1].item[2])]
<1>1. Typing /\ Shape(c)
  BY DEF LinkInv, Sound
<1>2. PICK n \in Fits(wr[c], up[c]) :
        /\ up' = [up EXCEPT ![c] = @ \o Taken(wr[c], n)]
        /\ wr' = [wr EXCEPT ![c] = Left(@, n)]
  BY DEF Write
<1>3. PICK w, l : w = wr[c] /\ l = Left(w, n)
  OBVIOUS
<1>4. w \in Seq(Sends) /\ n \in 1..Len(w) /\ n \in 0..Len(w)
  BY <1>1, <1>2, <1>3, FitsFacts, ConnTypes
<1>5. l \in Seq(Sends) /\ Len(l) = Len(w) - n
  <2>1. /\ Left(w, n) \in Seq(Sends) /\ Len(Left(w, n)) = Len(w) - n
    BY ONLY <1>4, SplitFacts
  <2> QED BY <1>3, <2>1
<1>6. /\ \A d \in Conns \ {c} : wr'[d] = wr[d] /\ up'[d] = up[d]
      /\ wr'[c] = l
  BY <1>1, <1>2, <1>3 DEF Typing
<1>7. w # <<>>
  BY <1>4
<1>8. client[c] \notin {"none", "closed"}
  BY <1>1, <1>3, <1>7 DEF Shape
<1>9. sent' = IF w[1].end THEN sent ELSE [sent EXCEPT ![c] = Append(@, w[1].item[2])]
  BY <1>3 DEF Write
<1>10. ASSUME NEW q \in Sends, q.end, w = <<q>>
       PROVE  Len(w) = 1 /\ Len(l) = 0 /\ sent' = sent
  <2>1. Len(w) = 1 /\ w[1] = q
    BY <1>10
  <2> QED BY <1>4, <1>5, <1>9, <1>10, <2>1
<1>11. ASSUME NEW m \in Messages, w = Line(<<"request", m>>)
       PROVE  /\ Len(w) = 2 /\ Len(l) \in {0, 1}
              /\ w[2].end /\ w[2].item[2] = w[1].item[2]
              /\ w[1].item[2] \in Messages
              /\ sent' = [sent EXCEPT ![c] = Append(@, w[1].item[2])]
  <2>1. /\ Len(w) = 2 /\ w[1] = [item |-> <<"request", m>>, end |-> FALSE]
        /\ w[2] = [item |-> <<"request", m>>, end |-> TRUE]
    BY <1>11, LineFacts
  <2>2. /\ ~w[1].end /\ w[1].item[2] = m /\ w[2].end /\ w[2].item[2] = m
    BY <2>1
  <2>3. Len(l) \in {0, 1}
    BY <1>4, <1>5, <2>1
  <2> QED BY <1>9, <2>1, <2>2, <2>3
<1>12. UNCHANGED <<task, client, served, cut, out, pos, crashed>>
  BY DEF Write
<1>13. \/ \E q \in Sends : q.end /\ w = <<q>>
       \/ \E m \in Messages : w = Line(<<"request", m>>)
  BY <1>1, <1>3, <1>7 DEF Shape
<1> QED BY <1>3, <1>6, <1>7, <1>8, <1>10, <1>11, <1>12, <1>13

LEMMA BeginFacts ==
  ASSUME LinkInv, NEW c \in Conns, NEW m \in Messages, Begin(c, m)
  PROVE  /\ client[c] = "none" /\ client' = [client EXCEPT ![c] = "open"]
         /\ wr[c] = <<>> /\ sent[c] = <<>>
         /\ wr' = [wr EXCEPT ![c] = Line(<<"request", m>>)]
         /\ client'[c] = "open" /\ Len(wr'[c]) = 2 /\ wr'[c][1].item[2] = m
         /\ \A d \in Conns \ {c} : wr'[d] = wr[d] /\ client'[d] = client[d]
         /\ ~IsSent(m)
         /\ \A d \in Conns : \A i \in DOMAIN wr[d] : wr[d][i].item[2] # m
         /\ UNCHANGED <<serving, streams, history, loop, running, log>>
<1>1. /\ client[c] = "none" /\ client' = [client EXCEPT ![c] = "open"]
      /\ wr' = [wr EXCEPT ![c] = Line(<<"request", m>>)]
      /\ UNCHANGED <<serving, streams, history, loop, running, log>>
  BY DEF Begin, ConnectToSend
<1>2. wr[c] = <<>> /\ sent[c] = <<>>
  BY <1>1 DEF LinkInv, Sound, Shape, Untouched
<1>3. /\ client'[c] = "open" /\ wr'[c] = Line(<<"request", m>>)
      /\ \A d \in Conns \ {c} : wr'[d] = wr[d] /\ client'[d] = client[d]
  BY <1>1 DEF LinkInv, Typing
<1>4. Len(wr'[c]) = 2 /\ wr'[c][1].item[2] = m
  <2>1. wr'[c][1] = [item |-> <<"request", m>>, end |-> FALSE]
    BY <1>3, LineFacts
  <2>2. wr'[c][1].item[2] = m
    BY <2>1
  <2> QED BY <1>3, <2>2, LineFacts
<1>5. /\ ~IsSent(m)
      /\ \A d \in Conns : \A i \in DOMAIN wr[d] : wr[d][i].item[2] # m
  BY DEF Begin, WasSent, IsSent
<1> QED BY <1>1, <1>2, <1>3, <1>4, <1>5

\* A step that neither writes nor gives up a write leaves the lines alone.
LEMMA LinesKept ==
  ASSUME Base,
         \/ \E c \in Conns : Hearing(c) \/ Push(c)
         \/ \E h \in Hosted : Broadcast(h)
         \/ Pop \/ Joins \/ Dies \/ Restarts \/ UNCHANGED vars
  PROVE  UNCHANGED <<sent, wr>>
<1>1. ASSUME NEW c \in Conns, Connect(c) PROVE UNCHANGED <<sent, wr>>
  <2>1. client[c] = "none" /\ wr' = [wr EXCEPT ![c] = <<>>] /\ sent' = sent
    BY <1>1 DEF Connect, ConnectToSend
  <2>2. wr[c] = <<>> /\ wr \in [Conns -> Seq(Sends)]
    BY <2>1 DEF Base, LinkInv, Sound, Shape, Typing
  <2> QED BY <2>1, <2>2
<1>2. ASSUME NEW c \in Conns, ReceivePart(c) \/ Receive(c) \/ DropReceive(c)
      PROVE  UNCHANGED <<sent, wr>>
  BY <1>2 DEF ReceivePart, Receive, ReceiveLine, DropReceive
<1>3. ASSUME NEW c \in Conns, Push(c) PROVE UNCHANGED <<sent, wr>>
  BY <1>3 DEF Push, PushUnless, Serve, HandleRequest, Handle,
              WithoutRequest, ReadPart, ReadGarbage, ReadGarbled, ReadEnd, EndTask,
              TakeBroadcast, Deliver, Lag, LagTo, DropRead, Respond, RespondFails
<1>4. ASSUME Pop \/ Joins \/ Dies \/ Restarts \/ UNCHANGED vars PROVE UNCHANGED <<sent, wr>>
  BY <1>4 DEF Pop, Joins, Accepting, CheckRunning, Accept, Spawn,
              Dies, Crash, Restarts, Start, vars
<1>5. ASSUME NEW h \in Hosted, Broadcast(h) PROVE UNCHANGED <<sent, wr>>
  BY <1>5 DEF Broadcast, HostBroadcast
<1> QED BY <1>1, <1>2, <1>3, <1>4, <1>5 DEF Hearing

\* What every step does to what clients have sent and are writing.
LEMMA AbiWrites ==
  ASSUME Base, AbiTyping, [CNext]_cvars
  PROVE  \/ UNCHANGED <<sent, wr>>
         \/ \E c \in Conns : sent' = sent /\ wr' = [wr EXCEPT ![c] = <<>>]
         \/ \E c \in Conns, m \in Messages : Begin(c, m)
         \/ \E c \in Conns : Write(c)
<1>1. ASSUME NEW c \in Conns, Close(c) \/ WriteFails(c)
      PROVE  sent' = sent /\ wr' = [wr EXCEPT ![c] = <<>>]
  BY <1>1 DEF Close, WriteFails
<1>2. ASSUME NEW k \in Handles, NEW m \in Messages, CallSend(k, m)
      PROVE  \E c \in Conns : Begin(c, m)
  BY <1>2 DEF CallSend, Begin
<1>3. ASSUME NEW k \in Handles, SendGoes(k) \/ SendReturns(k)
      PROVE  \E c \in Conns : Write(c) \/ WriteFails(c) \/ Close(c)
  <2>1. call[k].conn \in Conns
    BY <1>3, CallTypes DEF SendGoes, SendReturns, Goes
  <2> QED BY <1>3, <2>1 DEF SendGoes, SendReturns
<1>4. CASE Leaves
  BY <1>1, <1>4 DEF Leaves
<1>5. CASE \/ Talks \/ \E c \in Conns : Push(c)
           \/ \E h \in Hosted : Broadcast(h)
           \/ Pop \/ Joins \/ Dies \/ Restarts \/ UNCHANGED cvars
  BY <1>5, LinesKept DEF Talks, cvars
<1> QED BY <1>1, <1>2, <1>3, <1>4, <1>5, AbiSteps

LEMMA SentOnceStep == Base /\ AbiTyping /\ SentOnce /\ [CNext]_cvars => SentOnce'
<1> SUFFICES ASSUME Base, AbiTyping, SentOnce, [CNext]_cvars PROVE SentOnce'
  OBVIOUS
<1>0. /\ LinkInv /\ Typing /\ Unique
      /\ \A d, e \in Conns : \A i \in DOMAIN sent[d], j \in DOMAIN sent[e] :
           sent[d][i] = sent[e][j] => d = e /\ i = j
      /\ \A d \in Conns : Len(wr[d]) = 2 => ~IsSent(wr[d][1].item[2])
  BY DEF SentOnce, Base, LinkInv
<1>1. CASE UNCHANGED <<sent, wr>>
  BY <1>1 DEF SentOnce, IsSent
<1>2. ASSUME NEW c \in Conns, sent' = sent, wr' = [wr EXCEPT ![c] = <<>>] PROVE SentOnce'
  <2>1. wr'[c] = <<>> /\ \A d \in Conns \ {c} : wr'[d] = wr[d]
    BY <1>0, <1>2 DEF Typing
  <2>2. Len(<<>>) # 2
    OBVIOUS
  <2>3. \A d \in Conns : Len(wr'[d]) = 2 => wr'[d] = wr[d]
    BY <2>1, <2>2
  <2> QED BY <1>0, <1>2, <2>3 DEF SentOnce, IsSent
<1>3. ASSUME NEW c \in Conns, NEW m \in Messages, Begin(c, m) PROVE SentOnce'
  <2>1. /\ sent' = sent /\ wr'[c][1].item[2] = m /\ ~IsSent(m)
        /\ \A d \in Conns \ {c} : wr'[d] = wr[d]
    BY <1>0, <1>3, BeginFacts
  <2> QED BY <1>0, <2>1 DEF SentOnce, IsSent
<1>4. ASSUME NEW c \in Conns, Write(c) PROVE SentOnce'
  <2>1. CASE Len(wr[c]) = 1 /\ Len(wr'[c]) = 0 /\ sent' = sent
    <3>1. \A d \in Conns : Len(wr'[d]) = 2 => wr'[d] = wr[d]
      BY <1>0, <1>4, <2>1, WriteMoves
    <3> QED BY <1>0, <2>1, <3>1 DEF SentOnce, IsSent
  <2>2. CASE ~(Len(wr[c]) = 1 /\ Len(wr'[c]) = 0 /\ sent' = sent)
    <3>1. PICK m : m = wr[c][1].item[2]
      OBVIOUS
    <3>2. /\ Len(wr[c]) = 2 /\ Len(wr'[c]) \in {0, 1} /\ m \in Messages
          /\ wr[c][2].end /\ wr[c][2].item[2] = m
          /\ sent' = [sent EXCEPT ![c] = Append(@, m)]
          /\ \A d \in Conns \ {c} : wr'[d] = wr[d]
      BY <1>0, <1>4, <2>2, <3>1, WriteMoves
    <3>3. ~IsSent(m)
      BY <1>0, <3>1, <3>2
    <3>4. PICK s : s = sent[c] /\ s \in Seq(Messages)
      BY <1>0, ConnTypes
    <3>5. PICK n : n = Len(s) /\ n \in Nat
      BY <3>4
    <3>6. /\ Append(s, m) \in Seq(Messages) /\ DOMAIN Append(s, m) = 1..(n + 1)
          /\ Append(s, m)[n + 1] = m /\ \A i \in 1..n : Append(s, m)[i] = s[i]
          /\ DOMAIN s = 1..n
      BY <3>2, <3>4, <3>5
    <3>7. /\ sent'[c] = Append(s, m)
          /\ \A d \in Conns \ {c} : sent'[d] = sent[d]
      BY <1>0, <3>2, <3>4 DEF Typing
    <3>8. ASSUME NEW d \in Conns, NEW i \in DOMAIN sent'[d]
          PROVE  \/ d = c /\ i = n + 1 /\ sent'[d][i] = m
                 \/ i \in DOMAIN sent[d] /\ sent'[d][i] = sent[d][i] /\ sent[d][i] # m
      <4>1. CASE d # c
        BY <3>3, <3>7, <4>1 DEF IsSent
      <4>2. CASE d = c
        <5>1. i \in 1..n \/ i = n + 1
          BY <3>5, <3>6, <3>7, <4>2
        <5>2. CASE i \in 1..n
          BY <3>3, <3>4, <3>6, <3>7, <4>2, <5>2 DEF IsSent
        <5>3. CASE i = n + 1
          BY <3>6, <3>7, <4>2, <5>3
        <5> QED BY <5>1, <5>2, <5>3
      <4> QED BY <4>1, <4>2
    <3>9. ASSUME NEW d \in Conns, NEW e \in Conns, NEW i \in DOMAIN sent'[d],
                 NEW j \in DOMAIN sent'[e], sent'[d][i] = sent'[e][j]
          PROVE  d = e /\ i = j
      <4>1. CASE /\ d = c /\ i = n + 1 /\ sent'[d][i] = m
                 /\ e = c /\ j = n + 1
        BY <4>1
      <4>2. CASE /\ i \in DOMAIN sent[d] /\ sent'[d][i] = sent[d][i]
                 /\ j \in DOMAIN sent[e] /\ sent'[e][j] = sent[e][j]
        <5>1. sent[d][i] = sent[e][j]
          BY <3>9, <4>2
        <5> QED BY <1>0, <4>2, <5>1
      <4>3. CASE /\ i \in DOMAIN sent[d] /\ sent'[d][i] # m
                 /\ e = c /\ j = n + 1 /\ sent'[e][j] = m
        BY <3>9, <4>3
      <4>4. CASE /\ j \in DOMAIN sent[e] /\ sent'[e][j] # m
                 /\ d = c /\ i = n + 1 /\ sent'[d][i] = m
        BY <3>9, <4>4
      <4>5. \/ d = c /\ i = n + 1 /\ sent'[d][i] = m
            \/ i \in DOMAIN sent[d] /\ sent'[d][i] = sent[d][i] /\ sent'[d][i] # m
        BY <3>8
      <4>6. \/ e = c /\ j = n + 1 /\ sent'[e][j] = m
            \/ j \in DOMAIN sent[e] /\ sent'[e][j] = sent[e][j] /\ sent'[e][j] # m
        BY <3>8
      <4> QED BY <4>1, <4>2, <4>3, <4>4, <4>5, <4>6
    <3>10. ASSUME NEW d \in Conns, Len(wr'[d]) = 2
           PROVE  \A x : x = wr'[d][1].item[2] => ~IsSent(x)'
      <4>1. d # c /\ wr'[d] = wr[d] /\ Len(wr[d]) = 2
        BY <3>2, <3>10
      <4>2. PICK w, v : w = wr[d] /\ v = wr[c]
        OBVIOUS
      <4>3. w[1].item[2] # m
        <5>1. PICK x, y : x = Len(up[d]) + 2 /\ y = Len(up[c]) + 2
          OBVIOUS
        <5>2. Shape(d)
          BY <1>0 DEF LinkInv, Sound
        <5>3. w[2].end /\ w[2].item[2] = w[1].item[2]
          <6>1. w = <<>> \/ (\E q \in Sends : w = <<q>>) \/ \E z \in Messages : w = Line(<<"request", z>>)
            BY <4>2, <5>2 DEF Shape
          <6>2. Len(w) = 2
            BY <4>1, <4>2
          <6>a. w # <<>> /\ \A q : w # <<q>>
            BY ONLY <6>2
          <6>b. PICK z \in Messages : w = Line(<<"request", z>>)
            BY <6>1, <6>a
          <6>3. w[1] = [item |-> <<"request", z>>, end |-> FALSE] /\ w[2] = [item |-> <<"request", z>>, end |-> TRUE]
            BY <6>b, LineFacts
          <6> QED BY <6>3
        <5>4. /\ x \in DOMAIN Pending(d) /\ Pending(d)[x] = w[2]
          <6>1. 2 \in 1..Len(wr[d]) /\ Len(up[d]) \in Nat /\ Len(wr[d]) = 2
            BY <1>0, <4>1, PendingTypes
          <6>2. Pending(d) \in Seq(Sends) /\ Len(Pending(d)) = Len(up[d]) + Len(wr[d])
            BY <1>0, PendingTypes
          <6>3. Pending(d)[Len(up[d]) + 2] = wr[d][2]
            BY <1>0, <6>1, PendingTypes
          <6> QED BY <4>2, <5>1, <6>1, <6>2, <6>3
        <5>5. /\ y \in DOMAIN Pending(c) /\ Pending(c)[y] = v[2]
          <6>1. 2 \in 1..Len(wr[c]) /\ Len(up[c]) \in Nat /\ Len(wr[c]) = 2
            BY <1>0, <3>2, PendingTypes
          <6>2. Pending(c) \in Seq(Sends) /\ Len(Pending(c)) = Len(up[c]) + Len(wr[c])
            BY <1>0, PendingTypes
          <6>3. Pending(c)[Len(up[c]) + 2] = wr[c][2]
            BY <1>0, <6>1, PendingTypes
          <6> QED BY <4>2, <5>1, <6>1, <6>2, <6>3
        <5>6. PendingOnce
          BY <1>0, UniqueParts
        <5> QED BY <3>2, <4>1, <4>2, <5>3, <5>4, <5>5, <5>6 DEF PendingOnce
      <4>4. ~IsSent(w[1].item[2])
        BY <1>0, <4>1, <4>2
      <4>5. ASSUME NEW x, x # m, ~IsSent(x) PROVE ~IsSent(x)'
        BY <3>8, <4>5 DEF IsSent
      <4> QED BY <4>1, <4>2, <4>3, <4>4, <4>5
    <3> QED BY <3>9, <3>10 DEF SentOnce, IsSent
  <2> QED BY <2>1, <2>2
<1> QED BY <1>1, <1>2, <1>3, <1>4, AbiWrites

-----------------------------------------------------------------------------
(* Who sends over which connection.                                        *)

LEMMA OtherSenders ==
  ASSUME AbiTyping, Other
  PROVE  \A l \in Handles : IsSending(l)' => IsSending(l) /\ call'[l] = call[l]
<1>1. PICK k \in Handles, x \in OtherCalls : call' = [call EXCEPT ![k] = x]
  BY DEF Other
<1>2. x.op \notin {"send", "failed"}
  <2>1. x = Idle \/ x.op \in {"receive", "ping"}
    BY DEF OtherCalls
  <2> QED BY <2>1, IdleFacts
<1>3. call'[k] = x /\ \A l \in Handles \ {k} : call'[l] = call[l]
  BY <1>1 DEF AbiTyping
<1> QED BY <1>2, <1>3 DEF IsSending

\* What the steps that do not write do to the client's end of a connection.
LEMMA ClientLasts ==
  ASSUME Base, NEW c \in Conns,
         \/ \E d \in Conns : Hearing(d) \/ Close(d)
         \/ UNCHANGED client
  PROVE  /\ client[c] # "none" => client'[c] # "none"
         /\ client[c] = "closed" => client'[c] = "closed"
<1>1. client \in [Conns -> {"none", "open", "garbled", "closed"}]
  BY DEF Base, LinkInv, Typing
<1>2. ASSUME NEW d \in Conns, Hearing(d) \/ Close(d)
      PROVE  \/ client' = client
             \/ \E x \in {"open", "garbled", "closed"} :
                  client[d] # "closed" /\ client' = [client EXCEPT ![d] = x]
  <2>1. CASE Connect(d)
    BY <2>1 DEF Connect, ConnectToSend
  <2>2. CASE ReceivePart(d) \/ DropReceive(d)
    BY <2>2 DEF ReceivePart, DropReceive
  <2>3. CASE Receive(d)
    <3>1. /\ client[d] = "open"
          /\ \/ client' = client
             \/ \E x \in {"open", "garbled"} : client' = [client EXCEPT ![d] = x]
      BY <2>3 DEF Receive, ReceiveLine
    <3> QED BY <3>1
  <2>4. CASE Close(d)
    BY <2>4 DEF Close
  <2> QED BY <1>2, <2>1, <2>2, <2>3, <2>4 DEF Hearing
<1>3. ASSUME NEW d \in Conns, NEW x \in {"open", "garbled", "closed"},
             client[d] # "closed", client' = [client EXCEPT ![d] = x]
      PROVE  /\ client[c] # "none" => client'[c] # "none"
             /\ client[c] = "closed" => client'[c] = "closed"
  BY <1>1, <1>3
<1> QED BY <1>2, <1>3

LEMMA ServerClient ==
  ASSUME \/ \E c \in Conns : Push(c)
         \/ \E h \in Hosted : Broadcast(h)
         \/ Pop \/ Joins \/ Dies \/ Restarts \/ UNCHANGED cvars
  PROVE  UNCHANGED <<client, call, done>>
<1>1. ASSUME NEW c \in Conns, Push(c) PROVE UNCHANGED <<client, call, done>>
  BY <1>1 DEF Push, PushUnless, Serve, HandleRequest, Handle,
              WithoutRequest, ReadPart, ReadGarbage, ReadGarbled, ReadEnd, EndTask,
              TakeBroadcast, Deliver, Lag, LagTo, DropRead, Respond, RespondFails
<1>2. CASE Pop \/ Joins \/ Dies \/ Restarts \/ UNCHANGED cvars
  BY <1>2 DEF Pop, Joins, Accepting, CheckRunning, Accept, Spawn,
              Dies, Crash, Restarts, Start, cvars, vars, abi
<1>3. ASSUME NEW h \in Hosted, Broadcast(h) PROVE UNCHANGED <<client, call, done>>
  BY <1>3 DEF Broadcast, HostBroadcast, abi
<1> QED BY <1>1, <1>2, <1>3

LEMMA SenderStep ==
  ASSUME Base, AbiTyping, \A k \in Handles : Sender(k), [CNext]_cvars, NEW k \in Handles
  PROVE  Sender(k)'
<1> SUFFICES ASSUME IsSending(k)' PROVE Sender(k)'
  BY DEF Sender
<1>0. Sender(k) /\ LinkInv /\ (IsSending(k) => call[k].conn \in Conns)
  BY CallTypes DEF IsSending, Base
<1>1. CASE \/ \E c \in Conns : Push(c)
           \/ \E h \in Hosted : Broadcast(h)
           \/ Pop \/ Joins \/ Dies \/ Restarts \/ UNCHANGED cvars
  <2>1. UNCHANGED <<client, call, sent, wr>>
    BY <1>1, LinesKept, ServerClient DEF cvars
  <2> QED BY <1>0, <2>1 DEF Sender, IsSending, OneLine
<1>2. CASE Talks \/ Leaves
  <2>1. \A l \in Handles : IsSending(l)' => IsSending(l) /\ call'[l] = call[l]
    BY <1>2, OtherSenders DEF Talks, Leaves
  <2>2. PICK c : c = call[k].conn
    OBVIOUS
  <2>3. IsSending(k) /\ call'[k] = call[k] /\ c \in Conns /\ client[c] # "none"
    BY <1>0, <2>1, <2>2 DEF Sender
  <2>4. client'[c] # "none" /\ (client'[c] # "closed" => client[c] # "closed")
    BY <1>2, <2>3, ClientLasts DEF Talks, Leaves, vars
  <2>5. client'[c] # "closed" => UNCHANGED <<sent[c], wr[c]>>
    <3>1. CASE Talks
      BY <3>1, LinesKept DEF Talks
    <3>2. CASE Leaves
      <4>1. PICK d \in Conns : Close(d)
        BY <3>2 DEF Leaves
      <4>2. /\ client' = [client EXCEPT ![d] = "closed"]
            /\ wr' = [wr EXCEPT ![d] = <<>>] /\ sent' = sent
        BY <4>1 DEF Close
      <4> QED BY <1>0, <2>3, <4>2 DEF LinkInv, Typing
    <3> QED BY <1>2, <3>1, <3>2
  <2>6. client'[c] # "closed" => (OneLine(c) => OneLine(c)')
    BY <2>5 DEF OneLine
  <2> QED BY <1>0, <2>1, <2>2, <2>3, <2>4, <2>6 DEF Sender, IsSending, OneLine
<1>3. ASSUME NEW l \in Handles, NEW m \in Messages, CallSend(l, m) PROVE Sender(k)'
  <2>1. PICK c \in Conns : /\ call[l] = Idle /\ Begin(c, m)
                           /\ call' = [call EXCEPT ![l] = [op |-> "send", conn |-> c]]
    BY <1>3 DEF CallSend, Begins, Begin
  <2>2. /\ client[c] = "none" /\ sent[c] = <<>> /\ sent' = sent
        /\ client'[c] = "open" /\ Len(wr'[c]) = 2
        /\ \A d \in Conns \ {c} : wr'[d] = wr[d] /\ client'[d] = client[d]
    BY <1>0, <2>1, BeginFacts
  <2>3. /\ call'[l] = [op |-> "send", conn |-> c]
        /\ \A j \in Handles \ {l} : call'[j] = call[j]
    BY <2>1 DEF AbiTyping
  <2>4. call'[l].op = "send" /\ call'[l].conn = c
    BY <2>3
  <2>5. \A j \in Handles : IsSending(j) => call[j].conn # c /\ call[j].conn \in Conns
    BY <2>2, CallTypes DEF Sender, IsSending
  <2>6. OneLine(c)'
    <3>1. Len(<<>>) = 0
      OBVIOUS
    <3> QED BY <2>2, <3>1 DEF OneLine
  <2>7. \A j \in Handles : IsSending(j)' => j = l \/ (IsSending(j) /\ call'[j] = call[j])
    BY <2>3 DEF IsSending
  <2>8. CASE k = l
    <3>1. \A j \in Handles : IsSending(j)' /\ call'[j].conn = c => j = l
      BY <2>5, <2>7
    <3> QED BY <2>2, <2>4, <2>6, <2>8, <3>1 DEF Sender, OneLine
  <2>9. CASE k # l
    <3>1. PICK d : d = call[k].conn
      OBVIOUS
    <3>2. /\ call'[k] = call[k] /\ IsSending(k) /\ d # c /\ d \in Conns
          /\ wr'[d] = wr[d] /\ client'[d] = client[d]
      BY <2>2, <2>5, <2>7, <2>9, <3>1
    <3>3. \A j \in Handles : IsSending(j)' /\ call'[j].conn = d => j = k
      BY <1>0, <2>4, <2>7, <3>1, <3>2 DEF Sender
    <3>4. OneLine(d) => OneLine(d)'
      BY <2>2, <3>2 DEF OneLine
    <3> QED BY <1>0, <3>1, <3>2, <3>3, <3>4 DEF Sender, OneLine
  <2> QED BY <2>8, <2>9
<1>4. ASSUME NEW l \in Handles, SendGoes(l), Write(call[l].conn), UNCHANGED call PROVE Sender(k)'
  <2>1. PICK c, d : c = call[l].conn /\ d = call[k].conn
    OBVIOUS
  <2>2. IsSending(l) /\ call[l].op = "send" /\ c \in Conns /\ IsSending(k) /\ d \in Conns
    BY <1>0, <1>4, <2>1, CallTypes DEF SendGoes, Goes, IsSending
  <2>3. /\ client' = client /\ (\A e \in Conns \ {c} : wr'[e] = wr[e])
        /\ client[c] # "closed"
        /\ \/ Len(wr[c]) = 1 /\ Len(wr'[c]) = 0 /\ sent' = sent
           \/ /\ Len(wr[c]) = 2 /\ Len(wr'[c]) \in {0, 1} /\ wr[c][1].item[2] \in Messages
              /\ sent' = [sent EXCEPT ![c] = Append(@, wr[c][1].item[2])]
    BY <1>0, <1>4, <2>1, <2>2, WriteMoves
  <2>4. \A e \in Conns \ {c} : sent'[e] = sent[e]
    BY <1>0, <2>3 DEF LinkInv, Typing
  <2>5. OneLine(c) => OneLine(c)'
    <3>1. CASE Len(wr[c]) = 1 /\ Len(wr'[c]) = 0 /\ sent' = sent
      BY <3>1 DEF OneLine
    <3>2. ASSUME NEW m \in Messages, Len(wr[c]) = 2, Len(wr'[c]) \in {0, 1},
                 sent' = [sent EXCEPT ![c] = Append(@, m)], OneLine(c)
          PROVE  OneLine(c)'
      <4>1. PICK s : s = sent[c] /\ s \in Seq(Messages) /\ Len(s) = 0
        BY <1>0, <2>2, <3>2, ConnTypes DEF LinkInv, OneLine
      <4>2. Len(Append(s, m)) = 1
        BY <4>1
      <4>3. sent'[c] = Append(s, m)
        BY <1>0, <2>2, <3>2, <4>1 DEF LinkInv, Typing
      <4> QED BY <3>2, <4>2, <4>3 DEF OneLine
    <3> QED BY <2>3, <3>1, <3>2
  <2>6. OneLine(d) => OneLine(d)'
    BY <2>2, <2>3, <2>4, <2>5 DEF OneLine
  <2> QED BY <1>0, <1>4, <2>1, <2>2, <2>3, <2>6 DEF Sender, IsSending, OneLine
<1>5. ASSUME NEW l \in Handles, SendGoes(l), WriteFails(call[l].conn),
             call' = [call EXCEPT ![l].op = "failed"]
      PROVE  Sender(k)'
  <2>1. PICK c, d : c = call[l].conn /\ d = call[k].conn
    OBVIOUS
  <2>2. IsSending(l) /\ c \in Conns
    BY <1>0, <1>5, <2>1, CallTypes DEF SendGoes, Goes, IsSending
  <2>3. /\ call'[l] = [call[l] EXCEPT !.op = "failed"]
        /\ \A j \in Handles \ {l} : call'[j] = call[j]
    BY <1>5 DEF AbiTyping
  <2>4. call'[l].op = "failed" /\ call'[l].conn = c
    <3>1. call[l] \in SendCalls
      BY <2>2, CallTypes DEF IsSending
    <3>2. \A x \in SendCalls : [x EXCEPT !.op = "failed"].op = "failed" /\ [x EXCEPT !.op = "failed"].conn = x.conn
      BY DEF SendCalls
    <3> QED BY <2>1, <2>3, <3>1, <3>2
  <2>5. \A j \in Handles : IsSending(j)' => IsSending(j) /\ call'[j].conn = call[j].conn
    BY <2>1, <2>2, <2>3, <2>4 DEF IsSending
  <2>6. IsSending(k) /\ d \in Conns /\ client' = client /\ sent' = sent /\ wr' = [wr EXCEPT ![c] = <<>>]
    BY <1>0, <1>5, <2>1, <2>5 DEF WriteFails
  <2>7. CASE k = l
    BY <1>0, <2>1, <2>2, <2>4, <2>5, <2>6, <2>7 DEF Sender
  <2>8. CASE k # l
    <3>1. c # d /\ call'[k] = call[k]
      BY <1>0, <2>1, <2>2, <2>3, <2>6, <2>8 DEF Sender
    <3>2. wr'[d] = wr[d]
      BY <1>0, <2>6, <3>1 DEF LinkInv, Typing
    <3> QED BY <1>0, <2>1, <2>5, <2>6, <3>1, <3>2 DEF Sender, OneLine
  <2> QED BY <2>7, <2>8
<1>6. ASSUME NEW l \in Handles, SendReturns(l) PROVE Sender(k)'
  <2>1. PICK c, d : c = call[l].conn /\ d = call[k].conn
    OBVIOUS
  <2>2. IsSending(l) /\ c \in Conns /\ Close(c) /\ call' = [call EXCEPT ![l] = Idle]
    BY <1>6, <2>1, CallTypes DEF SendReturns, Returns, IsSending
  <2>3. call'[l] = Idle /\ \A j \in Handles \ {l} : call'[j] = call[j]
    BY <2>2 DEF AbiTyping
  <2>4. \A j \in Handles : IsSending(j)' => j # l /\ IsSending(j) /\ call'[j] = call[j]
    BY <2>3, IdleFacts DEF IsSending
  <2>5. k # l /\ IsSending(k) /\ d \in Conns /\ c # d /\ call'[k] = call[k]
    BY <1>0, <2>1, <2>2, <2>4 DEF Sender
  <2>6. /\ client' = [client EXCEPT ![c] = "closed"] /\ wr' = [wr EXCEPT ![c] = <<>>]
        /\ sent' = sent
    BY <2>2 DEF Close
  <2>7. client'[d] = client[d] /\ wr'[d] = wr[d]
    BY <1>0, <2>5, <2>6 DEF LinkInv, Typing
  <2> QED BY <1>0, <2>1, <2>4, <2>5, <2>6, <2>7 DEF Sender, OneLine
<1>7. ASSUME NEW l \in Handles, SendGoes(l) PROVE Sender(k)'
  BY <1>4, <1>5, <1>7 DEF SendGoes
<1> QED BY <1>1, <1>2, <1>3, <1>6, <1>7, AbiSteps

-----------------------------------------------------------------------------
(* What a send that returned 0 has written.                                *)

\* A task leaves the end of what it has read where it is, or drops a read.
LEMMA PushComing ==
  ASSUME Base, NEW c \in Conns, UncutAndInPlace(c), NEW d \in Conns, Push(d),
         Unserved(c) /\ ~Dropped(c, "read") => LastEnds(Coming(c)),
         Unserved(c)', ~Dropped(c, "read")'
  PROVE  LastEnds(Coming(c))'
<1>0. LinkInv /\ Typing /\ Serve(d)
  BY DEF Base, LinkInv, Push, PushUnless
<1>1. CASE c # d
  <2>1. Alone(d)
    BY <1>0, HandleSound, ReadPartSound, GarbageSound, EndSound, DropReadSound, RespondSound
    DEF Serve, WithoutRequest
  <2>2. Still(c)
    BY <1>1, <2>1 DEF Alone
  <2>3. (Coming(c))' = Coming(c) /\ (Unserved(c)' <=> Unserved(c)) /\ (Dropped(c, "read")' <=> Dropped(c, "read"))
    BY <2>2 DEF Still, Coming, Unserved, Dropped
  <2> QED BY <2>3 DEF LastEnds
<1>2. ASSUME c = d, HandleRequest(c) PROVE LastEnds(Coming(c))'
  <2>1. PICK k \in DOMAIN up[c] : LineRead(c, k) /\ IsWhole(c, k) /\ Handle(c, k, Answer(c, k))
    BY <1>2 DEF HandleRequest
  <2>2. PICK t, h, r : /\ t = Coming(c) /\ h = inpart[c] \o Taken(up[c], k)
                       /\ r = Left(up[c], k)
    OBVIOUS
  <2>3. ReadsTo(t, h, r, up[c][k])
    BY <1>0, <2>1, <2>2, AtLineEnd
  <2>4. h = Line(up[c][k].item)
    BY <2>1, <2>2 DEF IsWhole
  <2>5. PICK m \in Messages : LineThen(t, m, r)
    BY <2>3, <2>4, WholeFacts
  <2>6. t \in Seq(Sends) /\ r \in Seq(Sends)
    BY <2>3 DEF ReadsTo
  <2>7. t # <<>> /\ (r # <<>> => r[Len(r)] = t[Len(t)])
    BY <2>5, <2>6, RestFacts
  <2>8. task[c] = "open" /\ UNCHANGED <<task, cut>> /\ up' = [up EXCEPT ![c] = r]
        /\ inpart' = [inpart EXCEPT ![c] = <<>>]
    BY <2>1, <2>2 DEF LineRead, Handle
  <2>9. LastEnds(t)
    BY <2>2, <2>8 DEF Unserved, Dropped
  <2>10. (Coming(c))' = r
    <3>1. up'[c] = r /\ inpart'[c] = <<>>
      BY <1>0, <2>8 DEF Typing
    <3> QED BY <2>6, <3>1, NothingBefore DEF Coming
  <2>11. LastEnds(r)
    BY <2>7, <2>9 DEF LastEnds
  <2> QED BY <2>10, <2>11 DEF LastEnds
<1>3. ASSUME c = d, WithoutRequest(c) PROVE LastEnds(Coming(c))'
  <2>1. task[c] \in {"open", "garbled"} /\ inpart[c] \in Seq(Sends) /\ up[c] \in Seq(Sends)
    <3>1. Running(c)
      BY <1>3 DEF WithoutRequest, ReadPart, ReadGarbage, LineRead, ReadGarbled, ReadEnd,
                  TakeBroadcast, CanTake, Lag, LagTo, Respond, RespondFails, Selecting
    <3> QED BY <1>0, <3>1, ConnTypes DEF Running
  <2>2. CASE ReadPart(c)
    <3>1. inpart'[c] = inpart[c] \o up[c] /\ up'[c] = <<>> /\ UNCHANGED <<task, cut>>
      BY <1>0, <2>2 DEF ReadPart, Typing
    <3>2. (inpart[c] \o up[c]) \o <<>> = inpart[c] \o up[c]
      BY <2>1
    <3>3. (Coming(c))' = Coming(c)
      BY <3>1, <3>2 DEF Coming
    <3> QED BY <3>1, <3>3 DEF LastEnds, Unserved, Dropped
  <2>3. ASSUME ReadGarbage(c) \/ ReadGarbled(c) \/ ReadEnd(c) PROVE FALSE
    <3>1. task'[c] \in {"ended", "garbled"}
      BY <1>0, <2>3, SMTT(20) DEF ReadGarbage, ReadGarbled, ReadEnd, EndTask, Typing
    <3> QED BY <3>1 DEF Unserved
  <2>4. CASE TakeBroadcast(c) \/ Lag(c)
    <3>1. /\ UNCHANGED up /\ inpart' = [inpart EXCEPT ![c] = <<>>]
          /\ cut' = cut \cup Lost(c)
      BY <2>4 DEF TakeBroadcast, Deliver, Lag, LagTo, DropRead
    <3>2. inpart[c] = <<>> /\ ~Dropped(c, "read")
      BY <3>1 DEF Dropped, Lost
    <3>3. inpart'[c] = inpart[c]
      BY <1>0, <3>1, <3>2 DEF Typing
    <3>4. Unserved(c)
      BY <2>1 DEF UncutAndInPlace, Unserved
    <3>5. LastEnds(Coming(c))
      BY <3>2, <3>4
    <3> QED BY <3>1, <3>3, <3>5 DEF LastEnds, Coming
  <2>5. CASE Respond(c)
    BY <2>5 DEF Respond, LastEnds, Unserved, Dropped, Coming
  <2>6. CASE RespondFails(c)
    <3>1. /\ UNCHANGED <<inpart, up, cut>>
          /\ task'[c] = "ended" \/ task'[c] = task[c]
      BY <1>0, <2>6 DEF RespondFails, Typing
    <3> QED BY <3>1 DEF LastEnds, Unserved, Dropped, Coming
  <2> QED BY <1>3, <2>2, <2>3, <2>4, <2>5, <2>6 DEF WithoutRequest
<1> QED BY <1>0, <1>1, <1>2, <1>3 DEF Serve

\* What the client's steps do to what is on its way over another connection, or
\* over one that is closed.
LEMMA ClosedKept ==
  ASSUME Base, NEW c \in Conns, client[c] = "closed",
         \/ \E d \in Conns : Hearing(d) \/ Close(d) \/ Write(d) \/ WriteFails(d)
         \/ \E d \in Conns, m \in Messages : Begin(d, m)
         \/ UNCHANGED vars
  PROVE  /\ client'[c] = "closed" /\ sent'[c] = sent[c]
         /\ (Coming(c))' = Coming(c) /\ (Unserved(c)' <=> Unserved(c))
         /\ (Dropped(c, "read")' <=> Dropped(c, "read"))
<1>0. LinkInv /\ Typing /\ Shape(c)
  BY DEF Base, LinkInv, Sound
<1>1. ASSUME NEW d \in Conns, Hearing(d) \/ Close(d)
      PROVE  client'[c] = "closed" /\ UNCHANGED <<sent, up, inpart, task>>
             /\ \A e : <<e, "read">> \in cut' <=> <<e, "read">> \in cut
  <2>1. UNCHANGED <<sent, up, inpart, task>>
        /\ (cut' = cut \/ cut' = cut \cup {<<d, "receive">>})
    BY <1>1 DEF Hearing, Connect, ConnectToSend, ReceivePart, Receive, ReceiveLine, DropReceive, Close
  <2>2. client'[c] = "closed"
    BY <1>1, ClientLasts
  <2> QED BY <2>1, <2>2
<1>2. ASSUME NEW d \in Conns, Write(d)
      PROVE  /\ UNCHANGED <<client, inpart, task, cut>>
             /\ sent'[c] = sent[c] /\ up'[c] = up[c]
  <2>1. c # d /\ UNCHANGED <<client, task, cut>> /\ up'[c] = up[c]
    BY <1>0, <1>2, WriteMoves
  <2>2. sent'[c] = sent[c]
    BY <1>0, <1>2, <2>1 DEF Write, Typing
  <2>3. inpart' = inpart
    BY <1>2 DEF Write
  <2> QED BY <2>1, <2>2, <2>3
<1>3. ASSUME NEW d \in Conns, WriteFails(d)
      PROVE  UNCHANGED <<client, inpart, task, cut, sent, up>>
  BY <1>3 DEF WriteFails
<1>4. ASSUME NEW d \in Conns, NEW m \in Messages, Begin(d, m)
      PROVE  client'[c] = "closed" /\ UNCHANGED <<inpart, task, cut, sent, up>>
  <2>1. client[d] = "none" /\ (\A e \in Conns \ {d} : client'[e] = client[e])
        /\ UNCHANGED <<serving, streams, history>>
    BY <1>0, <1>4, BeginFacts
  <2> QED BY <2>1
<1>5. /\ client'[c] = "closed" /\ sent'[c] = sent[c]
      /\ inpart'[c] = inpart[c] /\ up'[c] = up[c] /\ task'[c] = task[c]
      /\ <<c, "read">> \in cut' <=> <<c, "read">> \in cut
  <2>1. CASE \E d \in Conns : Hearing(d) \/ Close(d)
    BY <1>1, <2>1
  <2>2. CASE \E d \in Conns : Write(d) \/ WriteFails(d)
    BY <1>2, <1>3, <2>2
  <2>3. CASE \E d \in Conns, m \in Messages : Begin(d, m)
    BY <1>4, <2>3
  <2>4. CASE UNCHANGED vars
    BY <2>4 DEF vars
  <2> QED BY <2>1, <2>2, <2>3, <2>4
<1> QED BY <1>5 DEF Coming, Unserved, Dropped

LEMMA FinishedStep ==
  ASSUME Base, AbiTyping, NoTwoCuts, \A k \in Handles : Sender(k),
         NEW c \in Conns, Finished(c), [CNext]_cvars
  PROVE  Finished(c)'
<1>0. LinkInv /\ Typing
  BY DEF Base, LinkInv
<1>1. ASSUME NEW k \in Handles, SendReturns(k), call[k].conn = c PROVE Finished(c)'
  <2>1. /\ IsSending(k) /\ wr[c] = <<>> /\ Close(c)
        /\ done' = IF call[k].op = "send" THEN done \cup {c} ELSE done
    BY <1>1 DEF SendReturns, IsSending, Goes
  <2>2. client[c] \in {"open", "garbled"} /\ client' = [client EXCEPT ![c] = "closed"]
        /\ UNCHANGED <<serving, up, history>>
    BY <2>1 DEF Close
  <2>3. c \notin done
    BY <2>2 DEF Finished
  <2>4. SUFFICES ASSUME call[k].op = "send" PROVE Finished(c)'
    BY <2>1, <2>3 DEF Finished
  <2>5. Len(sent[c]) = 1
    <3>1. OneLine(c)
      BY <1>1, <2>1, <2>2, <2>4 DEF Sender
    <3>2. Len(wr[c]) = 0
      BY <2>1
    <3> QED BY <3>1, <3>2 DEF OneLine
  <2>6. client'[c] = "closed"
    BY <1>0, <2>2 DEF Typing
  <2>7. ASSUME Unserved(c), ~Dropped(c, "read") PROVE LastEnds(Coming(c))
    <3>1. ~Damaged(c)
      BY <2>7 DEF NoTwoCuts, UncutAndInPlace, Damaged, Dropped
    <3>2. Len(wr[c]) # 1
      <4>1. Len(wr[c]) = 0
        BY <2>1
      <4> QED BY <4>1
    <3> QED BY <1>0, <2>2, <2>7, <3>1, <3>2 DEF LinkInv, Sound, Aligned
  <2>8. /\ (Coming(c))' = Coming(c) /\ (Unserved(c)' <=> Unserved(c))
        /\ (Dropped(c, "read")' <=> Dropped(c, "read"))
    BY <2>2 DEF Coming, Unserved, Dropped
  <2> QED BY <2>2, <2>5, <2>6, <2>7, <2>8 DEF Finished, LastEnds
<1>2. ASSUME NEW k \in Handles, SendReturns(k), call[k].conn # c PROVE c \in done' => c \in done
  BY <1>2 DEF SendReturns
<1>3. ASSUME ~\E k \in Handles : SendReturns(k) PROVE UNCHANGED done
  BY <1>3, AbiSteps DEF CallSend, SendGoes, Talks, Leaves, Push, PushUnless, Pop, Joins,
                        Broadcast, Dies, Restarts, cvars, abi
<1>4. SUFFICES ASSUME c \in done, c \in done' PROVE Finished(c)'
  BY <1>1, <1>2, <1>3 DEF Finished
<1>5. /\ client[c] = "closed" /\ Len(sent[c]) = 1
      /\ Unserved(c) /\ ~Dropped(c, "read") => LastEnds(Coming(c))
  BY <1>4 DEF Finished
<1>6. ASSUME \/ \E d \in Conns : Hearing(d) \/ Close(d) \/ Write(d) \/ WriteFails(d)
             \/ \E d \in Conns, m \in Messages : Begin(d, m)
             \/ UNCHANGED vars
      PROVE  Finished(c)'
  <2>1. /\ client'[c] = "closed" /\ sent'[c] = sent[c]
        /\ (Coming(c))' = Coming(c) /\ (Unserved(c)' <=> Unserved(c))
        /\ (Dropped(c, "read")' <=> Dropped(c, "read"))
    BY <1>5, <1>6, ClosedKept
  <2> QED BY <1>5, <2>1 DEF Finished, LastEnds
<1>7. ASSUME NEW d \in Conns, Push(d) PROVE Finished(c)'
  <2>1. UNCHANGED <<client, sent>>
    BY <1>7, LinesKept, ServerClient
  <2>2. Unserved(c)' /\ ~Dropped(c, "read")' => LastEnds(Coming(c))'
    BY <1>5, <1>7, PushComing DEF NoTwoCuts
  <2> QED BY <1>5, <2>1, <2>2 DEF Finished
<1>8. ASSUME \/ Pop \/ Joins \/ Dies \/ Restarts
             \/ \E h \in Hosted : Broadcast(h)
      PROVE  Finished(c)'
  <2>1. UNCHANGED <<client, sent>>
    BY <1>8, LinesKept, ServerClient
  <2>2. UNCHANGED <<up, cut>>
    BY <1>8 DEF Pop, Joins, Accepting, CheckRunning, Accept, Spawn,
                Dies, Crash, Restarts, Start, Broadcast, HostBroadcast, vars
  <2>3. (inpart' = inpart /\ (Unserved(c)' => Unserved(c))) \/ ~Unserved(c)'
    <3>1. CASE Dies
      <4>1. task'[c] = "ended"
        BY <1>5, <3>1 DEF Dies, Crash
      <4> QED BY <4>1 DEF Unserved
    <3>2. CASE Joins
      <4>1. inpart' = inpart
        BY <3>2 DEF Joins, Accepting, CheckRunning, Accept, Spawn
      <4>2. Unserved(c)' => Unserved(c)
        <5>1. CASE CheckRunning
          <6>1. task'[c] = task[c] \/ task'[c] = "ended"
            BY <5>1 DEF CheckRunning
          <6> QED BY <6>1 DEF Unserved
        <5>2. CASE Accept
          <6>1. backlog # <<>> /\ task' = [task EXCEPT ![Head(backlog)] = "open"]
            BY <5>2 DEF Accept, Spawn
          <6>2. CASE c = Head(backlog)
            <7>1. 1 \in 1..Len(backlog) /\ Head(backlog) = backlog[1]
              BY <1>0, <6>1 DEF Typing
            <7>2. task[c] = "none"
              BY <1>0, <6>2, <7>1 DEF LinkInv, Queue
            <7> QED BY <7>2 DEF Unserved
          <6>3. CASE c # Head(backlog)
            BY <1>0, <6>1, <6>3 DEF Unserved, Typing
          <6> QED BY <6>2, <6>3
        <5> QED BY <3>2, <5>1, <5>2 DEF Joins, Accepting
      <4> QED BY <4>1, <4>2
    <3>3. CASE Pop \/ Restarts \/ \E h \in Hosted : Broadcast(h)
      BY <3>3 DEF Pop, Restarts, Start, Broadcast, HostBroadcast, vars, Unserved
    <3> QED BY <1>8, <3>1, <3>2, <3>3
  <2> QED BY <1>5, <2>1, <2>2, <2>3 DEF Finished, LastEnds, Coming, Dropped
<1>9. ASSUME NEW k \in Handles, SendGoes(k) \/ SendReturns(k)
      PROVE  \E d \in Conns : Write(d) \/ WriteFails(d) \/ Close(d)
  <2>1. call[k].conn \in Conns
    BY <1>9, CallTypes DEF SendGoes, SendReturns, Goes
  <2> QED BY <1>9, <2>1 DEF SendGoes, SendReturns
<1>10. ASSUME NEW k \in Handles, NEW m \in Messages, CallSend(k, m)
       PROVE  \E d \in Conns : Begin(d, m)
  BY <1>10 DEF CallSend, Begin
<1> QED BY <1>6, <1>7, <1>8, <1>9, <1>10, AbiSteps DEF Talks, Leaves, cvars

-----------------------------------------------------------------------------
(* What a task loses and ends for.                                         *)

\* The steps of the task of a connection.
LEMMA TaskAfter ==
  ASSUME Base, AbiTyping, NoTwoCuts, NEW c \in Conns, Finished(c), After(c), Push(c)
  PROVE  After(c)'
<1>0. /\ LinkInv /\ Typing /\ Sound(c) /\ Serve(c) /\ ~Dropped(c, "send")
      /\ UNCHANGED <<client, done, joined, crashed>>
  BY ServerClient DEF Base, LinkInv, Push, PushUnless, NoTwoCuts, UncutAndInPlace, Serve, HandleRequest, Handle,
              WithoutRequest, ReadPart, ReadGarbage, ReadGarbled, ReadEnd, EndTask,
              TakeBroadcast, Deliver, Lag, LagTo, DropRead, Respond, RespondFails
<1>1. joined[c] \in Nat /\ pos[c] \in Nat /\ Len(log) \in Nat /\ out[c] \in Seq(Pieces)
  BY <1>0 DEF AbiTyping, Typing
<1>2. CASE HandleRequest(c)
  <2>1. PICK k \in DOMAIN up[c] : LineRead(c, k) /\ Handle(c, k, Answer(c, k))
    BY <1>2 DEF HandleRequest
  <2>2. /\ UNCHANGED <<task, pos, cut>> /\ task[c] = "open"
        /\ out' = [out EXCEPT ![c] = Answer(c, k)]
    BY <2>1 DEF LineRead, Handle
  <2>3. PICK m : m = up[c][k].item[2]
    OBVIOUS
  <2>4. out'[c] = Line(<<"reply", m>>)
    BY <1>0, <2>2, <2>3 DEF Answer, Typing
  <2>5. \A i \in DOMAIN out'[c] : out'[c][i].item[1] # "cast"
    <3>1. DOMAIN Line(<<"reply", m>>) = {1, 2} /\ \A i \in {1, 2} : Line(<<"reply", m>>)[i].item = <<"reply", m>>
      BY DEF Line
    <3>2. <<"reply", m>>[1] # "cast"
      OBVIOUS
    <3> QED BY <2>4, <3>1, <3>2
  <2> QED BY <1>0, <2>2, <2>5 DEF After, Late, Dropped
<1>3. CASE ReadPart(c)
  BY <1>0, <1>3 DEF ReadPart, Selecting, Running, After, Late, Dropped
<1>4. CASE ReadGarbage(c) \/ ReadGarbled(c)
  <2>1. Damaged(c)
    BY <1>0, <1>4, GarbageDamaged
  <2>2. Late(c)
    BY <1>0, <2>1 DEF Damaged, Dropped, After
  <2>3. UNCHANGED <<out, pos, cut>> /\ task'[c] # "none"
    BY <1>0, <1>4 DEF ReadGarbage, ReadGarbled, Typing
  <2> QED BY <1>0, <1>1, <2>2, <2>3 DEF After, Late, Dropped
<1>5. CASE ReadEnd(c)
  <2>1. /\ up[c] = <<>> /\ client[c] = "closed" /\ out[c] = <<>> /\ task[c] \in {"open", "garbled"}
        /\ UNCHANGED <<out, pos, cut, served>> /\ task' = [task EXCEPT ![c] = "ended"]
    BY <1>5 DEF ReadEnd, EndTask, Selecting, Running
  <2>2. ASSUME ~Late(c), c \in done PROVE served[c] # <<>>
    <3>1. ~Dropped(c, "read")
      BY <2>2 DEF After
    <3>2. task[c] = "open"
      BY <2>1 DEF NoTwoCuts, UncutAndInPlace
    <3>3. Track(Coming(c), sent[c], served[c]) /\ LastEnds(Coming(c)) /\ Len(sent[c]) = 1
      BY <1>0, <2>2, <3>1, <3>2 DEF Sound, Tracked, Unserved, Finished, NoTwoCuts, UncutAndInPlace
    <3>4. Coming(c) = inpart[c] /\ inpart[c] \in Seq(Sends) /\ NoEnd(inpart[c])
      <4>1. inpart[c] \in Seq(Sends) /\ NoEnd(inpart[c])
        BY <1>0, ConnTypes DEF Sound, Shape
      <4> QED BY <2>1, <4>1, NothingBefore DEF Coming
    <3>5. inpart[c] = <<>>
      <4>1. SUFFICES ASSUME inpart[c] # <<>> PROVE FALSE
        OBVIOUS
      <4>2. Len(inpart[c]) \in DOMAIN inpart[c]
        BY <3>4, <4>1
      <4> QED BY <3>3, <3>4, <4>1, <4>2 DEF NoEnd, LastEnds
    <3>6. SUFFICES ASSUME served[c] = <<>> PROVE FALSE
      OBVIOUS
    <3>7. PICK t, a, v : t = Coming(c) /\ a = sent[c] /\ v = served[c]
      OBVIOUS
    <3>8. Len(t) = 0 /\ Len(v) = 0 /\ Len(a) - Len(v) = 1
      BY <3>3, <3>4, <3>5, <3>6, <3>7
    <3>9. PICK p \in [1..1 -> 1..0] : TRUE
      BY <3>3, <3>7, <3>8 DEF Track
    <3>10. p[1] \in 1..0
      BY <3>9
    <3> QED BY <3>10
  <2> QED BY <1>0, <2>1, <2>2 DEF After, Late, Dropped, Typing
<1>6. CASE TakeBroadcast(c) \/ Lag(c)
  <2>1. task'[c] = "open" /\ task[c] \in {"open", "garbled"}
    BY <1>0, <1>6 DEF TakeBroadcast, CanTake, Deliver, Lag, LagTo, DropRead, Selecting, Running, Typing
  <2>2. pos[c] < pos'[c] /\ pos'[c] \in Int
    <3>1. CASE TakeBroadcast(c)
      BY <1>0, <1>1, <3>1 DEF TakeBroadcast, Deliver, Typing
    <3>2. CASE Lag(c)
      <4>1. case.capacity \in Nat
        BY <1>0, CasesAssumption DEF Typing
      <4>2. /\ Len(log) - pos[c] > case.capacity
            /\ pos' = [pos EXCEPT ![c] = Len(log) - case.capacity]
        BY <3>2 DEF Lag, LagTo, Behind
      <4> QED BY <1>0, <1>1, <4>1, <4>2 DEF Typing
    <3> QED BY <1>6, <3>1, <3>2
  <2>3. joined'[c] < pos'[c] /\ joined'[c] <= pos'[c]
    BY <1>0, <1>1, <2>2 DEF After
  <2> QED BY <2>1, <2>3 DEF After, Late
<1>7. CASE Respond(c)
  <2>1. PICK n \in Fits(out[c], down[c]) : out' = [out EXCEPT ![c] = Left(@, n)]
    BY <1>7 DEF Respond
  <2>2. PICK s, l : s = out[c] /\ l = Left(s, n)
    OBVIOUS
  <2>3. s \in Seq(Pieces) /\ n \in 0..Len(s)
    BY <1>1, <2>1, <2>2, FitsFacts
  <2>4. /\ l \in Seq(Pieces) /\ Len(l) = Len(s) - n
        /\ \A i \in 1..(Len(s) - n) : l[i] = s[n + i]
    <3>1. /\ Left(s, n) \in Seq(Pieces) /\ Len(Left(s, n)) = Len(s) - n
          /\ \A i \in 1..(Len(s) - n) : Left(s, n)[i] = s[n + i]
      BY ONLY <2>3, SplitFacts
    <3> QED BY <2>2, <3>1
  <2>5. \A i \in DOMAIN l : n + i \in DOMAIN s /\ l[i] = s[n + i]
    BY <2>3, <2>4
  <2>6. UNCHANGED <<task, pos, cut, served>> /\ out'[c] = l /\ task[c] # "none"
    BY <1>0, <1>7, <2>1, <2>2 DEF Respond, Running, Typing
  <2> QED BY <1>0, <2>2, <2>5, <2>6 DEF After, Late, Dropped
<1>8. CASE RespondFails(c)
  <2>1. /\ UNCHANGED <<pos, cut, served>> /\ task[c] \in {"open", "garbled"} /\ out[c] # <<>>
        /\ task' = [task EXCEPT ![c] = IF out[c][1].item[1] = "cast" THEN "ended" ELSE @]
        /\ out' = [out EXCEPT ![c] = <<>>]
    BY <1>8 DEF RespondFails, Running
  <2>2. out'[c] = <<>> /\ (task'[c] = "ended" => out[c][1].item[1] = "cast")
    BY <1>0, <2>1 DEF Typing
  <2>3. 1 \in DOMAIN out[c]
    BY <1>1, <2>1
  <2>4. task'[c] = "ended" => Late(c)
    BY <2>2, <2>3 DEF After
  <2> QED BY <1>0, <2>1, <2>2, <2>4 DEF After, Late, Dropped
<1> QED BY <1>0, <1>2, <1>3, <1>4, <1>5, <1>6, <1>7, <1>8 DEF Serve, WithoutRequest

\* The steps that change nothing a task has.
TaskKept(c) ==
  /\ task'[c] = task[c] /\ out'[c] = out[c] /\ pos'[c] = pos[c] /\ joined'[c] = joined[c]
  /\ crashed' = crashed
  /\ Dropped(c, "read")' <=> Dropped(c, "read")
  /\ served'[c] = served[c]

LEMMA KeptAfter ==
  ASSUME NEW c \in Conns, After(c), TaskKept(c),
         client[c] = "closed" => client'[c] = "closed",
         client[c] = "closed" /\ c \in done' => c \in done
  PROVE  After(c)'
BY DEF After, Late, TaskKept

LEMMA AfterStep ==
  ASSUME Base, AbiTyping, NoTwoCuts, loop # "dead" => running,
         NEW c \in Conns, Finished(c), After(c), [CNext]_cvars
  PROVE  After(c)'
<1>0. LinkInv /\ Typing
  BY DEF Base, LinkInv
<1>1. ASSUME NEW d \in Conns, Push(d) PROVE After(c)'
  <2>1. CASE c = d
    BY <1>1, <2>1, TaskAfter
  <2>2. CASE c # d
    <3>1. Alone(d)
      BY <1>0, <1>1, HandleSound, ReadPartSound, GarbageSound, EndSound, DropReadSound, RespondSound
      DEF Push, PushUnless, Serve, WithoutRequest
    <3>2. Still(c) /\ crashed' = crashed
      BY <2>2, <3>1 DEF Alone
    <3>3. UNCHANGED <<joined, done, client>>
      BY <1>1, ServerClient DEF Push, PushUnless
    <3>4. /\ out' = out \/ \E x : out' = [out EXCEPT ![d] = x]
          /\ pos' = pos \/ \E x : pos' = [pos EXCEPT ![d] = x]
      BY <1>1 DEF Push, PushUnless, Serve, HandleRequest, Handle,
              WithoutRequest, ReadPart, ReadGarbage, ReadGarbled, ReadEnd, EndTask,
              TakeBroadcast, Deliver, Lag, LagTo, DropRead, Respond, RespondFails
    <3>5. out'[c] = out[c] /\ pos'[c] = pos[c]
      BY <1>0, <2>2, <3>4 DEF Typing
    <3> QED BY <3>2, <3>3, <3>5, KeptAfter DEF TaskKept, Still, Dropped
  <2> QED BY <2>1, <2>2
<1>2. CASE Dies
  <2>1. /\ task'[c] = "ended" => c \in crashed'
        /\ out'[c] = <<>> /\ UNCHANGED <<pos, cut, joined>>
    BY <1>2 DEF Dies, Crash
  <2> QED BY <2>1 DEF After, Late, Dropped
<1>3. CASE Joins
  <2>0. joined' = IF loop = "accept" THEN [joined EXCEPT ![Head(backlog)] = Len(log)] ELSE joined
    BY <1>3 DEF Joins
  <2>1. CASE CheckRunning
    <3>1. /\ loop = "check" /\ UNCHANGED <<client, done, joined, out, pos, cut, served, crashed>>
          /\ running => task' = task
          /\ task'[c] = task[c] \/ task'[c] = "ended"
      BY <1>3, <2>0, <2>1 DEF Joins, CheckRunning
    <3>2. CASE running
      BY <3>1, <3>2, KeptAfter DEF TaskKept, Dropped
    <3>3. CASE ~running
      BY <3>1, <3>3
    <3> QED BY <3>2, <3>3
  <2>2. CASE Accept
    <3>1. PICK d : d = Head(backlog)
      OBVIOUS
    <3>2. /\ backlog # <<>> /\ task' = [task EXCEPT ![d] = "open"]
          /\ pos' = [pos EXCEPT ![d] = Len(log)]
          /\ joined' = [joined EXCEPT ![d] = Len(log)]
          /\ UNCHANGED <<client, done, out, cut, served, crashed>>
      BY <1>3, <2>0, <2>2, <3>1 DEF Joins, Accept, Spawn
    <3>3. CASE c # d
      <4>1. TaskKept(c)
        BY <1>0, <3>2, <3>3 DEF TaskKept, Dropped, Typing, AbiTyping
      <4> QED BY <3>2, <4>1, KeptAfter
    <3>4. CASE c = d
      <4>1. 1 \in 1..Len(backlog) /\ d = backlog[1]
        BY <1>0, <3>1, <3>2 DEF Typing
      <4>2. task[c] = "none" /\ ~Dropped(c, "read")
        BY <1>0, <3>4, <4>1 DEF LinkInv, Queue, Sound, Untouched
      <4>3. out[c] = <<>>
        BY <4>2 DEF After
      <4>4. task'[c] = "open" /\ pos'[c] = joined'[c] /\ pos'[c] \in Nat
        BY <1>0, <3>2, <3>4 DEF Typing, AbiTyping
      <4> QED BY <3>2, <4>2, <4>3, <4>4 DEF After, Late, Dropped
    <3> QED BY <3>3, <3>4
  <2> QED BY <1>3, <2>1, <2>2 DEF Joins, Accepting
<1>4. CASE Pop \/ Restarts \/ (\E h \in Hosted : Broadcast(h)) \/ UNCHANGED cvars
  <2>1. TaskKept(c) /\ UNCHANGED <<client, done>>
    BY <1>4 DEF Pop, Restarts, Start, Broadcast, HostBroadcast, vars, cvars, abi, TaskKept, Dropped
  <2> QED BY <2>1, KeptAfter
<1>5. CASE Talks \/ Leaves
  <2>1. (\E d \in Conns : Hearing(d) \/ Close(d)) \/ UNCHANGED vars
    BY <1>5 DEF Talks, Leaves
  <2>2. UNCHANGED <<done, joined>>
    BY <1>5 DEF Talks, Leaves
  <2>3. client[c] = "closed" => client'[c] = "closed"
    BY <2>1, ClientLasts DEF vars
  <2>4. /\ UNCHANGED <<task, out, pos, crashed, served>>
        /\ (Dropped(c, "read")' <=> Dropped(c, "read"))
    <3>1. ASSUME NEW d \in Conns, Hearing(d) \/ Close(d)
          PROVE  /\ UNCHANGED <<task, out, pos, crashed, served>>
                 /\ (cut' = cut \/ cut' = cut \cup {<<d, "receive">>})
      BY <3>1 DEF Hearing, Connect, ConnectToSend, ReceivePart, Receive, ReceiveLine, DropReceive, Close
    <3> QED BY <2>1, <3>1 DEF Dropped, vars
  <2> QED BY <2>2, <2>3, <2>4, KeptAfter DEF TaskKept
<1>6. ASSUME NEW k \in Handles, NEW m \in Messages, CallSend(k, m) PROVE After(c)'
  <2>1. PICK d \in Conns : Begin(d, m)
    BY <1>6 DEF CallSend, Begin
  <2>2. /\ client[d] = "none" /\ \A e \in Conns \ {d} : client'[e] = client[e]
        /\ UNCHANGED <<serving, history>>
    BY <1>0, <2>1, BeginFacts
  <2>3. UNCHANGED <<done, joined>>
    BY <1>6 DEF CallSend
  <2> QED BY <2>2, <2>3, KeptAfter DEF TaskKept, Dropped
<1>7. ASSUME NEW k \in Handles, SendGoes(k) PROVE After(c)'
  <2>1. UNCHANGED <<client, done, joined, task, out, pos, crashed, served, cut>>
    BY <1>7 DEF SendGoes, Write, WriteFails
  <2> QED BY <2>1, KeptAfter DEF TaskKept, Dropped
<1>8. ASSUME NEW k \in Handles, SendReturns(k) PROVE After(c)'
  <2>1. PICK d : d = call[k].conn
    OBVIOUS
  <2>2. /\ d \in Conns /\ Close(d) /\ joined' = joined
        /\ done' = done \/ done' = done \cup {d}
    BY <1>8, <2>1, CallTypes DEF SendReturns
  <2>3. /\ client[d] # "closed" /\ UNCHANGED <<task, out, pos, crashed, served, cut>>
    BY <2>2 DEF Close
  <2>4. client[c] = "closed" => client'[c] = "closed"
    BY <2>2, ClientLasts
  <2> QED BY <2>2, <2>3, <2>4, KeptAfter DEF TaskKept, Dropped
<1> QED BY <1>1, <1>2, <1>3, <1>4, <1>5, <1>6, <1>7, <1>8, AbiSteps

-----------------------------------------------------------------------------
(* Where a message is that the handler was called with.                    *)

\* A message that is handled was not handled before.
LEMMA HandledFirst ==
  ASSUME Base, NEW c \in Conns, NEW k \in DOMAIN up[c], up[c][k].end
  PROVE  ~WasServed(up[c][k].item[2])
<1>1. Typing /\ PendingUnlogged /\ ServedLogged
  BY UniqueParts DEF Base, LinkInv
<1>2. k \in 1..Len(up[c]) /\ k \in DOMAIN Pending(c) /\ Pending(c)[k] = up[c][k]
  <2>1. /\ up[c] \in Seq(Sends) /\ Pending(c) \in Seq(Sends) /\ Len(wr[c]) \in Nat
        /\ Len(Pending(c)) = Len(up[c]) + Len(wr[c])
    BY <1>1, PendingTypes
  <2>2. PICK u, t, n, w, x : u = up[c] /\ t = Pending(c) /\ n = Len(u) /\ w = Len(t) /\ x = Len(wr[c])
    OBVIOUS
  <2>3. u \in Seq(Sends) /\ t \in Seq(Sends) /\ x \in Nat /\ w = n + x /\ n = Len(u) /\ w = Len(t)
    BY <2>1, <2>2
  <2>4. k \in DOMAIN u
    BY <2>2
  <2>5. k \in 1..n /\ k \in DOMAIN t
    BY ONLY <2>4, <2>3
  <2>6. \A i \in 1..n : t[i] = u[i]
    BY <1>1, <2>2, PendingTypes
  <2> QED BY <2>2, <2>5, <2>6
<1>3. ~InLog(up[c][k].item[2])
  BY <1>1, <1>2 DEF PendingUnlogged
<1> QED BY <1>1, <1>3 DEF ServedLogged, WasServed

LEMMA PushKeeps ==
  ASSUME NEW c \in Conns, Push(c)
  PROVE  UNCHANGED <<loop, running, crashed>>
BY DEF Push, PushUnless, Serve, HandleRequest, Handle,
       WithoutRequest, ReadPart, ReadGarbage, ReadGarbled, ReadEnd, EndTask,
       TakeBroadcast, Deliver, Lag, LagTo, DropRead, Respond, RespondFails

LEMMA PushInPlace ==
  ASSUME Base, AbiTyping, InPlace, NEW c \in Conns, Push(c)
  PROVE  InPlace'
<1>0. Typing /\ taken' = taken /\ crashed' = crashed
  BY PushKeeps DEF Base, LinkInv, Push, PushUnless
<1>1. CASE stack' = stack /\ served' = served
  BY <1>0, <1>1 DEF InPlace, InHand, WasServed, ServedOver
<1>2. ASSUME NEW m \in Messages, NEW k \in DOMAIN up[c], up[c][k].end, m = up[c][k].item[2],
             served' = [served EXCEPT ![c] = Append(@, m)], stack' = Append(stack, m)
      PROVE  InPlace'
  <2>1. ~WasServed(m) /\ ~InHand(m)
    BY <1>2, HandledFirst DEF InPlace
  <2>2. PICK s, v, n, x : s = stack /\ v = served[c] /\ n = Len(s) /\ x = Len(v)
    OBVIOUS
  <2>3. s \in Seq(Messages) /\ v \in Seq(Messages) /\ n \in Nat /\ x \in Nat
    BY <1>0, <2>2 DEF AbiTyping, Typing
  <2>4. /\ DOMAIN s = 1..n /\ DOMAIN Append(s, m) = 1..(n + 1)
        /\ Append(s, m)[n + 1] = m /\ \A i \in 1..n : Append(s, m)[i] = s[i]
    BY <2>2, <2>3
  <2>5. /\ DOMAIN v = 1..x /\ DOMAIN Append(v, m) = 1..(x + 1)
        /\ Append(v, m)[x + 1] = m /\ \A i \in 1..x : Append(v, m)[i] = v[i]
    BY <2>2, <2>3
  <2>6. /\ served'[c] = Append(v, m) /\ \A d \in Conns \ {c} : served'[d] = served[d]
    BY <1>0, <1>2, <2>2 DEF Typing
  <2>7. \A i \in DOMAIN stack' :
          \/ i = n + 1 /\ stack'[i] = m
          \/ i \in DOMAIN stack /\ stack'[i] = stack[i] /\ stack[i] # m
    <3>1. ASSUME NEW i \in 1..(n + 1) PROVE i = n + 1 \/ i \in 1..n
      BY <2>3
    <3>2. \A i \in 1..n : s[i] # m
      BY <2>1, <2>2, <2>4 DEF InHand
    <3> QED BY <1>2, <2>2, <2>4, <3>1, <3>2
  <2>8. /\ \A i \in DOMAIN stack : i \in DOMAIN stack' /\ stack'[i] = stack[i]
        /\ n + 1 \in DOMAIN stack' /\ stack'[n + 1] = m
    <3>1. n + 1 \in 1..(n + 1) /\ \A i \in 1..n : i \in 1..(n + 1)
      BY <2>3
    <3> QED BY <1>2, <2>2, <2>4, <3>1
  <2>9. ASSUME NEW y PROVE WasServed(y)' <=> WasServed(y) \/ y = m
    <3>1. ASSUME NEW d \in Conns, NEW i \in DOMAIN served'[d], served'[d][i] = y
          PROVE  WasServed(y) \/ y = m
      <4>1. CASE d # c
        BY <2>6, <3>1, <4>1 DEF WasServed
      <4>2. CASE d = c
        <5>1. i \in 1..x \/ i = x + 1
          BY <2>3, <2>5, <2>6, <4>2
        <5> QED BY <2>2, <2>5, <2>6, <3>1, <4>2, <5>1 DEF WasServed
      <4> QED BY <4>1, <4>2
    <3>2. ASSUME NEW d \in Conns, NEW i \in DOMAIN served[d]
          PROVE  i \in DOMAIN served'[d] /\ served'[d][i] = served[d][i]
      <4>1. CASE d # c
        BY <2>6, <4>1
      <4>2. CASE d = c
        <5>1. i \in 1..x /\ i \in 1..(x + 1)
          BY <2>2, <2>3, <2>5, <4>2
        <5> QED BY <2>2, <2>5, <2>6, <4>2, <5>1
      <4> QED BY <4>1, <4>2
    <3>3. x + 1 \in DOMAIN served'[c] /\ served'[c][x + 1] = m
      <4>1. x + 1 \in 1..(x + 1)
        BY <2>3
      <4> QED BY <2>5, <2>6, <4>1
    <3> QED BY <3>1, <3>2, <3>3 DEF WasServed
  <2>10. ASSUME NEW y PROVE InHand(y)' <=> InHand(y) \/ y = m
    BY <1>0, <2>7, <2>8 DEF InHand
  <2>11. \A i, j \in DOMAIN stack' : stack'[i] = stack'[j] => i = j
    BY <2>7 DEF InPlace
  <2>12. \A i \in DOMAIN stack', j \in DOMAIN taken' : stack'[i] # taken'[j]
    BY <1>0, <2>1, <2>7 DEF InPlace, InHand
  <2>13. \A y : InHand(y)' => WasServed(y)'
    BY <2>9, <2>10 DEF InPlace
  <2>14. ASSUME NEW d \in Conns \ crashed', NEW y, ServedOver(d, y)' PROVE InHand(y)'
    <3>1. CASE d # c
      <4>1. d \notin crashed /\ ServedOver(d, y)
        BY <1>0, <2>6, <2>14, <3>1 DEF ServedOver
      <4> QED BY <2>10, <4>1 DEF InPlace
    <3>2. CASE d = c
      <4>1. PICK i \in DOMAIN Append(v, m) : Append(v, m)[i] = y
        BY <2>6, <2>14, <3>2 DEF ServedOver
      <4>2. i \in 1..x \/ i = x + 1
        BY <2>3, <2>5, <4>1
      <4>3. y = m \/ ServedOver(c, y)
        BY <2>2, <2>5, <4>1, <4>2 DEF ServedOver
      <4> QED BY <1>0, <2>10, <3>2, <4>3 DEF InPlace
    <3> QED BY <3>1, <3>2
  <2>15. \A i, j \in DOMAIN taken' : taken'[i] = taken'[j] => i = j
    BY <1>0 DEF InPlace
  <2> QED BY <2>11, <2>12, <2>13, <2>14, <2>15 DEF InPlace
<1> QED BY <1>1, <1>2, PushFacts

LEMMA PopInPlace ==
  ASSUME AbiTyping, InPlace, Pop
  PROVE  InPlace'
<1>0. /\ stack \in Seq(Messages) /\ taken \in Seq(Messages)
      /\ served' = served /\ crashed' = crashed
  BY DEF AbiTyping, Pop, vars
<1>1. PICK n, x, m : n = Len(stack) /\ x = Len(taken) /\ m = stack[Len(stack)]
  OBVIOUS
<1>2. /\ n \in Nat \ {0} /\ x \in Nat
      /\ DOMAIN stack = 1..n /\ DOMAIN stack' = 1..(n - 1)
      /\ DOMAIN taken = 1..x /\ DOMAIN taken' = 1..(x + 1)
      /\ \A i \in 1..(n - 1) : stack'[i] = stack[i]
      /\ \A i \in 1..x : taken'[i] = taken[i]
      /\ taken'[x + 1] = m /\ stack[n] = m
  BY <1>0, <1>1, PopFacts
<1>3. \A i \in 1..n : i \in 1..(n - 1) \/ i = n
  BY <1>2
<1>4. /\ \A i \in 1..(n - 1) : i \in 1..n /\ i # n
      /\ n \in 1..n /\ x + 1 \in 1..(x + 1) /\ \A i \in 1..x : i \in 1..(x + 1)
  BY <1>2
<1>5. \A i \in 1..(x + 1) : i \in 1..x \/ i = x + 1
  BY <1>2
<1>6. /\ \A i, j \in 1..n : stack[i] = stack[j] => i = j
      /\ \A i, j \in 1..x : taken[i] = taken[j] => i = j
      /\ \A i \in 1..n, j \in 1..x : stack[i] # taken[j]
  BY <1>2 DEF InPlace
<1>7. \A i, j \in DOMAIN stack' : stack'[i] = stack'[j] => i = j
  BY <1>2, <1>4, <1>6
<1>8. \A i, j \in DOMAIN taken' : taken'[i] = taken'[j] => i = j
  BY <1>2, <1>4, <1>5, <1>6
<1>9. \A i \in DOMAIN stack', j \in DOMAIN taken' : stack'[i] # taken'[j]
  BY <1>2, <1>4, <1>5, <1>6
<1>10. \A y : InHand(y)' <=> InHand(y)
  BY <1>2, <1>3, <1>4, <1>5 DEF InHand
<1>11. \A y : WasServed(y)' <=> WasServed(y)
  BY <1>0 DEF WasServed
<1>12. \A y : InHand(y)' => WasServed(y)'
  BY <1>10, <1>11 DEF InPlace
<1>13. ASSUME NEW c \in Conns \ crashed', NEW y, ServedOver(c, y)' PROVE InHand(y)'
  <2>1. c \notin crashed /\ ServedOver(c, y)
    BY <1>0, <1>13 DEF ServedOver
  <2> QED BY <1>10, <2>1 DEF InPlace
<1> QED BY <1>7, <1>8, <1>9, <1>12, <1>13 DEF InPlace

\* What dies with the process was served over its connections.
LEMMA DiesInPlace ==
  ASSUME Base, InPlace, Dies
  PROVE  InPlace'
<1>1. /\ stack' = <<>> /\ UNCHANGED <<taken, served>>
      /\ crashed' = {c \in Conns : client[c] # "none"}
  BY DEF Dies, Crash
<1>2. DOMAIN <<>> = {}
  OBVIOUS
<1>3. ASSUME NEW c \in Conns \ crashed' PROVE DOMAIN served'[c] = {}
  <2>1. client[c] = "none" /\ Sound(c)
    BY <1>1 DEF Base, LinkInv
  <2> QED BY <1>1, <1>2, <2>1 DEF Sound, Untouched
<1>4. \A y : InHand(y)' => WasServed(y)'
  <2>1. \A y : InHand(y)' => InHand(y)
    BY <1>1, <1>2 DEF InHand
  <2>2. \A y : WasServed(y) => WasServed(y)'
    BY <1>1 DEF WasServed
  <2> QED BY <2>1, <2>2 DEF InPlace
<1> QED BY <1>1, <1>2, <1>3, <1>4 DEF InPlace, ServedOver

LEMMA InPlaceStep ==
  ASSUME Base, AbiTyping, loop # "dead" => running, InPlace, [CNext]_cvars
  PROVE  (loop' # "dead" => running') /\ InPlace'
<1>1. ASSUME UNCHANGED <<stack, taken, served, loop, running, crashed>>
      PROVE  (loop' # "dead" => running') /\ InPlace'
  BY <1>1 DEF InPlace, InHand, WasServed, ServedOver
<1>2. ASSUME NEW c \in Conns, Push(c) PROVE (loop' # "dead" => running') /\ InPlace'
  BY <1>2, PushKeeps, PushInPlace
<1>3. CASE Pop
  BY <1>3, PopInPlace DEF Pop, vars
<1>4. CASE Dies
  <2>1. loop' = "dead"
    BY <1>4 DEF Dies, Crash
  <2> QED BY <1>4, <2>1, DiesInPlace
<1>5. CASE Restarts
  <2>1. running' = TRUE /\ UNCHANGED <<stack, taken, served, crashed>>
    BY <1>5 DEF Restarts, Start, abi
  <2> QED BY <2>1 DEF InPlace, InHand, WasServed, ServedOver
<1>6. ASSUME NEW k \in Handles, NEW m \in Messages, CallSend(k, m)
      PROVE  UNCHANGED <<stack, taken, served, loop, running, crashed>>
  BY <1>6 DEF CallSend, ConnectToSend
<1>7. ASSUME NEW k \in Handles, SendGoes(k) \/ SendReturns(k)
      PROVE  UNCHANGED <<stack, taken, served, loop, running, crashed>>
  BY <1>7 DEF SendGoes, SendReturns, Write, WriteFails, Close
<1>8. ASSUME NEW d \in Conns, Hearing(d) \/ Close(d)
      PROVE  UNCHANGED <<served, loop, running, crashed>>
  BY <1>8 DEF Hearing, Connect, ConnectToSend, ReceivePart, Receive, ReceiveLine, DropReceive, Close
<1>9. ASSUME Talks \/ Leaves PROVE UNCHANGED <<stack, taken, served, loop, running, crashed>>
  BY <1>8, <1>9 DEF Talks, Leaves, vars
<1>10. ASSUME UNCHANGED cvars \/ \E h \in Hosted : Broadcast(h)
       PROVE  UNCHANGED <<stack, taken, served, loop, running, crashed>>
  BY <1>10 DEF Broadcast, HostBroadcast, cvars, vars, abi
<1>11. CASE Joins
  <2>1. UNCHANGED <<stack, taken, served, running, crashed>> /\ loop # "dead"
    BY <1>11 DEF Joins, Accepting, CheckRunning, Accept, Spawn
  <2> QED BY <2>1 DEF InPlace, InHand, WasServed, ServedOver
<1> QED BY <1>1, <1>2, <1>3, <1>4, <1>5, <1>6, <1>7, <1>9, <1>10, <1>11, AbiSteps

-----------------------------------------------------------------------------
(* The theorems.                                                           *)

AbiAll == Base /\ AbiInv

LEMMA AbiInit == CInit => AbiAll
<1> SUFFICES ASSUME CInit PROVE AbiAll
  OBVIOUS
<1>1. Base /\ AbiTyping
  BY BaseInit, AbiTypingInit
<1>2. /\ \A c \in Conns : /\ sent[c] = <<>> /\ wr[c] = <<>> /\ served[c] = <<>> /\ out[c] = <<>>
                          /\ task[c] = "none" /\ pos[c] = 0 /\ joined[c] = 0
      /\ cut = {} /\ done = {} /\ stack = <<>> /\ taken = <<>> /\ running
      /\ \A k \in Handles : call[k] = Idle
  BY DEF CInit, Init
<1>3. NoTwoCuts /\ \A c \in Conns : Finished(c)
  BY <1>2 DEF NoTwoCuts, UncutAndInPlace, Dropped, Finished
<1>4. DOMAIN <<>> = {} /\ Len(<<>>) # 2
  OBVIOUS
<1>5. SentOnce
  BY <1>2, <1>4 DEF SentOnce
<1>6. \A k \in Handles : Sender(k)
  BY <1>2, IdleFacts DEF Sender, IsSending
<1>7. \A c \in Conns : After(c)
  BY <1>2, <1>4 DEF After, Dropped
<1>8. InPlace
  BY <1>2, <1>4 DEF InPlace, InHand, WasServed, ServedOver
<1> QED BY <1>1, <1>2, <1>3, <1>5, <1>6, <1>7, <1>8 DEF AbiAll, AbiInv

LEMMA AbiStep == AbiAll /\ [CNext]_cvars => AbiAll'
<1> SUFFICES ASSUME AbiAll, [CNext]_cvars PROVE AbiAll'
  OBVIOUS
<1>1. /\ Base /\ AbiTyping /\ NoTwoCuts /\ SentOnce
      /\ \A k \in Handles : Sender(k)
      /\ \A c \in Conns : Finished(c) /\ After(c)
      /\ (loop # "dead" => running) /\ InPlace
  BY DEF AbiAll, AbiInv
<1>2. Base' /\ AbiTyping' /\ NoTwoCuts' /\ SentOnce'
  BY <1>1, BaseStep, AbiTypingStep, NoTwoCutsStep, SentOnceStep
<1>3. ASSUME NEW k \in Handles PROVE Sender(k)'
  BY <1>1, SenderStep
<1>4. ASSUME NEW c \in Conns PROVE Finished(c)' /\ After(c)'
  BY <1>1, FinishedStep, AfterStep
<1>5. (loop' # "dead" => running') /\ InPlace'
  BY <1>1, InPlaceStep
<1> QED BY <1>2, <1>3, <1>4, <1>5 DEF AbiAll, AbiInv

\* How often a message is in a queue that has each once.
LEMMA TimesFacts ==
  ASSUME NEW s \in Seq(Messages), NEW m, NEW c \in Conns, sent[c] = <<m>>,
         \A i, j \in DOMAIN s : s[i] = s[j] => i = j
  PROVE  TimesIn(c, s) = IF \E i \in DOMAIN s : s[i] = m THEN 1 ELSE 0
<1> DEFINE T == {i \in DOMAIN s : <<s[i]>> = sent[c]}
<1>1. \A x : <<x>> = <<m>> <=> x = m
  OBVIOUS
<1>2. \A i \in DOMAIN s : i \in T <=> s[i] = m
  BY <1>1
<1>3. CASE \E i \in DOMAIN s : s[i] = m
  <2>1. PICK i \in DOMAIN s : s[i] = m
    BY <1>3
  <2>2. T = {i}
    BY <1>2, <2>1
  <2> QED BY <1>3, <2>2, FS_Singleton DEF TimesIn
<1>4. CASE ~\E i \in DOMAIN s : s[i] = m
  <2>1. T = {}
    BY <1>2, <1>4
  <2> QED BY <1>4, <2>1, FS_EmptySet DEF TimesIn
<1> QED BY <1>3, <1>4

\* A message whose ipc_client_send returned 0 is in one place while the process
\* it was sent to lives, whatever died before: not read yet, in the queue of the
\* application, or received from it, once.  If its task ended without reading it,
\* a broadcast made after the connection was accepted came first.
THEOREM AcceptedInOnePlace == CSpec => []AcceptedOnce
<1>1. ASSUME AbiAll, NEW c \in done \ crashed
      PROVE  LET waiting == TimesIn(c, stack) + TimesIn(c, taken)
             IN  IF served[c] = <<>>
                 THEN waiting = 0 /\ (task[c] = "ended" => Overtaken(c))
                 ELSE waiting = 1
  <2>1. /\ LinkInv /\ AbiTyping /\ NoTwoCuts /\ SentOnce /\ Finished(c) /\ After(c) /\ InPlace
        /\ c \in Conns
    BY <1>1 DEF AbiAll, AbiInv, Base, AbiTyping
  <2>2. PICK a, v : a = sent[c] /\ v = served[c]
    OBVIOUS
  <2>3. a \in Seq(Messages) /\ v \in Seq(Messages) /\ Len(a) = 1
    BY <1>1, <2>1, <2>2, ConnTypes DEF LinkInv, Finished
  <2>4. PICK m : m = a[1]
    OBVIOUS
  <2>5. a = <<m>>
    BY <2>3, <2>4
  <2>6. /\ TimesIn(c, stack) = IF \E i \in DOMAIN stack : stack[i] = m THEN 1 ELSE 0
        /\ TimesIn(c, taken) = IF \E i \in DOMAIN taken : taken[i] = m THEN 1 ELSE 0
    BY <2>1, <2>2, <2>5, TimesFacts DEF AbiTyping, InPlace
  <2>7. \A d \in Conns : /\ Len(served[d]) <= Len(sent[d])
                         /\ \A i \in DOMAIN served[d] : served[d][i] = sent[d][i]
    BY <2>1 DEF LinkInv, Sound, Prefix, NoTwoCuts, UncutAndInPlace
  <2>8. CASE v = <<>>
    <3>1. ~WasServed(m)
      <4>1. SUFFICES ASSUME NEW d \in Conns, NEW i \in DOMAIN served[d], served[d][i] = m
                     PROVE  FALSE
        BY DEF WasServed
      <4>2. sent[d][i] = m /\ i \in DOMAIN sent[d]
        <5>1. PICK w, b : w = served[d] /\ b = sent[d]
          OBVIOUS
        <5>2. w \in Seq(Messages) /\ b \in Seq(Messages) /\ Len(w) <= Len(b) /\ i \in DOMAIN w
          BY <2>1, <2>7, <4>1, <5>1, ConnTypes DEF LinkInv
        <5>3. i \in DOMAIN b
          BY <5>2
        <5> QED BY <2>7, <4>1, <5>1, <5>3
      <4>3. 1 \in DOMAIN sent[c] /\ sent[c][1] = m
        BY <2>2, <2>3, <2>4
      <4>4. d = c
        BY <2>1, <4>1, <4>2, <4>3 DEF SentOnce
      <4>5. DOMAIN <<>> = {}
        OBVIOUS
      <4> QED BY <2>2, <2>8, <4>1, <4>4, <4>5
    <3>2. TimesIn(c, stack) = 0 /\ TimesIn(c, taken) = 0
      BY <2>1, <2>6, <3>1 DEF InPlace, InHand
    <3>3. task[c] = "ended" => Overtaken(c)
      BY <1>1, <2>1, <2>2, <2>8 DEF After, Late, Overtaken
    <3> QED BY <2>2, <2>8, <3>2, <3>3
  <2>9. CASE v # <<>>
    <3>1. 1 \in DOMAIN v /\ v[1] = m
      <4>1. 1 \in DOMAIN v
        BY <2>3, <2>9
      <4> QED BY <2>1, <2>2, <2>4, <2>7, <4>1
    <3>2. InHand(m)
      <4>1. ServedOver(c, m)
        BY <2>2, <3>1 DEF ServedOver
      <4> QED BY <1>1, <2>1, <4>1 DEF InPlace
    <3>3. ~((\E i \in DOMAIN stack : stack[i] = m) /\ \E i \in DOMAIN taken : taken[i] = m)
      BY <2>1 DEF InPlace
    <3>4. TimesIn(c, stack) + TimesIn(c, taken) = 1
      BY <2>6, <3>2, <3>3 DEF InHand
    <3> QED BY <2>2, <2>9, <3>4
  <2> QED BY <2>8, <2>9
<1>2. AbiAll => AcceptedOnce
  BY <1>1 DEF AcceptedOnce
<1> QED BY <1>2, AbiInit, AbiStep, PTL DEF CSpec

-----------------------------------------------------------------------------
(* What the clients of the interface get.                                  *)

AbiFlow == OrderAll /\ LastKnown

LEMMA AbiFlowInit == CInit => AbiFlow /\ Broadcasts!Init
BY OrderInit, RefineInit DEF CInit, AbiFlow

\* To begin a send is to connect, as far as the client's reads are concerned.
LEMMA BeginFlow ==
  ASSUME AbiFlow, NEW c \in Conns, NEW m \in Messages, Begin(c, m), Base'
  PROVE  AbiFlow' /\ UNCHANGED Broadcasts!vars
<1>1. /\ LinkInv /\ Typing /\ Voiced /\ LastKnown /\ \A d \in Conns : Flow(d)
      /\ ConnectToSend(c, Line(<<"request", m>>))
  BY DEF AbiFlow, OrderAll, OrderInv, LinkInv, Begin
<1>2. UNCHANGED <<rdpart, down, out, got, log>>
  BY <1>1 DEF ConnectToSend
<1>3. Voiced' /\ LastKnown'
  BY <1>1, <1>2 DEF Voiced, LastKnown
<1>4. Apart(c) /\ Flow(c)'
  BY <1>1, ConnectFlow
<1>5. \A d \in Conns : Flow(d)'
  BY <1>1, <1>4, ApartFlow
<1>6. UNCHANGED Broadcasts!vars
  BY <1>2, RefineSame
<1> QED BY <1>3, <1>5, <1>6 DEF AbiFlow, OrderAll, OrderInv, Base

LEMMA AbiFlowStep == AbiAll /\ AbiFlow /\ [CNext]_cvars => AbiFlow'
<1> SUFFICES ASSUME AbiAll, AbiFlow, [CNext]_cvars PROVE AbiFlow'
  OBVIOUS
<1>1. AbiTyping /\ Base'
  BY AbiStep DEF AbiAll, AbiInv
<1>2. CASE [Next]_vars
  BY <1>2, OrderStep, LastStep DEF AbiFlow
<1>3. CASE \E c \in Conns, m \in Messages : Begin(c, m)
  BY <1>1, <1>3, BeginFlow
<1> QED BY <1>1, <1>2, <1>3, AbiNext

LEMMA AbiRefineStep ==
  AbiAll /\ AbiFlow /\ Rises /\ Rises' /\ [CNext]_cvars => [Broadcasts!Next]_(Broadcasts!vars)
<1> SUFFICES ASSUME AbiAll, AbiFlow, Rises, Rises', [CNext]_cvars
             PROVE  [Broadcasts!Next]_(Broadcasts!vars)
  OBVIOUS
<1>1. AbiTyping /\ Base'
  BY AbiStep DEF AbiAll, AbiInv
<1>2. CASE [Next]_vars
  BY <1>2, RefineStep DEF AbiFlow
<1>3. CASE \E c \in Conns, m \in Messages : Begin(c, m)
  BY <1>1, <1>3, BeginFlow
<1> QED BY <1>1, <1>2, <1>3, AbiNext

\* What ipc_client_receive returns of the broadcasts are messages of the channel,
\* each once and in its order, although its 50 ms may drop a read anywhere and
\* the handle may connect anew (c_abi.rs 310-368).
THEOREM AbiBroadcastsInOrder == CSpec => InOrder
<1>1. AbiFlow => Rises
  BY GotRises DEF AbiFlow
<1> QED BY <1>1, AbiInit, AbiStep, AbiFlowInit, AbiFlowStep, AbiRefineStep, PTL
        DEF CSpec, InOrder, Broadcasts!Spec

\* Over a connection the handler is called with what the client sent, in its order
\* and without a gap; a client that was not cut misses no broadcast between two
\* others, unless its receiver lagged.
AbiPromise ==
  /\ \A c \in Conns : /\ Len(served[c]) <= Len(sent[c])
                      /\ \A i \in DOMAIN served[c] : served[c][i] = sent[c][i]
  /\ NoSilentGap /\ EndsForCause

\* The transport keeps its promises under the interface, which connects and begins
\* to write in one call (c_abi.rs 239-296), and the exceptions it makes, for two
\* cuts, are none here: ipc_client_send drops no write, and in Json a task that
\* has lost its place ends.
THEOREM AbiKeepsPromise == CSpec => []AbiPromise
<1>1. AbiAll /\ AbiFlow => AbiPromise
  <2> SUFFICES ASSUME AbiAll, AbiFlow PROVE AbiPromise
    OBVIOUS
  <2>1. LinkInv /\ OrderAll /\ NoTwoCuts
    BY DEF AbiAll, AbiInv, Base, AbiFlow
  <2>2. NoSilentGap /\ EndsForCause
    BY <2>1, GotNoGap DEF LinkInv, Sound, Caused, EndsForCause
  <2>3. \A c \in Conns : /\ Len(served[c]) <= Len(sent[c])
                         /\ \A i \in DOMAIN served[c] : served[c][i] = sent[c][i]
    BY <2>1 DEF LinkInv, Sound, Prefix, NoTwoCuts, UncutAndInPlace
  <2> QED BY <2>2, <2>3 DEF AbiPromise
<1> QED BY <1>1, AbiInit, AbiStep, AbiFlowInit, AbiFlowStep, PTL DEF CSpec

=============================================================================
