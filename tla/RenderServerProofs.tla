------------------------ MODULE RenderServerProofs ------------------------
(***************************************************************************)
(* Proofs about RenderServer: what the window shows, for any number of     *)
(* clients, connections and frames, in every case of the transport, and    *)
(* that the programs use the transport as UnixChannel lets its clients.    *)
(***************************************************************************)
EXTENDS RenderServer, UnixOrderProofs

\* The flag is up while the event loop holds both locks, and what it uploaded are
\* the pixels as they are; the handler is at one of its two locks, or past them.
Locks ==
  /\ handler.step \in {0, 1, 2}
  /\ drawing \in {"none", "flag", "pixels", "rendering"}
  /\ drawing = "pixels" => flag /\ texture = pixels

FreshInv == Locks /\ Fresh

\* What nobody at the window does leaves it as it is.
LEMMA WindowUnchanged ==
  ASSUME FreshInv, UNCHANGED window
  PROVE  FreshInv'
BY DEF FreshInv, Locks, Fresh, window

LEMMA FreshInit == RInit => FreshInv
BY DEF RInit, FreshInv, Locks, Fresh, NoHandler

\* The handler is between the locks after the first, and raises the flag at the
\* second, when nobody draws.
LEMMA StoreFrameFresh ==
  ASSUME FreshInv, NEW c \in Conns, StoreFrame(c)
  PROVE  FreshInv'
<1>1. handler.step < 2 /\ handler'.step = handler.step + 1
  BY DEF StoreFrame
<1>2. drawing' = drawing /\ texture' = texture
  BY DEF StoreFrame
<1>3. PICK m \in Messages \cup {up[c][k].item[2] : k \in DOMAIN up[c]} :
        \/ /\ LockOrder[handler.step + 1] = "pixels" /\ drawing # "pixels"
           /\ pixels' = m /\ flag' = flag
        \/ /\ LockOrder[handler.step + 1] = "flag" /\ drawing = "none"
           /\ flag' = TRUE /\ pixels' = pixels
  BY DEF StoreFrame
<1>4. CASE handler.step = 0
  <2>1. LockOrder[handler.step + 1] = "pixels"
    BY <1>4 DEF LockOrder
  <2>2. drawing # "pixels" /\ flag' = flag
    BY <1>3, <2>1
  <2>3. handler'.step = 1
    BY <1>1, <1>4
  <2> QED
    BY <1>2, <2>2, <2>3 DEF FreshInv, Locks, Fresh
<1>5. CASE handler.step = 1
  <2>1. LockOrder[handler.step + 1] = "flag"
    BY <1>5 DEF LockOrder
  <2>2. drawing = "none" /\ flag' = TRUE
    BY <1>3, <2>1
  <2>3. handler'.step = 2
    BY <1>1, <1>5
  <2> QED
    BY <1>2, <2>2, <2>3 DEF FreshInv, Locks, Fresh
<1> QED
  BY <1>1, <1>4, <1>5 DEF FreshInv, Locks

\* Once the handler has returned nothing changes until the next frame.
LEMMA AnsweredFresh ==
  ASSUME FreshInv, NEW c \in Conns, Answered(c)
  PROVE  FreshInv'
<1>1. handler.step # 1 /\ handler'.step = 0
  BY DEF Answered, NoHandler
<1>2. UNCHANGED <<pixels, flag, drawing, texture>>
  BY DEF Answered
<1> QED
  BY <1>1, <1>2 DEF FreshInv, Locks, Fresh

LEMMA DrawFresh ==
  ASSUME FreshInv, Draw
  PROVE  FreshInv'
<1>1. CASE Look
  BY <1>1 DEF Look, FreshInv, Locks, Fresh
<1>2. CASE Upload
  BY <1>2 DEF Upload, UploadAs, FreshInv, Locks, Fresh
<1>3. CASE Drawn
  BY <1>3 DEF Drawn, FreshInv, Locks, Fresh
<1>4. CASE Skip \/ Rendered
  BY <1>4 DEF Skip, Rendered, FreshInv, Locks, Fresh
<1> QED
  BY <1>1, <1>2, <1>3, <1>4 DEF Draw

LEMMA FreshStep == FreshInv /\ [RNext]_rvars => FreshInv'
<1> SUFFICES ASSUME FreshInv, [RNext]_rvars
             PROVE  FreshInv'
  OBVIOUS
<1>1. ASSUME NEW r \in Renderers,
             \/ Join(r) \/ (\E m \in Messages : NextFrame(r, m)) \/ SendFrame(r)
             \/ Hear(r) \/ Deaf(r)
      PROVE  FreshInv'
  <2>1. UNCHANGED window
    BY <1>1 DEF Join, NextFrame, SendFrame, Hear, Hearing, Deaf
  <2> QED
    BY <2>1, WindowUnchanged
<1>2. ASSUME NEW c \in Conns, ServeFrames(c)
      PROVE  FreshInv'
  <2>1. CASE StoreFrame(c)
    BY <2>1, StoreFrameFresh
  <2>2. CASE Answered(c)
    BY <2>2, AnsweredFresh
  <2>3. CASE Others(c)
    BY <2>3, WindowUnchanged DEF Others
  <2> QED
    BY <1>2, <2>1, <2>2, <2>3 DEF ServeFrames
<1>3. CASE Draw
  BY <1>3, DrawFresh
<1>4. CASE Accepts \/ Restarts
  BY <1>4, WindowUnchanged DEF Accepts, Restarts
<1>5. CASE Dies
  BY <1>5 DEF Dies, FreshInv, Locks, Fresh, NoHandler
<1>6. CASE UNCHANGED rvars
  BY <1>6, WindowUnchanged DEF rvars
<1> QED
  BY <1>1, <1>2, <1>3, <1>4, <1>5, <1>6 DEF RNext

\* Whatever the clients send and however their handlers and the event loop take
\* turns at the two locks of main.rs, no frame is forgotten and no older one is
\* left on the screen: while the flag is down, and no handler is about to raise it,
\* the window shows what was stored last.
THEOREM FrameFresh == RSpec => []Fresh
<1>1. RInit => FreshInv
  BY FreshInit
<1>2. FreshInv /\ [RNext]_rvars => FreshInv'
  BY FreshStep
<1>3. FreshInv => Fresh
  BY DEF FreshInv
<1> QED
  BY <1>1, <1>2, <1>3, PTL DEF RSpec

-----------------------------------------------------------------------------
(* The programs over the transport.                                        *)

\* A program has a connection once it has left the place where it connects, and
\* while it has a receiver task.
ProgramInv ==
  /\ at \in [Renderers -> {"connect", "ready", "sending", "waiting"}]
  /\ conn \in [Renderers -> Conns \cup {0}]
  /\ hearing \in [Renderers -> BOOLEAN]
  /\ \A r \in Renderers : at[r] # "connect" \/ hearing[r] => conn[r] \in Conns

LEMMA ProgramInit == RInit => ProgramInv
BY DEF RInit, ProgramInv

LEMMA ProgramUnchanged ==
  ASSUME ProgramInv, UNCHANGED program
  PROVE  ProgramInv'
BY DEF ProgramInv, program

\* What a program does to its connection is a step of a client of UnixChannel.
LEMMA ProgramStep ==
  ASSUME ProgramInv, NEW r \in Renderers,
         \/ Join(r) \/ (\E m \in Messages : NextFrame(r, m)) \/ SendFrame(r)
         \/ Hear(r) \/ Deaf(r)
  PROVE  ProgramInv' /\ [Next]_vars
<1>1. CASE Join(r)
  <2>1. PICK c \in Conns : Connect(c) /\ conn' = [conn EXCEPT ![r] = c]
    BY <1>1 DEF Join
  <2>2. at' = [at EXCEPT ![r] = "ready"] /\ hearing' = [hearing EXCEPT ![r] = TRUE]
    BY <1>1 DEF Join, Goto
  <2>3. ProgramInv'
    BY <2>1, <2>2 DEF ProgramInv
  <2> QED BY <2>1, <2>3 DEF Next
<1>2. ASSUME NEW m \in Messages, NextFrame(r, m)
      PROVE  ProgramInv' /\ [Next]_vars
  <2>1. /\ BeginSend(conn[r], m) /\ conn[r] \in Conns
        /\ at' = [at EXCEPT ![r] = "sending"] /\ UNCHANGED <<conn, hearing>>
    BY <1>2 DEF NextFrame, Goto, ProgramInv
  <2>2. ProgramInv'
    BY <2>1 DEF ProgramInv
  <2> QED BY <2>1, <2>2 DEF Next
<1>3. CASE SendFrame(r)
  <2>1. /\ Sending(conn[r]) /\ conn[r] \in Conns /\ UNCHANGED <<conn, hearing>>
    BY <1>3 DEF SendFrame, Sending, ProgramInv
  <2>2. \E p \in {"connect", "sending", "waiting"} : at' = [at EXCEPT ![r] = p]
    BY <1>3 DEF SendFrame, Goto
  <2>3. ProgramInv'
    BY <2>1, <2>2 DEF ProgramInv
  <2> QED BY <2>1, <2>3 DEF Next
<1>4. CASE Hear(r)
  <2>1. /\ hearing[r] /\ Receiving(conn[r]) /\ conn[r] \in Conns /\ UNCHANGED conn
    BY <1>4 DEF Hear, Hearing, Receiving, ProgramInv
  <2>2. /\ \E p \in {"ready", at[r]} : at' = [at EXCEPT ![r] = p]
        /\ \E b \in BOOLEAN : hearing' = [hearing EXCEPT ![r] = b]
    BY <1>4 DEF Hear, Hearing, Goto
  <2>3. ProgramInv'
    BY <2>1, <2>2 DEF ProgramInv
  <2> QED BY <2>1, <2>3 DEF Next
<1>5. CASE Deaf(r)
  <2>1. UNCHANGED <<vars, at, conn>> /\ hearing' = [hearing EXCEPT ![r] = FALSE]
    BY <1>5 DEF Deaf
  <2>2. ProgramInv'
    BY <2>1 DEF ProgramInv
  <2> QED BY <2>1, <2>2
<1> QED BY <1>1, <1>2, <1>3, <1>4, <1>5

\* A handler that stores a frame, and the event loop, leave the transport alone;
\* the answer is sent by the connection's task.
LEMMA OverStep ==
  ASSUME ProgramInv, [RNext]_rvars
  PROVE  ProgramInv' /\ [Next]_vars
<1>1. ASSUME NEW c \in Conns, ServeFrames(c)
      PROVE  ProgramInv' /\ [Next]_vars
  <2>1. UNCHANGED program
    BY <1>1 DEF ServeFrames, StoreFrame, Answered, Others
  <2>2. Serve(c) \/ UNCHANGED vars
    BY <1>1 DEF ServeFrames, StoreFrame, Answered, Others, Serve
  <2> QED BY <2>1, <2>2, ProgramUnchanged DEF Next
<1>2. CASE Draw
  <2>1. UNCHANGED <<vars, program>>
    BY <1>2 DEF Draw, Look, Skip, Upload, UploadAs, Drawn, Rendered
  <2> QED BY <2>1, ProgramUnchanged
<1>3. CASE Accepts \/ Restarts \/ Dies
  <2>1. UNCHANGED program /\ Next
    BY <1>3 DEF Accepts, Restarts, Dies, Next
  <2> QED BY <2>1, ProgramUnchanged
<1>4. CASE UNCHANGED rvars
  <2>1. UNCHANGED <<vars, program>>
    BY <1>4 DEF rvars
  <2> QED BY <2>1, ProgramUnchanged
<1> QED BY <1>1, <1>2, <1>3, <1>4, ProgramStep DEF RNext

\* The programs of the example use the transport as UnixChannel's clients do, so
\* what holds over every connection holds over theirs (client.rs, main.rs): what
\* they do implements UnixChannel.
THEOREM FramesOverUnix == RSpec => Spec
<1>1. RInit => Init /\ ProgramInv
  BY ProgramInit DEF RInit
<1> QED BY <1>1, OverStep, PTL DEF RSpec, Spec

\* The programs finish what they begin to write and to read.
Finishes == \A c \in Conns : ~Dropped(c, "send") /\ Whole(c)

LEMMA CutOnlyReads ==
  ASSUME [RNext]_rvars
  PROVE  cut' = cut \/ \E c \in Conns : cut' = cut \cup Lost(c)
<1>1. ASSUME NEW r \in Renderers,
             \/ Join(r) \/ (\E m \in Messages : NextFrame(r, m)) \/ SendFrame(r)
             \/ Hear(r) \/ Deaf(r)
      PROVE  cut' = cut
  <2>1. CASE Join(r)
    BY <2>1 DEF Join, Connect, ConnectToSend, history
  <2>2. CASE \E m \in Messages : NextFrame(r, m)
    BY <2>2 DEF NextFrame, BeginSend, history
  <2>3. CASE SendFrame(r)
    BY <2>3 DEF SendFrame, Write, WriteFails, history
  <2>4. CASE Hear(r)
    BY <2>4 DEF Hear, Hearing, ReceivePart, Receive, ReceiveLine, history
  <2>5. CASE Deaf(r)
    BY <2>5 DEF Deaf, vars, history
  <2> QED BY <1>1, <2>1, <2>2, <2>3, <2>4, <2>5
<1>2. ASSUME NEW c \in Conns, ServeFrames(c)
      PROVE  cut' = cut \/ cut' = cut \cup Lost(c)
  <2>1. CASE UNCHANGED vars
    BY <2>1 DEF vars, history
  <2>2. CASE HandleRequest(c)
    BY <2>2 DEF HandleRequest, Handle
  <2>3. CASE ReadPart(c) \/ ReadGarbage(c) \/ ReadGarbled(c) \/ ReadEnd(c)
    BY <2>3 DEF ReadPart, ReadGarbage, ReadGarbled, ReadEnd, EndTask, history
  <2>4. CASE TakeBroadcast(c)
    BY <2>4 DEF TakeBroadcast, Deliver, DropRead
  <2>5. CASE Lag(c)
    BY <2>5 DEF Lag, LagTo, DropRead
  <2>6. CASE Respond(c) \/ RespondFails(c)
    BY <2>6 DEF Respond, RespondFails, history
  <2> QED BY <1>2, <2>1, <2>2, <2>3, <2>4, <2>5, <2>6
          DEF ServeFrames, StoreFrame, Answered, Others, WithoutRequest
<1>3. CASE Draw \/ UNCHANGED rvars
  <2>1. UNCHANGED vars
    BY <1>3 DEF Draw, Look, Skip, Upload, UploadAs, Drawn, Rendered, rvars
  <2> QED BY <2>1 DEF vars, history
<1>4. CASE Accepts \/ Restarts
  BY <1>4 DEF Accepts, Restarts, Accepting, CheckRunning, Accept, Spawn, Start, history
<1>5. CASE Dies
  BY <1>5 DEF Dies, Crash
<1> QED BY <1>1, <1>2, <1>3, <1>4, <1>5 DEF RNext

LEMMA FinishesStep == Finishes /\ [RNext]_rvars => Finishes'
<1> SUFFICES ASSUME Finishes, [RNext]_rvars, NEW c \in Conns
             PROVE  <<c, "send">> \notin cut' /\ <<c, "receive">> \notin cut'
  BY DEF Finishes, Dropped, Whole
<1>1. <<c, "send">> \notin cut /\ <<c, "receive">> \notin cut
  BY DEF Finishes, Dropped, Whole
<1>2. \A d : <<c, "send">> \notin Lost(d) /\ <<c, "receive">> \notin Lost(d)
  BY DEF Lost
<1> QED BY <1>1, <1>2, CutOnlyReads

\* Of a connection's frames the last may be unserved; if it was lost no line is on
\* its way any more.  The others are answered, and all that are served if the
\* program is sending or the last is not served.
Replied(c, i) == \E j \in DOMAIN got[c] : got[c][j] = <<"reply", served[c][i]>>
AllReplied(c) == \A i \in 1..Len(served[c]) : Replied(c, i)
Unhandled(c) == Len(sent[c]) = Len(served[c]) + 1
Serial(c) ==
  /\ Unhandled(c) \/ Len(sent[c]) = Len(served[c])
  /\ \A i \in 1..Len(served[c]) : served[c][i] = sent[c][i]
  /\ Dropped(c, "stray") => Dropped(c, "read")
  /\ Dropped(c, "read") => /\ Unhandled(c) /\ Len(wr[c]) < 2 /\ inpart[c] = <<>>
                           /\ \A k \in 1..Len(up[c]) : up[c][k].end
  /\ wr[c] # <<>> => (Unhandled(c) <=> Len(wr[c]) = 1)
  /\ wr[c] # <<>> \/ Unhandled(c) => AllReplied(c)
  /\ \A i \in 1..(Len(served[c]) - 1) : Replied(c, i)

\* A program has its connection for itself, begins a frame when the last one is
\* answered, and leaves a connection that has ended.
Alike(r) ==
  conn[r] # 0 =>
    /\ client[conn[r]] # "none"
    /\ \A q \in Renderers : conn[q] = conn[r] => q = r
    /\ at[r] # "waiting" => AllReplied(conn[r])
    /\ at[r] = "connect" => task[conn[r]] = "ended"
    /\ at[r] = "ready" => wr[conn[r]] = <<>> /\ ~Unhandled(conn[r])
    /\ at[r] = "sending" => wr[conn[r]] # <<>>
    /\ at[r] = "waiting" => wr[conn[r]] = <<>>

SerialInv ==
  ProgramInv /\ (\A c \in Conns : Serial(c)) /\ (\A r \in Renderers : Alike(r))

LEMMA SerialInit == RInit => SerialInv
<1> SUFFICES ASSUME RInit PROVE SerialInv
  OBVIOUS
<1>1. \A c \in Conns : sent[c] = <<>> /\ served[c] = <<>> /\ wr[c] = <<>>
                       /\ ~Dropped(c, "read") /\ ~Dropped(c, "stray")
  BY DEF RInit, Init, Dropped
<1>2. \A c \in Conns : Serial(c)
  BY <1>1 DEF Serial, Unhandled, AllReplied
<1>3. \A r \in Renderers : conn[r] = 0
  BY DEF RInit
<1> QED BY <1>2, <1>3, ProgramInit DEF SerialInv, Alike

\* What was sent, written, served and answered stays.
Stays(d) ==
  sent'[d] = sent[d] /\ served'[d] = served[d] /\ got'[d] = got[d] /\ wr'[d] = wr[d]

LEMMA SerialStays ==
  ASSUME NEW d \in Conns, Serial(d), Stays(d),
         Dropped(d, "read")' <=> Dropped(d, "read"),
         Dropped(d, "stray")' <=> Dropped(d, "stray"),
         Dropped(d, "read") => inpart'[d] = <<>> /\ \A k \in 1..Len(up'[d]) : up'[d][k].end
  PROVE  Serial(d)'
<1>1. /\ Unhandled(d)' <=> Unhandled(d)
      /\ AllReplied(d)' <=> AllReplied(d)
      /\ \A i : Replied(d, i)' <=> Replied(d, i)
  BY DEF Stays, Unhandled, AllReplied, Replied
<1> QED BY <1>1 DEF Serial, Stays

LEMMA StillSerial ==
  ASSUME NEW d \in Conns, Serial(d), Still(d)
  PROVE  Serial(d)' /\ Stays(d)
<1>1. /\ Stays(d) /\ inpart'[d] = inpart[d] /\ up'[d] = up[d]
      /\ Dropped(d, "read")' <=> Dropped(d, "read")
      /\ Dropped(d, "stray")' <=> Dropped(d, "stray")
  BY DEF Still, Stays, Dropped
<1>2. Dropped(d, "read") => inpart'[d] = <<>> /\ \A k \in 1..Len(up'[d]) : up'[d][k].end
  BY <1>1 DEF Serial
<1> QED BY <1>1, <1>2, SerialStays

\* A connection that was made or has ended remains so.
Remains(d) ==
  /\ client[d] # "none" => client'[d] # "none"
  /\ task[d] = "ended" /\ client[d] # "none" => task'[d] = "ended"

LEMMA AlikeStays ==
  ASSUME ProgramInv, NEW r \in Renderers, Alike(r), UNCHANGED <<at, conn>>,
         \A d \in Conns : Stays(d) /\ Remains(d)
  PROVE  Alike(r)'
<1>1. CASE conn[r] = 0
  BY <1>1 DEF Alike
<1>2. CASE conn[r] # 0
  <2>1. PICK d \in Conns : d = conn[r]
    BY <1>2 DEF ProgramInv
  <2>2. Stays(d) /\ Remains(d)
    OBVIOUS
  <2>3. (Unhandled(d)' <=> Unhandled(d)) /\ (AllReplied(d)' <=> AllReplied(d))
    BY <2>2 DEF Stays, Unhandled, AllReplied, Replied
  <2> QED BY <2>1, <2>2, <2>3 DEF Alike, Stays, Remains
<1> QED BY <1>1, <1>2

\* Where one frame is on its way and its read is dropped, none comes any more.
LEMMA LostSerial ==
  ASSUME LinkInv, NEW c \in Conns, Serial(c), ~Dropped(c, "send"),
         TakeBroadcast(c) \/ Lag(c)
  PROVE  Serial(c)' /\ Stays(c)
<1>1. Typing /\ Sound(c)
  BY DEF LinkInv
<1>2. /\ inpart' = [inpart EXCEPT ![c] = <<>>] /\ cut' = cut \cup Lost(c)
      /\ UNCHANGED <<calling, streams, sent, served, got>>
      /\ task[c] \in {"open", "garbled"}
  BY DEF TakeBroadcast, CanTake, Deliver, Lag, LagTo, DropRead, Selecting, Running
<1>3. inpart'[c] = <<>> /\ up'[c] = up[c] /\ Stays(c)
  BY <1>1, <1>2 DEF Typing, Stays, calling, streams
<1>4. inpart[c] \in Seq(Sends) /\ up[c] \in Seq(Sends)
      /\ sent[c] \in Seq(Messages) /\ served[c] \in Seq(Messages)
  BY <1>1, ConnTypes
<1>5. task[c] = "garbled" => Dropped(c, "read")
  BY <1>1 DEF Sound, Caused, Damaged, Dropped
<1>6. /\ Dropped(c, "read")' <=> Dropped(c, "read") \/ inpart[c] # <<>>
      /\ Dropped(c, "stray")' <=> Dropped(c, "stray") \/ task[c] = "garbled"
  BY <1>2 DEF Dropped, Lost
<1>7. CASE Dropped(c, "read")
  <2>1. Dropped(c, "read")' /\ (Dropped(c, "stray")' => Dropped(c, "read")')
    BY <1>6, <1>7
  <2>2. /\ Unhandled(c)' <=> Unhandled(c)
        /\ AllReplied(c)' <=> AllReplied(c)
        /\ \A i : Replied(c, i)' <=> Replied(c, i)
    BY <1>3 DEF Stays, Unhandled, AllReplied, Replied
  <2> QED BY <1>3, <1>7, <2>1, <2>2 DEF Serial, Stays
<1>8. CASE ~Dropped(c, "read") /\ inpart[c] = <<>>
  <2>1. task[c] # "garbled"
    BY <1>5, <1>8
  <2> QED BY <1>3, <1>6, <1>8, <2>1, SerialStays
<1>9. CASE ~Dropped(c, "read") /\ inpart[c] # <<>>
  <2>1. ~Dropped(c, "stray") /\ task[c] = "open"
    BY <1>2, <1>5, <1>9 DEF Serial
  <2>2. PICK t, a, v : t = Coming(c) /\ a = sent[c] /\ v = served[c]
    OBVIOUS
  <2>3. Track(t, a, v)
    BY <1>1, <1>9, <2>1, <2>2 DEF Sound, Tracked, Unserved
  <2>4. PICK x, u : x = inpart[c] /\ u = up[c]
    OBVIOUS
  <2>5. /\ x \in Seq(Sends) /\ u \in Seq(Sends) /\ a \in Seq(Messages) /\ v \in Seq(Messages)
        /\ x # <<>> /\ NoEnd(x)
    BY <1>1, <1>4, <1>9, <2>2, <2>4 DEF Sound, Shape
  <2>6. t = x \o u
    BY <2>2, <2>4 DEF Coming
  <2>7. /\ Len(t) = Len(x) + Len(u)
        /\ \A j \in 1..Len(x) : t[j] = x[j]
        /\ \A j \in 1..Len(u) : t[Len(x) + j] = u[j]
    <3>1. /\ Len(x \o u) = Len(x) + Len(u)
          /\ \A j \in 1..Len(x) : (x \o u)[j] = x[j]
          /\ \A j \in 1..Len(u) : (x \o u)[Len(x) + j] = u[j]
      BY ONLY <2>5, JoinFacts
    <3> QED BY <2>6, <3>1
  <2>8. /\ Len(x) \in Nat /\ Len(u) \in Nat /\ Len(a) \in Nat /\ Len(v) \in Nat
        /\ 1 \in 1..Len(x) /\ 1 \in 1..Len(t) /\ ~t[1].end
    <3>1. Len(x) \in Nat /\ Len(u) \in Nat /\ 1 \in 1..Len(x) /\ 1 \in DOMAIN x
      BY <2>5
    <3>2. 1 \in 1..Len(t) /\ t[1] = x[1]
      BY <2>7, <3>1
    <3> QED BY <2>5, <3>1, <3>2 DEF NoEnd
  <2>9. Unhandled(c) /\ Len(a) - Len(v) = 1
    <3>1. Len(a) - Len(v) # 0
      <4>1. SUFFICES ASSUME Len(a) - Len(v) = 0 PROVE FALSE
        OBVIOUS
      <4>2. \A k \in 1..Len(t) : t[k].end \/ \E i \in 1..0 : TRUE
        BY <2>3, <4>1 DEF Track
      <4>3. 1..0 = {}
        OBVIOUS
      <4> QED BY <2>8, <4>2, <4>3
    <3>2. Len(a) = Len(v) + 1 \/ Len(a) = Len(v)
      BY <2>2 DEF Serial, Unhandled
    <3>3. Len(a) = Len(v) + 1 /\ Len(a) - Len(v) = 1
      BY <2>8, <3>1, <3>2
    <3> QED BY <2>2, <3>3 DEF Unhandled
  <2>10. PICK p \in [1..1 -> 1..Len(t)] : \A k \in 1..Len(t) : t[k].end \/ p[1] = k
    <3>a. \E p \in [1..(Len(a) - Len(v)) -> 1..Len(t)] :
            \A k \in 1..Len(t) : t[k].end \/ \E i \in 1..(Len(a) - Len(v)) : p[i] = k
      BY <2>3 DEF Track
    <3>1. PICK p \in [1..1 -> 1..Len(t)] :
            \A k \in 1..Len(t) : t[k].end \/ \E i \in 1..1 : p[i] = k
      BY <2>9, <3>a
    <3>2. \A i \in 1..1 : i = 1
      OBVIOUS
    <3> QED BY <3>1, <3>2
  <2>11. ASSUME NEW k \in 1..Len(u) PROVE u[k].end
    <3>1. Len(x) + k \in 1..Len(t) /\ Len(x) + k # 1 /\ t[Len(x) + k] = u[k]
      BY <2>7, <2>8
    <3> QED BY <2>8, <2>10, <3>1
  <2>12. Len(wr[c]) < 2
    <3>1. wr[c] # <<>> => Len(wr[c]) = 1
      BY <2>9 DEF Serial
    <3>2. wr[c] = <<>> => Len(wr[c]) = 0
      OBVIOUS
    <3>3. Len(wr[c]) = 0 \/ Len(wr[c]) = 1
      BY <3>1, <3>2
    <3>4. 0 < 2 /\ 1 < 2
      OBVIOUS
    <3> QED BY <3>3, <3>4
  <2>13. /\ Unhandled(c)' <=> Unhandled(c)
         /\ AllReplied(c)' <=> AllReplied(c)
         /\ \A i : Replied(c, i)' <=> Replied(c, i)
    BY <1>3 DEF Stays, Unhandled, AllReplied, Replied
  <2>14. Dropped(c, "read")' /\ ~Dropped(c, "stray")'
    BY <1>6, <1>9, <2>1
  <2> QED BY <1>3, <2>4, <2>9, <2>11, <2>12, <2>13, <2>14 DEF Serial, Stays
<1> QED BY <1>3, <1>7, <1>8, <1>9

\* The other steps of a task that handle nothing.
LEMMA TaskSerial ==
  ASSUME LinkInv, NEW c \in Conns, Serial(c), ~Dropped(c, "send"), WithoutRequest(c)
  PROVE  Alone(c) /\ Serial(c)' /\ Stays(c) /\ task[c] # "ended"
<1>1. Typing /\ Sound(c) /\ inpart[c] \in Seq(Sends) /\ up[c] \in Seq(Sends)
  BY ConnTypes DEF LinkInv
<1>2. Alone(c)
  BY ReadPartSound, GarbageSound, EndSound, DropReadSound, RespondSound DEF WithoutRequest
<1>3. task[c] # "ended"
  BY DEF WithoutRequest, ReadPart, ReadGarbage, LineRead, ReadGarbled, ReadEnd, TakeBroadcast,
         CanTake, Lag, LagTo, Respond, RespondFails, Selecting, Running
<1>4. CASE TakeBroadcast(c) \/ Lag(c)
  BY <1>2, <1>3, <1>4, LostSerial
<1>5. ASSUME UNCHANGED <<calling, sent, served, got, cut>>,
             Dropped(c, "read") => inpart'[c] = <<>> /\ \A k \in 1..Len(up'[c]) : up'[c][k].end
      PROVE  Serial(c)' /\ Stays(c)
  BY <1>5, SerialStays DEF calling, Stays, Dropped
<1>6. CASE ReadPart(c)
  <2>1. up[c] # <<>> /\ NoEnd(up[c]) /\ UNCHANGED <<calling, sent, served, got, cut>>
    BY <1>6 DEF ReadPart, history
  <2>2. 1 \in 1..Len(up[c]) /\ 1 \in DOMAIN up[c]
    BY <1>1, <2>1
  <2>3. ~Dropped(c, "read")
    BY <2>1, <2>2 DEF Serial, NoEnd
  <2> QED BY <1>2, <1>3, <1>5, <2>1, <2>3
<1>7. CASE ReadGarbage(c)
  <2>1. PICK k \in DOMAIN up[c] : up' = [up EXCEPT ![c] = Left(@, k)]
    BY <1>7 DEF ReadGarbage
  <2>2. inpart' = [inpart EXCEPT ![c] = <<>>] /\ UNCHANGED <<calling, sent, served, got, cut>>
    BY <1>7 DEF ReadGarbage, history
  <2>3. inpart'[c] = <<>> /\ up'[c] = Left(up[c], k)
    BY <1>1, <2>1, <2>2 DEF Typing
  <2>4. /\ k \in 0..Len(up[c]) /\ k \in Nat /\ Len(up[c]) \in Nat
        /\ Len(Left(up[c], k)) = Len(up[c]) - k
        /\ \A i \in 1..(Len(up[c]) - k) : Left(up[c], k)[i] = up[c][k + i]
    <3>1. k \in 0..Len(up[c]) /\ k \in Nat /\ Len(up[c]) \in Nat
      BY <1>1
    <3> QED BY <1>1, <3>1, SplitFacts
  <2>5. ASSUME Dropped(c, "read"), NEW i \in 1..Len(up'[c]) PROVE up'[c][i].end
    <3>1. i \in 1..(Len(up[c]) - k) /\ k + i \in 1..Len(up[c])
      BY <2>3, <2>4
    <3> QED BY <2>3, <2>4, <2>5, <3>1 DEF Serial
  <2> QED BY <1>2, <1>3, <1>5, <2>2, <2>3, <2>5
<1>8. CASE ReadGarbled(c)
  <2>1. /\ up' = [up EXCEPT ![c] = <<>>] /\ UNCHANGED <<calling, inpart, sent, served, got, cut>>
    BY <1>8 DEF ReadGarbled, history
  <2>2. up'[c] = <<>> /\ Len(<<>>) = 0 /\ 1..0 = {}
    BY <1>1, <2>1 DEF Typing
  <2>3. Dropped(c, "read") => inpart'[c] = <<>> /\ \A k \in 1..Len(up'[c]) : up'[c][k].end
    BY <2>1, <2>2 DEF Serial
  <2> QED BY <1>2, <1>3, <1>5, <2>1, <2>3
<1>9. CASE ReadEnd(c) \/ Respond(c) \/ RespondFails(c)
  <2>1. /\ UNCHANGED <<calling, up, sent, served, got, cut>>
        /\ inpart' = inpart \/ inpart' = [inpart EXCEPT ![c] = <<>>]
    BY <1>9 DEF ReadEnd, EndTask, Respond, RespondFails, streams, history
  <2>2. inpart'[c] = inpart[c] \/ inpart'[c] = <<>>
    BY <1>1, <2>1 DEF Typing
  <2>3. Dropped(c, "read") => inpart'[c] = <<>> /\ \A k \in 1..Len(up'[c]) : up'[c][k].end
    BY <2>1, <2>2 DEF Serial
  <2> QED BY <1>2, <1>3, <1>5, <2>1, <2>3
<1> QED BY <1>4, <1>6, <1>7, <1>8, <1>9 DEF WithoutRequest

\* The frame that is handled is the one on its way, all of which was written.
LEMMA HandleSerial ==
  ASSUME LinkInv, NEW c \in Conns, Serial(c), ~Dropped(c, "send"), HandleRequest(c)
  PROVE  /\ Alone(c) /\ Serial(c)' /\ task[c] # "ended"
         /\ Unhandled(c) /\ wr[c] = <<>> /\ wr'[c] = <<>> /\ client'[c] = client[c]
<1>1. Typing /\ Sound(c)
  BY DEF LinkInv
<1>2. PICK k \in DOMAIN up[c] : LineRead(c, k) /\ IsWhole(c, k) /\ Handle(c, k, Answer(c, k))
  BY DEF HandleRequest
<1>3. PICK t, h, r, m, a, v :
        /\ t = Coming(c) /\ h = inpart[c] \o Taken(up[c], k) /\ r = Left(up[c], k)
        /\ m = up[c][k].item[2] /\ a = sent[c] /\ v = served[c]
  OBVIOUS
<1>4. ReadsTo(t, h, r, up[c][k])
  BY <1>2, <1>3, AtLineEnd
<1>5. m \in Messages /\ LineThen(t, m, r)
  <2>1. h = Line(up[c][k].item)
    BY <1>2, <1>3 DEF IsWhole
  <2> QED BY <1>3, <1>4, <2>1, WholeFacts
<1>6. /\ t \in Seq(Sends) /\ r \in Seq(Sends) /\ a \in Seq(Messages) /\ v \in Seq(Messages)
      /\ inpart[c] \in Seq(Sends) /\ up[c] \in Seq(Sends)
  BY <1>1, <1>3, <1>4, ConnTypes DEF ReadsTo
<1>7. /\ served' = [served EXCEPT ![c] = Append(v, m)]
      /\ UNCHANGED <<accepting, task, calling, sent, got, cut>>
      /\ task[c] = "open"
  BY <1>2, <1>3 DEF Handle, LineRead
<1>8. Alone(c)
  BY HandleSound
<1>9. t # <<>> /\ ~t[1].end /\ 1 \in 1..Len(t) /\ Len(t) \in Nat /\ Len(t) # 1
  <2>1. t # <<>> /\ ~t[1].end
    BY <1>5, <1>6, RestFacts
  <2>2. Len(t) = Len(r) + 2 /\ Len(r) \in Nat
    BY <1>5, <1>6 DEF LineThen
  <2> QED BY <2>1, <2>2
<1>10. ~Dropped(c, "read") /\ ~Dropped(c, "stray")
  <2>1. SUFFICES ASSUME Dropped(c, "read") PROVE FALSE
    BY DEF Serial
  <2>2. inpart[c] = <<>> /\ \A i \in 1..Len(up[c]) : up[c][i].end
    BY <2>1 DEF Serial
  <2>3. t = up[c]
    <3>1. <<>> \o up[c] = up[c]
      BY ONLY <1>6, NothingBefore
    <3> QED BY <1>3, <2>2, <3>1 DEF Coming
  <2> QED BY <1>9, <2>2, <2>3
<1>11. Track(t, a, v)
  BY <1>1, <1>3, <1>7, <1>10 DEF Sound, Tracked, Unserved
<1>12. Len(v) < Len(a) /\ a[Len(v) + 1] = m
  BY <1>5, <1>6, <1>11, TrackHandled
<1>13. Len(a) = Len(v) + 1 /\ Unhandled(c) /\ Len(v) \in Nat
  <2>1. Len(a) = Len(v) + 1 \/ Len(a) = Len(v)
    BY <1>3 DEF Serial, Unhandled
  <2>2. Len(a) \in Nat /\ Len(v) \in Nat
    BY <1>6
  <2> QED BY <1>3, <1>12, <2>1, <2>2 DEF Unhandled
<1>14. wr[c] = <<>>
  <2>1. SUFFICES ASSUME wr[c] # <<>> PROVE FALSE
    OBVIOUS
  <2>2. Len(wr[c]) = 1 /\ client[c] # "closed"
    BY <1>1, <1>13, <2>1 DEF Serial, Sound, Shape
  <2>3. ~Damaged(c)
    BY <1>10 DEF Damaged, Dropped
  <2>4. ~t[Len(t)].end
    BY <1>1, <1>3, <1>7, <2>2, <2>3 DEF Sound, Aligned, Unserved
  <2>5. \E p \in [1..(Len(a) - Len(v)) -> 1..Len(t)] :
          \A j \in 1..Len(t) : t[j].end \/ \E i \in 1..(Len(a) - Len(v)) : p[i] = j
    BY <1>11 DEF Track
  <2>6. Len(a) - Len(v) = 1
    BY <1>13
  <2>a. \A i \in 1..1 : i = 1
    OBVIOUS
  <2>7. PICK p \in [1..1 -> 1..Len(t)] :
          \A j \in 1..Len(t) : t[j].end \/ \E i \in 1..1 : p[i] = j
    BY <2>5, <2>6
  <2>8. p[1] = 1 /\ p[1] = Len(t)
    <3>1. 1 \in 1..Len(t) /\ Len(t) \in 1..Len(t)
      BY <1>9
    <3> QED BY <1>9, <2>a, <2>4, <2>7, <3>1
  <2> QED BY <1>9, <2>8
<1>15. /\ served'[c] = Append(v, m) /\ sent'[c] = a /\ got'[c] = got[c]
       /\ wr'[c] = <<>> /\ client'[c] = client[c]
       /\ ~Dropped(c, "read")' /\ ~Dropped(c, "stray")'
  BY <1>1, <1>3, <1>7, <1>10, <1>14 DEF Typing, Dropped, calling
<1>16. /\ Len(served'[c]) = Len(v) + 1 /\ served'[c][Len(v) + 1] = m
       /\ \A i \in 1..Len(v) : served'[c][i] = v[i]
  <2>1. /\ Len(Append(v, m)) = Len(v) + 1 /\ Append(v, m)[Len(v) + 1] = m
        /\ \A i \in 1..Len(v) : Append(v, m)[i] = v[i]
    BY ONLY <1>5, <1>6
  <2> QED BY <1>15, <2>1
<1>17. Len(sent'[c]) = Len(served'[c]) /\ ~Unhandled(c)'
  BY <1>13, <1>15, <1>16 DEF Unhandled
<1>18. \A i \in 1..Len(served'[c]) : served'[c][i] = sent'[c][i]
  <2>1. \A i \in 1..(Len(v) + 1) : i \in 1..Len(v) \/ i = Len(v) + 1
    BY <1>13
  <2>2. \A i \in 1..Len(v) : v[i] = a[i]
    BY <1>3 DEF Serial
  <2> QED BY <1>12, <1>15, <1>16, <2>1, <2>2
<1>19. \A i \in 1..(Len(served'[c]) - 1) : Replied(c, i)'
  <2>1. Len(served'[c]) - 1 = Len(v)
    BY <1>13, <1>16
  <2>2. \A i \in 1..Len(v) : Replied(c, i)
    BY <1>3, <1>13 DEF Serial, AllReplied
  <2>3. \A i \in 1..Len(v) : Replied(c, i)'
    BY <1>3, <1>15, <1>16, <2>2 DEF Replied
  <2> QED BY <2>1, <2>3
<1>20. Serial(c)'
  BY <1>15, <1>17, <1>18, <1>19 DEF Serial
<1> QED BY <1>7, <1>8, <1>13, <1>14, <1>15, <1>20

\* A step over connection c leaves the frames of the others alone, and what their
\* programs do.
LEMMA ElseSerial ==
  ASSUME SerialInv, NEW c \in Conns, Alone(c), Serial(c)'
  PROVE  \A d \in Conns : Serial(d)'
<1> SUFFICES ASSUME NEW d \in Conns, d # c PROVE Serial(d)'
  OBVIOUS
<1> QED BY StillSerial DEF SerialInv, Alone

LEMMA ElseAlike ==
  ASSUME SerialInv, NEW c \in Conns, Alone(c), UNCHANGED conn,
         NEW q \in Renderers, conn[q] # c, at'[q] = at[q]
  PROVE  Alike(q)'
<1>1. Alike(q) /\ ProgramInv
  BY DEF SerialInv
<1>2. CASE conn[q] = 0
  BY <1>1, <1>2 DEF Alike
<1>3. CASE conn[q] # 0
  <2>1. PICK d \in Conns \ {c} : d = conn[q]
    BY <1>1, <1>3 DEF ProgramInv
  <2>2. Still(d)
    BY DEF Alone
  <2>3. Serial(d)
    BY DEF SerialInv
  <2>4. Stays(d)
    BY <2>2, <2>3, StillSerial
  <2>5. (Unhandled(d)' <=> Unhandled(d)) /\ (AllReplied(d)' <=> AllReplied(d))
    BY <2>4 DEF Stays, Unhandled, AllReplied, Replied
  <2> QED BY <1>1, <2>1, <2>2, <2>4, <2>5 DEF Alike, Stays, Still
<1> QED BY <1>2, <1>3

\* Where its own connection is concerned, a program's step is judged by itself.
LEMMA OwnSerial ==
  ASSUME SerialInv, NEW r \in Renderers, conn[r] \in Conns, Alone(conn[r]),
         Serial(conn[r])', UNCHANGED conn, NEW p, at' = [at EXCEPT ![r] = p], Alike(r)'
  PROVE  (\A d \in Conns : Serial(d)') /\ (\A q \in Renderers : Alike(q)')
<1>1. \A d \in Conns : Serial(d)'
  BY ElseSerial
<1>2. ASSUME NEW q \in Renderers, q # r PROVE Alike(q)'
  <2>1. at'[q] = at[q]
    BY <1>2 DEF SerialInv, ProgramInv
  <2>2. conn[q] # conn[r]
    <3>1. conn[r] # 0
      BY DEF Conns
    <3> QED BY <1>2, <3>1 DEF SerialInv, Alike
  <2> QED BY <2>1, <2>2, ElseAlike
<1> QED BY <1>1, <1>2

LEMMA JoinSerial ==
  ASSUME LinkInv, SerialInv, NEW r \in Renderers, Join(r)
  PROVE  (\A d \in Conns : Serial(d)') /\ (\A q \in Renderers : Alike(q)')
<1>1. PICK c \in Conns : Connect(c) /\ conn' = [conn EXCEPT ![r] = c]
  BY DEF Join
<1>2. at' = [at EXCEPT ![r] = "ready"] /\ ProgramInv /\ Typing /\ Sound(c)
  BY DEF Join, Goto, SerialInv, LinkInv
<1>3. /\ client[c] = "none" /\ client' = [client EXCEPT ![c] = "open"]
      /\ wr' = [wr EXCEPT ![c] = <<>>]
      /\ UNCHANGED <<task, inpart, up, sent, served, got, cut>>
  BY <1>1 DEF Connect, ConnectToSend, serving, streams, history
<1>4. /\ wr[c] = <<>> /\ task[c] = "none" /\ sent[c] = <<>> /\ served[c] = <<>>
  BY <1>2, <1>3 DEF Sound, Shape, Untouched
<1>5. \A d \in Conns : Stays(d) /\ Remains(d) /\ wr'[d] = wr[d]
  BY <1>2, <1>3, <1>4 DEF Typing, Stays, Remains
<1>6. ASSUME NEW d \in Conns PROVE Serial(d)'
  <2>1. Serial(d) /\ Stays(d)
    BY <1>5 DEF SerialInv
  <2>2. Dropped(d, "read") => inpart'[d] = <<>> /\ \A k \in 1..Len(up'[d]) : up'[d][k].end
    BY <1>3, <2>1 DEF Serial
  <2> QED BY <1>3, <2>1, <2>2, SerialStays DEF Dropped
<1>7. \A q \in Renderers : Alike(q) /\ conn[q] # c
  BY <1>3 DEF SerialInv, Alike, Conns
<1>8. conn'[r] = c /\ at'[r] = "ready" /\ client'[c] # "none"
  BY <1>1, <1>2, <1>3 DEF ProgramInv, Typing
<1>9. \A q \in Renderers \ {r} : conn'[q] = conn[q] /\ at'[q] = at[q]
  BY <1>1, <1>2 DEF ProgramInv
<1>10. Alike(r)'
  <2>1. wr'[c] = <<>> /\ sent'[c] = <<>> /\ served'[c] = <<>>
    BY <1>3, <1>4, <1>5
  <2>2. ~Unhandled(c)' /\ AllReplied(c)'
    BY <2>1 DEF Unhandled, AllReplied
  <2>3. \A q \in Renderers : conn'[q] = conn'[r] => q = r
    BY <1>7, <1>8, <1>9
  <2> QED BY <1>8, <2>1, <2>2, <2>3 DEF Alike
<1>11. ASSUME NEW q \in Renderers \ {r} PROVE Alike(q)'
  <2>1. CASE conn[q] = 0
    BY <1>9, <2>1 DEF Alike
  <2>2. CASE conn[q] # 0
    <3>1. PICK d \in Conns : d = conn[q] /\ d # c
      BY <1>2, <1>7, <2>2 DEF ProgramInv
    <3>2. Stays(d) /\ Remains(d) /\ conn'[q] = d /\ at'[q] = at[q]
      BY <1>5, <1>9, <3>1
    <3>3. (Unhandled(d)' <=> Unhandled(d)) /\ (AllReplied(d)' <=> AllReplied(d))
      BY <3>2 DEF Stays, Unhandled, AllReplied, Replied
    <3>4. \A x \in Renderers : conn'[x] = conn'[q] => x = q
      BY <1>7, <1>8, <1>9, <2>2, <3>1, <3>2 DEF Alike
    <3> QED BY <1>7, <2>2, <3>1, <3>2, <3>3, <3>4 DEF Alike, Stays, Remains
  <2> QED BY <2>1, <2>2
<1> QED BY <1>6, <1>10, <1>11

\* A frame is begun when the last one is answered.
LEMMA FrameSerial ==
  ASSUME LinkInv, SerialInv, NEW r \in Renderers, NEW m \in Messages, NextFrame(r, m)
  PROVE  (\A d \in Conns : Serial(d)') /\ (\A q \in Renderers : Alike(q)')
<1>1. /\ ProgramInv /\ at[r] = "ready" /\ BeginSend(conn[r], m) /\ UNCHANGED conn
      /\ at' = [at EXCEPT ![r] = "sending"]
  BY DEF NextFrame, Goto, SerialInv
<1>2. PICK c \in Conns : c = conn[r]
  BY <1>1 DEF ProgramInv
<1>3. Typing /\ Serial(c) /\ Alike(r) /\ c # 0 /\ Alone(c)
  BY <1>1, <1>2, BeginSendSound DEF LinkInv, SerialInv, Conns
<1>4. /\ wr' = [wr EXCEPT ![c] = Line(<<"request", m>>)]
      /\ UNCHANGED <<inpart, up, sent, served, got, cut, client>>
  BY <1>1, <1>2 DEF BeginSend, serving, streams, history
<1>5. wr'[c] = Line(<<"request", m>>) /\ Len(wr'[c]) = 2 /\ wr'[c] # <<>>
  <2>1. \A i : Len(Line(i)) = 2 /\ Line(i) # <<>>
    BY DEF Line
  <2> QED BY <1>3, <1>4, <2>1 DEF Typing
<1>6. ~Unhandled(c) /\ AllReplied(c) /\ client[c] # "none"
  BY <1>1, <1>2, <1>3 DEF Alike
<1>7. /\ Unhandled(c)' <=> Unhandled(c)
      /\ AllReplied(c)' <=> AllReplied(c)
      /\ \A i : Replied(c, i)' <=> Replied(c, i)
  BY <1>4 DEF Unhandled, AllReplied, Replied
<1>8. Serial(c)'
  <2>1. ~Dropped(c, "read")
    BY <1>3, <1>6 DEF Serial
  <2>2. Len(wr'[c]) # 1
    BY <1>5
  <2> QED BY <1>3, <1>4, <1>5, <1>6, <1>7, <2>1, <2>2 DEF Serial, Dropped
<1>9. Alike(r)'
  <2>1. at'[r] = "sending" /\ conn'[r] = c
    BY <1>1, <1>2 DEF ProgramInv
  <2> QED BY <1>2, <1>3, <1>4, <1>5, <1>6, <1>7, <1>1, <2>1 DEF Alike
<1> QED BY <1>1, <1>2, <1>3, <1>8, <1>9, OwnSerial

\* A frame is on its way as soon as its first piece is written.
LEMMA BegunSerial ==
  ASSUME NEW c \in Conns, Serial(c), Typing, NEW m \in Messages, Len(wr[c]) = 2,
         wr'[c] \in Seq(Sends), Len(wr'[c]) < 2,
         sent'[c] = Append(sent[c], m), UNCHANGED <<served, got, cut>>
  PROVE  Serial(c)' /\ (AllReplied(c) <=> AllReplied(c)')
<1>1. PICK a, v : a = sent[c] /\ v = served[c]
  OBVIOUS
<1>2. a \in Seq(Messages) /\ v \in Seq(Messages) /\ Len(a) \in Nat /\ Len(v) \in Nat
  BY <1>1 DEF Typing
<1>3. wr[c] # <<>>
  <2>1. wr[c] = <<>> => Len(wr[c]) = 0
    OBVIOUS
  <2> QED BY <2>1
<1>4. ~Unhandled(c) /\ AllReplied(c)
  BY <1>3 DEF Serial
<1>5. Len(a) = Len(v) /\ ~Dropped(c, "read") /\ ~Dropped(c, "stray")
  BY <1>1, <1>4 DEF Serial
<1>6. /\ Len(sent'[c]) = Len(a) + 1
      /\ \A i \in 1..Len(a) : sent'[c][i] = a[i]
  <2>1. /\ Len(Append(a, m)) = Len(a) + 1
        /\ \A i \in 1..Len(a) : Append(a, m)[i] = a[i]
    BY ONLY <1>2, m \in Messages
  <2> QED BY <1>1, <2>1
<1>7. Unhandled(c)' /\ AllReplied(c)' /\ \A i : Replied(c, i)' <=> Replied(c, i)
  BY <1>1, <1>4, <1>5, <1>6 DEF Unhandled, AllReplied, Replied
<1>8. \A i \in 1..Len(served'[c]) : served'[c][i] = sent'[c][i]
  BY <1>1, <1>5, <1>6 DEF Serial
<1>9. wr'[c] # <<>> => Len(wr'[c]) = 1
  <2>1. PICK w \in Seq(Sends) : w = wr'[c]
    OBVIOUS
  <2>2. Len(w) \in Nat /\ (Len(w) = 0 => w = <<>>)
    BY ONLY w \in Seq(Sends)
  <2>3. Len(w) < 2
    BY <2>1
  <2>4. Len(w) = 0 \/ Len(w) = 1
    <3>1. \A l \in Nat : l < 2 => l = 0 \/ l = 1
      BY ONLY TRUE
    <3> QED BY <2>2, <2>3, <3>1
  <2> QED BY ONLY <2>1, <2>2, <2>4
<1>10. \A i \in 1..(Len(served'[c]) - 1) : Replied(c, i)'
  BY <1>7 DEF Serial
<1> QED BY <1>4, <1>5, <1>7, <1>8, <1>9, <1>10 DEF Serial, Dropped

LEMMA SendSerial ==
  ASSUME LinkInv, SerialInv, NEW r \in Renderers, SendFrame(r)
  PROVE  (\A d \in Conns : Serial(d)') /\ (\A q \in Renderers : Alike(q)')
<1>1. /\ ProgramInv /\ at[r] = "sending" /\ UNCHANGED conn
      /\ \/ /\ Write(conn[r])
            /\ at' = [at EXCEPT ![r] = IF wr'[conn[r]] = <<>> THEN "waiting" ELSE "sending"]
         \/ /\ WriteFails(conn[r])
            /\ at' = [at EXCEPT ![r] = "connect"]
  BY DEF SendFrame, Goto, SerialInv
<1>2. PICK c \in Conns : c = conn[r]
  BY <1>1 DEF ProgramInv
<1>3. Typing /\ Sound(c) /\ Serial(c) /\ Alike(r) /\ c # 0
  BY <1>2 DEF LinkInv, SerialInv, Conns
<1>4. /\ wr[c] # <<>> /\ AllReplied(c) /\ client[c] # "none"
      /\ \A q \in Renderers : conn[q] = c => q = r
  BY <1>1, <1>2, <1>3 DEF Alike
<1>5. Alone(c)
  BY <1>1, <1>2, WriteSound, GiveUpSound
<1>6. CASE WriteFails(c)
  <2>1. /\ task[c] = "ended" /\ wr' = [wr EXCEPT ![c] = <<>>]
        /\ UNCHANGED <<task, client, inpart, up, sent, served, got, cut>>
    BY <1>6 DEF WriteFails, serving, streams, history
  <2>2. wr'[c] = <<>> /\ Len(wr'[c]) = 0
    BY <1>3, <2>1 DEF Typing
  <2>3. /\ Unhandled(c)' <=> Unhandled(c)
        /\ AllReplied(c)' <=> AllReplied(c)
        /\ \A i : Replied(c, i)' <=> Replied(c, i)
    BY <2>1 DEF Unhandled, AllReplied, Replied
  <2>4. Serial(c)'
    BY <1>3, <2>1, <2>2, <2>3 DEF Serial, Dropped
  <2>5. at' = [at EXCEPT ![r] = "connect"]
    BY <1>1, <1>2, <1>6, <2>1 DEF Write
  <2>6. Alike(r)'
    <3>1. at'[r] = "connect" /\ conn'[r] = c
      BY <1>1, <1>2, <2>5 DEF ProgramInv
    <3> QED BY <1>1, <1>4, <2>1, <2>3, <3>1 DEF Alike
  <2> QED BY <1>1, <1>2, <1>5, <2>4, <2>5, <2>6, OwnSerial
<1>7. CASE Write(c)
  <2>1. PICK n \in Fits(wr[c], up[c]) :
          /\ up' = [up EXCEPT ![c] = @ \o Taken(wr[c], n)]
          /\ wr' = [wr EXCEPT ![c] = Left(@, n)]
    BY <1>7 DEF Write
  <2>2. /\ sent' = IF wr[c][1].end THEN sent
                   ELSE [sent EXCEPT ![c] = Append(@, wr[c][1].item[2])]
        /\ task[c] # "ended"
        /\ UNCHANGED <<task, client, inpart, served, got, cut>>
    BY <1>7 DEF Write, serving
  <2>3. n \in 1..Len(wr[c]) /\ wr[c] \in Seq(Sends) /\ up[c] \in Seq(Sends)
    BY <1>3, <2>1, FitsFacts, ConnTypes
  <2>4. /\ up'[c] = up[c] \o Taken(wr[c], n) /\ wr'[c] = Left(wr[c], n)
        /\ sent'[c] = IF wr[c][1].end THEN sent[c] ELSE Append(sent[c], wr[c][1].item[2])
    BY <1>3, <2>1, <2>2 DEF Typing
  <2>5. ASSUME NEW q \in Sends, q.end, wr[c] = <<q>>
        PROVE  Serial(c)' /\ AllReplied(c)'
    <3>1. n = 1 /\ wr[c][1] = q /\ Len(wr[c]) = 1
      BY <2>3, <2>5, LengthFacts
    <3>2. Taken(wr[c], n) = <<q>> /\ Left(wr[c], n) = <<>>
      BY <2>5, <3>1, SplitOne
    <3>3. sent'[c] = sent[c] /\ wr'[c] = <<>> /\ up'[c] = Append(up[c], q)
      <4>1. up[c] \o <<q>> = Append(up[c], q)
        BY ONLY <2>3, q \in Sends
      <4> QED BY <2>4, <2>5, <3>1, <3>2, <4>1
    <3>4. Unhandled(c)
      BY <1>3, <1>4, <3>1 DEF Serial
    <3>5. /\ Unhandled(c)' <=> Unhandled(c)
          /\ AllReplied(c)' <=> AllReplied(c)
          /\ \A i : Replied(c, i)' <=> Replied(c, i)
      BY <2>2, <3>3 DEF Unhandled, AllReplied, Replied
    <3>6. ASSUME Dropped(c, "read"), NEW k \in 1..Len(up'[c]) PROVE up'[c][k].end
      <4>1. \A j \in 1..Len(up[c]) : up[c][j].end
        BY <1>3, <3>6 DEF Serial
      <4>2. /\ Len(Append(up[c], q)) = Len(up[c]) + 1 /\ Append(up[c], q)[Len(up[c]) + 1] = q
            /\ \A j \in 1..Len(up[c]) : Append(up[c], q)[j] = up[c][j]
        BY ONLY <2>3, q \in Sends
      <4>3. k \in 1..Len(up[c]) \/ k = Len(up[c]) + 1
        BY <2>3, <3>3, <4>2
      <4> QED BY <2>5, <3>3, <4>1, <4>2, <4>3
    <3>7. Len(wr'[c]) = 0 /\ Len(wr'[c]) < 2
      BY <3>3
    <3> QED BY <1>3, <1>4, <2>2, <3>3, <3>4, <3>5, <3>6, <3>7 DEF Serial, Dropped
  <2>6. ASSUME NEW m \in Messages, wr[c] = Line(<<"request", m>>)
        PROVE  Serial(c)' /\ AllReplied(c)'
    <3>1. Len(wr[c]) = 2 /\ ~wr[c][1].end /\ wr[c][1].item[2] = m
      BY <2>6 DEF Line
    <3>2. Len(wr'[c]) = Len(wr[c]) - n
      <4>1. n \in 0..Len(wr[c])
        BY <2>3
      <4> QED BY <2>3, <2>4, <4>1, SplitFacts
    <3>3. Len(wr'[c]) < 2 /\ sent'[c] = Append(sent[c], m)
      BY <2>3, <2>4, <3>1, <3>2
    <3>4. wr'[c] \in Seq(Sends)
      <4>1. n \in 0..Len(wr[c])
        BY <2>3
      <4> QED BY <2>3, <2>4, <4>1, SplitFacts
    <3> QED BY <1>3, <1>4, <2>2, <3>1, <3>3, <3>4, BegunSerial
  <2>7. Serial(c)' /\ AllReplied(c)'
    BY <1>3, <1>4, <2>5, <2>6 DEF Sound, Shape
  <2>8. at' = [at EXCEPT ![r] = IF wr'[c] = <<>> THEN "waiting" ELSE "sending"]
    BY <1>1, <1>2, <2>2 DEF WriteFails
  <2>9. Alike(r)'
    <3>1. conn'[r] = c /\ at'[r] = IF wr'[c] = <<>> THEN "waiting" ELSE "sending"
      BY <1>1, <1>2, <2>8 DEF ProgramInv
    <3> QED BY <1>1, <1>4, <2>2, <2>7, <3>1 DEF Alike
  <2> QED BY <1>1, <1>2, <1>5, <2>7, <2>8, <2>9, OwnSerial
<1> QED BY <1>1, <1>2, <1>6, <1>7

\* What a program hears is added to what it has heard.
LEMMA HeardSerial ==
  ASSUME NEW c \in Conns, Serial(c), Typing, NEW i \in Items,
         got'[c] = got[c] \/ got'[c] = Append(got[c], i),
         wr'[c] = wr[c], inpart'[c] = inpart[c], up'[c] = up[c], sent'[c] = sent[c],
         served'[c] = served[c], cut' = cut
  PROVE  /\ Serial(c)' /\ (Unhandled(c)' <=> Unhandled(c))
         /\ AllReplied(c) => AllReplied(c)'
<1>1. \A j \in DOMAIN got[c] : j \in DOMAIN got'[c] /\ got'[c][j] = got[c][j]
  <2>1. got[c] \in Seq(Items)
    BY DEF Typing
  <2> QED BY <2>1
<1>2. \A k : Replied(c, k) => Replied(c, k)'
  BY <1>1 DEF Replied
<1>3. AllReplied(c) => AllReplied(c)'
  BY <1>2 DEF AllReplied
<1>4. Unhandled(c)' <=> Unhandled(c)
  BY DEF Unhandled
<1> QED BY <1>2, <1>3, <1>4 DEF Serial, Dropped

\* The answer it hears is the answer to the last frame.
LEMMA AnswerLast ==
  ASSUME NEW c \in Conns, Serial(c), Typing, NEW i \in Items, IsReply(i),
         got'[c] = Append(got[c], i), served'[c] = served[c], AnswersFirst', Whole(c)'
  PROVE  ~AllReplied(c) /\ ~Unhandled(c) /\ AllReplied(c)'
<1>1. got[c] \in Seq(Items) /\ served[c] \in Seq(Messages)
  BY DEF Typing
<1>2. PICK k : k = Len(got[c]) + 1
  OBVIOUS
<1>3. /\ k \in DOMAIN got'[c] /\ got'[c][k] = i
      /\ \A j \in 1..(k - 1) : j \in DOMAIN got[c] /\ got'[c][j] = got[c][j]
      /\ \A j \in DOMAIN got[c] : j \in 1..(k - 1) /\ j \in DOMAIN got'[c]
  BY <1>1, <1>2
<1>4. PICK n \in DOMAIN served[c] :
        /\ i = <<"reply", served[c][n]>>
        /\ ~\E j \in 1..(k - 1) : got'[c][j] = <<"reply", served[c][n]>>
  <2>1. \A l \in DOMAIN got'[c] : IsReply(got'[c][l]) =>
          \E n \in DOMAIN served'[c] :
            /\ got'[c][l] = <<"reply", served'[c][n]>>
            /\ ~\E j \in 1..(l - 1) : got'[c][j] = <<"reply", served'[c][n]>>
    BY ZenonT(30) DEF AnswersFirst
  <2>2. \E n \in DOMAIN served'[c] :
            /\ got'[c][k] = <<"reply", served'[c][n]>>
            /\ ~\E j \in 1..(k - 1) : got'[c][j] = <<"reply", served'[c][n]>>
    BY <1>3, <2>1
  <2> QED BY <1>3, <2>2
<1>5. n \in 1..Len(served[c]) /\ ~Replied(c, n)
  <2>1. n \in 1..Len(served[c])
    BY <1>1
  <2>2. \A j \in DOMAIN got[c] : got[c][j] # <<"reply", served[c][n]>>
    <3>1. SUFFICES ASSUME NEW j \in DOMAIN got[c], got[c][j] = <<"reply", served[c][n]>>
                   PROVE  FALSE
      OBVIOUS
    <3>2. j \in 1..(k - 1) /\ got'[c][j] = got[c][j]
      BY <1>3
    <3> QED BY <1>4, <3>1, <3>2
  <2> QED BY <2>1, <2>2 DEF Replied
<1>6. ~AllReplied(c) /\ ~Unhandled(c)
  BY <1>5 DEF AllReplied, Serial
<1>7. n = Len(served[c])
  <2>1. n \notin 1..(Len(served[c]) - 1) /\ Len(served[c]) \in Nat
    BY <1>1, <1>5 DEF Serial
  <2> QED BY <1>5, <2>1
<1>8. ASSUME NEW j \in 1..Len(served[c]) PROVE Replied(c, j)'
  <2>1. CASE j = n
    BY <1>3, <1>4, <2>1 DEF Replied
  <2>2. CASE j # n
    <3>1. j \in 1..(Len(served[c]) - 1)
      BY <1>1, <1>7, <2>2
    <3>2. Replied(c, j)
      BY <3>1 DEF Serial
    <3> QED BY <1>3, <3>2 DEF Replied
  <2> QED BY <2>1, <2>2
<1> QED BY <1>6, <1>8 DEF AllReplied

LEMMA HearSerial ==
  ASSUME LinkInv, SerialInv, NEW r \in Renderers, Hear(r), AnswersFirst', Finishes'
  PROVE  (\A d \in Conns : Serial(d)') /\ (\A q \in Renderers : Alike(q)')
<1>1. PICK c \in Conns : c = conn[r]
  BY DEF Hear, Hearing, SerialInv, ProgramInv
<1>2. /\ ProgramInv /\ UNCHANGED conn
      /\ ReceivePart(c) \/ Receive(c)
      /\ at' = [at EXCEPT ![r] = IF got'[c] # got[c] /\ IsReply(got'[c][Len(got'[c])])
                                 THEN "ready" ELSE at[r]]
  BY <1>1 DEF Hear, Hearing, Goto, SerialInv
<1>3. Typing /\ Serial(c) /\ Alike(r) /\ c # 0 /\ Alone(c)
  BY <1>1, <1>2, HearSound DEF LinkInv, SerialInv, Conns
<1>4. /\ UNCHANGED <<task, wr, inpart, up, sent, served, cut>>
      /\ client[c] # "none" /\ client'[c] # "none"
  <2>1. UNCHANGED <<task, wr, inpart, up, sent, served, cut>>
    BY <1>2 DEF ReceivePart, Receive, ReceiveLine, serving, history
  <2>2. client[c] # "none"
    BY <1>1, <1>3 DEF Alike
  <2> QED BY <1>3, <2>1, <2>2 DEF Alone
<1>5. PICK i \in Items : got'[c] = got[c] \/ got'[c] = Append(got[c], i)
  <2>1. CASE ReceivePart(c)
    <3>1. got' = got /\ <<"cast", 0>> \in Items
      BY <2>1 DEF ReceivePart, history, Items
    <3> QED BY <3>1
  <2>2. CASE Receive(c)
    <3>1. PICK k \in DOMAIN down[c] :
            LET x == down[c][k].item
            IN  \/ got' = [got EXCEPT ![c] = IF x[1] \in {"reply", "cast"} THEN Append(@, x) ELSE @]
                \/ got' = got
      BY <2>2 DEF Receive, ReceiveLine
    <3>2. PICK x : x = down[c][k].item
      OBVIOUS
    <3>3. x \in Items
      <4>1. down[c][k] \in Pieces
        BY <1>3 DEF Typing
      <4> QED BY <3>2, <4>1 DEF Pieces
    <3>4. got'[c] = got[c] \/ got'[c] = Append(got[c], x)
      BY <1>3, <3>1, <3>2 DEF Typing
    <3> QED BY <3>3, <3>4
  <2> QED BY <1>2, <2>1, <2>2
<1>6. /\ Serial(c)' /\ (Unhandled(c)' <=> Unhandled(c))
      /\ AllReplied(c) => AllReplied(c)'
  BY <1>3, <1>4, <1>5, HeardSerial
<1>7. PICK p : p = IF got'[c] # got[c] /\ IsReply(got'[c][Len(got'[c])]) THEN "ready" ELSE at[r]
  OBVIOUS
<1>8. at' = [at EXCEPT ![r] = p] /\ at'[r] = p /\ conn'[r] = c
  BY <1>1, <1>2, <1>7 DEF ProgramInv
<1>9. CASE got'[c] # got[c] /\ IsReply(got'[c][Len(got'[c])])
  <2>1. got'[c] = Append(got[c], i) /\ IsReply(i) /\ p = "ready"
    <3>1. got[c] \in Seq(Items)
      BY <1>3 DEF Typing
    <3>2. Append(got[c], i)[Len(Append(got[c], i))] = i
      BY <3>1
    <3> QED BY <1>5, <1>7, <1>9, <3>2
  <2>2. Whole(c)'
    BY DEF Finishes
  <2>3. ~AllReplied(c) /\ ~Unhandled(c) /\ AllReplied(c)'
    BY <1>3, <1>4, <2>1, <2>2, AnswerLast
  <2>4. wr[c] = <<>>
    BY <1>1, <1>3, <2>3 DEF Alike
  <2>5. Alike(r)'
    BY <1>1, <1>2, <1>3, <1>4, <1>6, <1>8, <2>1, <2>3, <2>4 DEF Alike
  <2> QED BY <1>1, <1>2, <1>3, <1>6, <1>8, <2>5, OwnSerial
<1>10. CASE ~(got'[c] # got[c] /\ IsReply(got'[c][Len(got'[c])]))
  <2>1. p = at[r]
    BY <1>7, <1>10
  <2>2. Alike(r)'
    BY <1>1, <1>2, <1>3, <1>4, <1>6, <1>8, <2>1 DEF Alike
  <2> QED BY <1>1, <1>2, <1>3, <1>6, <1>8, <2>2, OwnSerial
<1> QED BY <1>9, <1>10

\* Where nothing is sent, read or heard, the frames stay as they are.
LEMMA NothingSerial ==
  ASSUME SerialInv, UNCHANGED <<client, wr, up, sent, served, got, cut, at, conn>>,
         \A d \in Conns : inpart'[d] \in {inpart[d], <<>>},
         \A d \in Conns : task[d] = "ended" /\ client[d] # "none" => task'[d] = "ended"
  PROVE  (\A d \in Conns : Serial(d)') /\ (\A q \in Renderers : Alike(q)')
<1>1. ASSUME NEW d \in Conns PROVE Stays(d) /\ Remains(d)
  <2>1. sent' = sent /\ served' = served /\ got' = got /\ wr' = wr /\ client' = client
    OBVIOUS
  <2>2. task[d] = "ended" /\ client[d] # "none" => task'[d] = "ended"
    OBVIOUS
  <2> QED BY <2>1, <2>2 DEF Stays, Remains
<1>2. ASSUME NEW d \in Conns PROVE Serial(d)'
  <2>1. Serial(d) /\ Stays(d)
    BY <1>1 DEF SerialInv
  <2>2. inpart'[d] \in {inpart[d], <<>>} /\ up' = up /\ cut' = cut
    OBVIOUS
  <2>3. Dropped(d, "read") => inpart'[d] = <<>> /\ \A k \in 1..Len(up'[d]) : up'[d][k].end
    BY <2>1, <2>2 DEF Serial
  <2>4. /\ Dropped(d, "read")' <=> Dropped(d, "read")
        /\ Dropped(d, "stray")' <=> Dropped(d, "stray")
    BY <2>2 DEF Dropped
  <2> QED BY <2>1, <2>3, <2>4, SerialStays
<1>3. ASSUME NEW q \in Renderers PROVE Alike(q)'
  BY <1>1, AlikeStays DEF SerialInv
<1> QED BY <1>2, <1>3

\* A connection that has ended is not among those that wait to be accepted.
LEMMA AcceptsKeepsEnded ==
  ASSUME LinkInv, Accepting
  PROVE  /\ UNCHANGED <<client, inpart, wr, up, sent, served, got, cut>>
         /\ \A d \in Conns : task[d] = "ended" => task'[d] = "ended"
<1>1. UNCHANGED <<client, inpart, wr, up, sent, served, got, cut>>
  BY DEF Accepting, CheckRunning, Accept, Spawn, calling, streams, history
<1>2. ASSUME NEW d \in Conns, task[d] = "ended" PROVE task'[d] = "ended"
  <2>1. Typing /\ Queue
    BY DEF LinkInv
  <2>2. CASE CheckRunning
    BY <1>2, <2>2 DEF CheckRunning
  <2>3. CASE Accept
    <3>1. backlog # <<>> /\ task' = [task EXCEPT ![Head(backlog)] = "open"]
      BY <2>3 DEF Accept, Spawn
    <3>2. 1 \in 1..Len(backlog) /\ Head(backlog) = backlog[1]
      BY <2>1, <3>1 DEF Typing
    <3>3. Head(backlog) # d
      BY <1>2, <2>1, <3>2 DEF Queue
    <3> QED BY <1>2, <2>1, <3>1, <3>3 DEF Typing
  <2> QED BY <2>2, <2>3 DEF Accepting
<1> QED BY <1>1, <1>2

LEMMA DiesSerial ==
  ASSUME LinkInv, SerialInv, Dies
  PROVE  (\A d \in Conns : Serial(d)') /\ (\A q \in Renderers : Alike(q)')
<1>1. /\ UNCHANGED <<client, wr, up, sent, served, got, cut, at, conn>>
      /\ inpart' = [d \in Conns |-> <<>>]
      /\ task' = [d \in Conns |-> IF client[d] = "none" THEN "none" ELSE "ended"]
  BY DEF Dies, Crash, calling, streams, program
<1>2. \A d \in Conns : /\ inpart'[d] = <<>>
                       /\ client[d] # "none" => task'[d] = "ended"
  BY <1>1
<1> QED BY <1>1, <1>2, NothingSerial

\* A step over connection c that its program has no part in.
LEMMA ServedSerial ==
  ASSUME LinkInv, SerialInv, Finishes, NEW c \in Conns, ServeFrames(c)
  PROVE  (\A d \in Conns : Serial(d)') /\ (\A q \in Renderers : Alike(q)')
<1>1. ProgramInv /\ Serial(c) /\ ~Dropped(c, "send") /\ UNCHANGED <<at, conn>>
  BY DEF SerialInv, Finishes, ServeFrames, StoreFrame, Answered, Others, program
<1>2. CASE UNCHANGED vars
  <2>1. UNCHANGED <<task, client, wr, inpart, up, sent, served, got, cut>>
    BY <1>2 DEF vars, serving, calling, streams, history
  <2> QED BY <1>1, <2>1, NothingSerial
<1>3. CASE WithoutRequest(c)
  <2>1. Alone(c) /\ Serial(c)' /\ Stays(c) /\ task[c] # "ended"
    BY <1>1, <1>3, TaskSerial
  <2>2. \A d \in Conns : Serial(d)'
    BY <2>1, ElseSerial
  <2>3. ASSUME NEW d \in Conns PROVE Stays(d) /\ Remains(d)
    <3>1. CASE d = c
      BY <2>1, <3>1 DEF Remains, Alone
    <3>2. CASE d # c
      <4>1. Still(d) /\ Serial(d)
        BY <2>1, <3>2 DEF Alone, SerialInv
      <4> QED BY <4>1, StillSerial DEF Remains, Still
    <3> QED BY <3>1, <3>2
  <2> QED BY <1>1, <2>2, <2>3, AlikeStays DEF SerialInv
<1>4. CASE HandleRequest(c)
  <2>1. /\ Alone(c) /\ Serial(c)' /\ task[c] # "ended"
        /\ Unhandled(c) /\ wr[c] = <<>> /\ wr'[c] = <<>> /\ client'[c] = client[c]
    BY <1>1, <1>4, HandleSerial
  <2>2. \A d \in Conns : Serial(d)'
    BY <2>1, ElseSerial
  <2>3. ASSUME NEW q \in Renderers PROVE Alike(q)'
    <3>1. CASE conn[q] # c
      BY <1>1, <2>1, <3>1, ElseAlike
    <3>2. CASE conn[q] = c
      <4>1. Alike(q) /\ c # 0
        BY DEF SerialInv, Conns
      <4>2. at[q] = "waiting"
        BY <1>1, <2>1, <3>2, <4>1 DEF Alike, ProgramInv
      <4> QED BY <1>1, <2>1, <3>2, <4>1, <4>2 DEF Alike
    <3> QED BY <3>1, <3>2
  <2> QED BY <2>2, <2>3
<1> QED BY <1>2, <1>3, <1>4 DEF ServeFrames, StoreFrame, Answered, Others

LEMMA SerialStep ==
  SerialInv /\ LinkInv /\ AnswersFirst' /\ Finishes /\ Finishes' /\ [RNext]_rvars
    => SerialInv'
<1> SUFFICES ASSUME SerialInv, LinkInv, AnswersFirst', Finishes, Finishes', [RNext]_rvars
             PROVE  (\A d \in Conns : Serial(d)') /\ (\A q \in Renderers : Alike(q)')
  BY OverStep DEF SerialInv
<1>1. ASSUME NEW r \in Renderers,
             \/ Join(r) \/ (\E m \in Messages : NextFrame(r, m)) \/ SendFrame(r)
             \/ Hear(r)
      PROVE  (\A d \in Conns : Serial(d)') /\ (\A q \in Renderers : Alike(q)')
  BY <1>1, JoinSerial, FrameSerial, SendSerial, HearSerial
<1>2. ASSUME NEW c \in Conns, ServeFrames(c)
      PROVE  (\A d \in Conns : Serial(d)') /\ (\A q \in Renderers : Alike(q)')
  BY <1>2, ServedSerial
<1>3. CASE (\E r \in Renderers : Deaf(r)) \/ Draw \/ UNCHANGED rvars
  <2>1. UNCHANGED <<vars, at, conn>>
    BY <1>3 DEF Deaf, Draw, Look, Skip, Upload, UploadAs, Drawn, Rendered, rvars, program
  <2>2. UNCHANGED <<task, client, wr, inpart, up, sent, served, got, cut>>
    BY <2>1 DEF vars, serving, calling, streams, history
  <2> QED BY <2>1, <2>2, NothingSerial
<1>4. CASE Accepts \/ Restarts
  <2>1. CASE Accepts
    <3>1. Accepting /\ UNCHANGED <<at, conn>>
      BY <2>1 DEF Accepts, program
    <3>2. /\ UNCHANGED <<client, inpart, wr, up, sent, served, got, cut>>
          /\ \A d \in Conns : task[d] = "ended" => task'[d] = "ended"
      BY <3>1, AcceptsKeepsEnded
    <3> QED BY <3>1, <3>2, NothingSerial
  <2>2. CASE Restarts
    <3>1. UNCHANGED <<task, client, wr, inpart, up, sent, served, got, cut, at, conn>>
      BY <2>2 DEF Restarts, Start, serving, calling, streams, history, program
    <3> QED BY <3>1, NothingSerial
  <2> QED BY <1>4, <2>1, <2>2
<1>5. CASE Dies
  BY <1>5, DiesSerial
<1> QED BY <1>1, <1>2, <1>3, <1>4, <1>5 DEF RNext

LEMMA SerialOrder ==
  ASSUME SerialInv, LinkInv, AnswersFirst
  PROVE  FramesOrdered
<1>1. ASSUME NEW c \in Conns
      PROVE  /\ Len(served[c]) <= Len(sent[c])
             /\ \A i \in DOMAIN served[c] : served[c][i] = sent[c][i]
  <2>1. Serial(c) /\ sent[c] \in Seq(Messages) /\ served[c] \in Seq(Messages)
    BY DEF SerialInv, LinkInv, Typing
  <2>2. Len(sent[c]) \in Nat /\ Len(served[c]) \in Nat /\ DOMAIN served[c] = 1..Len(served[c])
    BY ONLY <2>1
  <2>3. Len(sent[c]) = Len(served[c]) + 1 \/ Len(sent[c]) = Len(served[c])
    BY <2>1 DEF Serial, Unhandled
  <2>4. Len(served[c]) <= Len(sent[c])
    BY <2>2, <2>3
  <2> QED BY <2>1, <2>2, <2>4 DEF Serial
<1> QED BY <1>1 DEF FramesOrdered

\* The frames of a program are handled in its order and without a gap, however the
\* broadcasts cut its reads: request() is called for one frame after the other, so
\* at most one is on its way, and after one that was lost the program sends none.
\* Its answers come in that order too, each before the frame is heard again.
THEOREM FramesInOrder == RSpec => []FramesOrdered
<1>1. RInit => SerialInv /\ Finishes /\ LinkInv
  <2>1. RInit => Init
    BY DEF RInit
  <2>2. Init => Finishes
    BY DEF Init, Finishes, Dropped, Whole
  <2> QED BY <2>1, <2>2, SerialInit, SoundInit
<1>2. RSpec => []AnswersFirst
  BY FramesOverUnix, AnswersComeFirst
<1>3. RSpec => []LinkInv
  <2>1. Spec => []LinkInv
    BY SoundInit, LinkStep, PTL DEF Spec
  <2> QED BY <2>1, FramesOverUnix
<1>4. SerialInv /\ LinkInv /\ AnswersFirst => FramesOrdered
  BY SerialOrder
<1> QED BY <1>1, <1>2, <1>3, <1>4, FinishesStep, SerialStep, PTL DEF RSpec
=============================================================================
