------------------------- MODULE UnixChannelProofs -------------------------
(***************************************************************************)
(* Theorems about UnixChannel, for any number of connections and messages, *)
(* socket buffers and broadcast channels of any size, and every fault.     *)
(***************************************************************************)
EXTENDS UnixChannel, SequenceTheorems, TLAPS

-----------------------------------------------------------------------------
(* Streams.                                                                *)

\* The two parts of a stream that is taken up to some piece.
LEMMA SplitFacts ==
  ASSUME NEW S, NEW s \in Seq(S), NEW n \in 0..Len(s)
  PROVE  /\ Taken(s, n) \in Seq(S) /\ Len(Taken(s, n)) = n
         /\ \A i \in 1..n : Taken(s, n)[i] = s[i]
         /\ Left(s, n) \in Seq(S) /\ Len(Left(s, n)) = Len(s) - n
         /\ \A i \in 1..(Len(s) - n) : Left(s, n)[i] = s[n + i]
BY DEF Taken, Left

LEMMA JoinFacts ==
  ASSUME NEW S, NEW s \in Seq(S), NEW t \in Seq(S)
  PROVE  /\ s \o t \in Seq(S) /\ Len(s \o t) = Len(s) + Len(t)
         /\ \A i \in 1..Len(s) : (s \o t)[i] = s[i]
         /\ \A i \in 1..Len(t) : (s \o t)[Len(s) + i] = t[i]
OBVIOUS

\* A write takes at least one piece, and not more than there is.
LEMMA FitsFacts ==
  ASSUME NEW S, NEW s \in Seq(S), NEW t, NEW n \in Fits(s, t)
  PROVE  n \in 1..Len(s) /\ n \in 0..Len(s)
BY DEF Fits

LEMMA LineFacts ==
  ASSUME NEW i
  PROVE  /\ Len(Line(i)) = 2
         /\ Line(i)[1] = [item |-> i, end |-> FALSE]
         /\ Line(i)[2] = [item |-> i, end |-> TRUE]
BY DEF Line

-----------------------------------------------------------------------------
(* Types.                                                                  *)

Requests == {"request"} \X Messages
Sends == [item : Requests, end : BOOLEAN]

\* What travels to the server are requests.
Typing ==
  /\ case \in Cases
  /\ loop \in {"check", "accept", "ended", "dead"} /\ running \in BOOLEAN
  /\ backlog \in Seq(Conns)
  /\ log \in Seq(Messages \cup Hosted)
  /\ task \in [Conns -> {"none", "open", "garbled", "ended"}]
  /\ client \in [Conns -> {"none", "open", "garbled", "closed"}]
  /\ pos \in [Conns -> Nat]
  /\ inpart \in [Conns -> Seq(Sends)]
  /\ wr \in [Conns -> Seq(Sends)]
  /\ up \in [Conns -> Seq(Sends)]
  /\ out \in [Conns -> Seq(Pieces)]
  /\ rdpart \in [Conns -> Seq(Pieces)]
  /\ down \in [Conns -> Seq(Pieces)]
  /\ sent \in [Conns -> Seq(Messages)]
  /\ served \in [Conns -> Seq(Messages)]
  /\ got \in [Conns -> Seq(Items)]
  /\ cut \subseteq Conns \X {"send", "receive", "read", "stray"}
  /\ lagged \subseteq Conns
  /\ crashed \subseteq Conns

LEMMA PieceFacts ==
  /\ Sends \subseteq Pieces /\ Requests \subseteq Items
  /\ \A p \in Sends : /\ p.item \in Requests /\ p.item[2] \in Messages
                      /\ p.item[1] = "request" /\ p.end \in BOOLEAN
  /\ \A p \in Pieces : p.item \in Items /\ p.end \in BOOLEAN
BY DEF Sends, Pieces, Requests, Items

LEMMA LineTypes ==
  /\ \A m \in Messages : /\ Line(<<"request", m>>) \in Seq(Sends)
                         /\ Line(<<"reply", m>>) \in Seq(Pieces)
  /\ \A i \in Nat : Line(<<"cast", i>>) \in Seq(Pieces)
  /\ <<>> \in Seq(Sends) /\ <<>> \in Seq(Pieces)
<1>1. \A i \in Requests : Line(i) \in Seq(Sends)
  BY DEF Line, Sends
<1>2. \A i \in Items : Line(i) \in Seq(Pieces)
  BY DEF Line, Pieces
<1>3. \A m \in Messages : <<"request", m>> \in Requests /\ <<"reply", m>> \in Items
  BY DEF Requests, Items
<1>4. \A i \in Nat : <<"cast", i>> \in Items
  BY DEF Items
<1> QED BY <1>1, <1>2, <1>3, <1>4

LEMMA TypingType == Typing => TypeOK
<1> SUFFICES ASSUME Typing PROVE TypeOK
  OBVIOUS
<1>1. \A s \in Seq(Sends) : s \in Seq(Pieces)
  BY PieceFacts, SeqMonotonic
<1>2. \A f \in [Conns -> Seq(Sends)] : f \in [Conns -> Seq(Pieces)]
  BY <1>1
<1>3. /\ inpart \in [Conns -> Seq(Pieces)] /\ wr \in [Conns -> Seq(Pieces)]
      /\ up \in [Conns -> Seq(Pieces)]
  BY <1>2 DEF Typing
<1> QED BY <1>3 DEF Typing, TypeOK

LEMMA TypingInit == Init => Typing
<1> SUFFICES ASSUME Init PROVE Typing
  OBVIOUS
<1>1. \A S : <<>> \in Seq(S)
  OBVIOUS
<1>2. /\ \A S : [c \in Conns |-> <<>>] \in [Conns -> Seq(S)]
      /\ backlog \in Seq(Conns) /\ log \in Seq(Messages \cup Hosted)
  BY <1>1 DEF Init
<1>3. /\ inpart \in [Conns -> Seq(Sends)]
      /\ wr \in [Conns -> Seq(Sends)]
      /\ up \in [Conns -> Seq(Sends)]
      /\ out \in [Conns -> Seq(Pieces)]
      /\ rdpart \in [Conns -> Seq(Pieces)]
      /\ down \in [Conns -> Seq(Pieces)]
      /\ sent \in [Conns -> Seq(Messages)]
      /\ served \in [Conns -> Seq(Messages)]
      /\ got \in [Conns -> Seq(Items)]
  BY <1>2 DEF Init
<1> QED BY <1>2, <1>3 DEF Init, Typing

USE DEF accepting, serving, calling, streams, history

\* The client's steps.
LEMMA ClientTypes ==
  ASSUME Typing, NEW c \in Conns,
         \/ Connect(c) \/ (\E m \in Messages : BeginSend(c, m)) \/ Write(c)
         \/ WriteFails(c) \/ DropSend(c) \/ ReceivePart(c) \/ Receive(c)
         \/ ReceiveGarbled(c) \/ DropReceive(c) \/ Close(c)
  PROVE  Typing'
<1>1. CASE Connect(c)
  <2>1. wr' = [wr EXCEPT ![c] = <<>>] /\ <<>> \in Seq(Sends)
    BY <1>1, LineTypes DEF Connect, ConnectToSend
  <2>2. wr' \in [Conns -> Seq(Sends)]
    BY <2>1 DEF Typing
  <2>3. backlog' = Append(backlog, c) /\ backlog' \in Seq(Conns)
    BY <1>1 DEF Connect, ConnectToSend, Typing
  <2> QED BY <1>1, <2>2, <2>3 DEF Connect, ConnectToSend, Typing
<1>2. ASSUME NEW m \in Messages, BeginSend(c, m)
      PROVE  Typing'
  <2>1. wr' \in [Conns -> Seq(Sends)]
    BY <1>2, LineTypes DEF BeginSend, Typing
  <2> QED BY <1>2, <2>1 DEF BeginSend, Typing
<1>3. CASE Write(c)
  <2>0. wr[c] \in Seq(Sends) /\ up[c] \in Seq(Sends)
    BY DEF Typing
  <2>1. PICK n \in Fits(wr[c], up[c]) :
          /\ up' = [up EXCEPT ![c] = @ \o Taken(wr[c], n)]
          /\ wr' = [wr EXCEPT ![c] = Left(@, n)]
    BY <1>3 DEF Write
  <2>2. n \in 1..Len(wr[c]) /\ n \in 0..Len(wr[c]) /\ 1 \in 1..Len(wr[c])
    BY <2>0, <2>1, FitsFacts
  <2>3. Taken(wr[c], n) \in Seq(Sends) /\ Left(wr[c], n) \in Seq(Sends)
    BY <2>0, <2>2, SplitFacts
  <2>4. up[c] \o Taken(wr[c], n) \in Seq(Sends)
    BY <2>0, <2>3
  <2>5. up' \in [Conns -> Seq(Sends)] /\ wr' \in [Conns -> Seq(Sends)]
    BY <2>1, <2>3, <2>4 DEF Typing
  <2>6. wr[c][1] \in Sends
    BY <2>0, <2>2
  <2>7. wr[c][1].item[2] \in Messages
    BY <2>6, PieceFacts
  <2>8. sent' \in [Conns -> Seq(Messages)]
    BY <1>3, <2>7 DEF Write, Typing
  <2> QED BY <1>3, <2>5, <2>8 DEF Write, Typing
<1>4. CASE WriteFails(c)
  <2>1. wr' \in [Conns -> Seq(Sends)]
    BY <1>4, LineTypes DEF WriteFails, Typing
  <2> QED BY <1>4, <2>1 DEF WriteFails, Typing
<1>5. CASE DropSend(c)
  <2>1. wr' \in [Conns -> Seq(Sends)]
    BY <1>5, LineTypes DEF DropSend, Typing
  <2>2. cut' = cut \cup {<<c, "send">>}
    BY <1>5 DEF DropSend
  <2>3. cut' \subseteq Conns \X {"send", "receive", "read", "stray"}
    BY <2>2 DEF Typing
  <2> QED BY <1>5, <2>1, <2>3 DEF DropSend, Typing
<1>6. CASE ReceivePart(c)
  <2>1. rdpart[c] \o down[c] \in Seq(Pieces)
    BY DEF Typing
  <2>2. rdpart' \in [Conns -> Seq(Pieces)] /\ down' \in [Conns -> Seq(Pieces)]
    BY <1>6, <2>1, LineTypes DEF ReceivePart, Typing
  <2> QED BY <1>6, <2>2 DEF ReceivePart, Typing
<1>7. CASE Receive(c)
  <2>1. PICK k \in DOMAIN down[c] :
          /\ EndsAt(down[c], k)
          /\ down' = [down EXCEPT ![c] = Left(@, k)]
          /\ rdpart' = [rdpart EXCEPT ![c] = <<>>]
          /\ LET line == rdpart[c] \o Taken(down[c], k)
                 i == down[c][k].item
             IN  IF line = Line(i)
                 THEN /\ got' = [got EXCEPT ![c] = IF i[1] \in {"reply", "cast"} THEN Append(@, i) ELSE @]
                      /\ UNCHANGED client
                 ELSE /\ \E s \in IF case.format = "Json" THEN {"open"} ELSE {"open", "garbled"} :
                            client' = [client EXCEPT ![c] = s]
                      /\ UNCHANGED got
    BY <1>7 DEF Receive, ReceiveLine
  <2>2. down[c] \in Seq(Pieces) /\ k \in 0..Len(down[c]) /\ down[c][k] \in Pieces
    BY DEF Typing
  <2>3. Left(down[c], k) \in Seq(Pieces)
    BY <2>2, SplitFacts
  <2>4. down' \in [Conns -> Seq(Pieces)] /\ rdpart' \in [Conns -> Seq(Pieces)]
    BY <2>1, <2>3, LineTypes DEF Typing
  <2>5. down[c][k].item \in Items
    BY <2>2, PieceFacts
  <2>6. got' \in [Conns -> Seq(Items)]
    <3>1. got \in [Conns -> Seq(Items)] /\ got[c] \in Seq(Items)
      BY DEF Typing
    <3>2. Append(got[c], down[c][k].item) \in Seq(Items)
      BY <2>5, <3>1
    <3>3. \/ got' = got
          \/ got' = [got EXCEPT ![c] = Append(@, down[c][k].item)]
          \/ got' = [got EXCEPT ![c] = @]
      BY <2>1
    <3> QED BY <3>1, <3>2, <3>3
  <2>7. client' \in [Conns -> {"none", "open", "garbled", "closed"}]
    BY <2>1 DEF Typing
  <2> QED BY <1>7, <2>4, <2>6, <2>7 DEF Receive, ReceiveLine, Typing
<1>8. CASE ReceiveGarbled(c)
  <2>1. PICK n \in DOMAIN down[c] : down' = [down EXCEPT ![c] = Left(@, n)]
    BY <1>8 DEF ReceiveGarbled
  <2>2. down[c] \in Seq(Pieces) /\ n \in 0..Len(down[c])
    BY DEF Typing
  <2>3. Left(down[c], n) \in Seq(Pieces)
    BY <2>2, SplitFacts
  <2>4. down' \in [Conns -> Seq(Pieces)]
    BY <2>1, <2>3 DEF Typing
  <2>5. client' \in [Conns -> {"none", "open", "garbled", "closed"}]
    BY <1>8 DEF ReceiveGarbled, Typing
  <2> QED BY <1>8, <2>4, <2>5 DEF ReceiveGarbled, Typing
<1>9. CASE DropReceive(c)
  <2>1. rdpart' \in [Conns -> Seq(Pieces)]
    BY <1>9, LineTypes DEF DropReceive, Typing
  <2>2. cut' = cut \cup {<<c, "receive">>}
    BY <1>9 DEF DropReceive
  <2>3. cut' \subseteq Conns \X {"send", "receive", "read", "stray"}
    BY <2>2 DEF Typing
  <2>4. client' \in [Conns -> {"none", "open", "garbled", "closed"}]
    BY <1>9 DEF DropReceive, Typing
  <2> QED BY <1>9, <2>1, <2>3, <2>4 DEF DropReceive, Typing
<1>10. CASE Close(c)
  <2>1. /\ wr' \in [Conns -> Seq(Sends)] /\ rdpart' \in [Conns -> Seq(Pieces)]
        /\ down' \in [Conns -> Seq(Pieces)]
    BY <1>10, LineTypes DEF Close, Typing
  <2> QED BY <1>10, <2>1 DEF Close, Typing
<1> QED
  BY <1>1, <1>2, <1>3, <1>4, <1>5, <1>6, <1>7, <1>8, <1>9, <1>10

\* The steps of the accept loop, the program and the process.
LEMMA ServerTypes ==
  ASSUME Typing,
         Accepting \/ Stop \/ (\E h \in Hosted : HostBroadcast(h)) \/ Crash \/ Start
  PROVE  Typing'
<1>0. <<>> \in Seq(Conns)
  OBVIOUS
<1>1. CASE CheckRunning
  <2>1. backlog' \in Seq(Conns)
    BY <1>0, <1>1 DEF CheckRunning, Typing
  <2>2. task' \in [Conns -> {"none", "open", "garbled", "ended"}]
    BY <1>1 DEF CheckRunning, Typing
  <2>3. loop' \in {"check", "accept", "ended", "dead"}
    BY <1>1 DEF CheckRunning
  <2> QED BY <1>1, <2>1, <2>2, <2>3 DEF CheckRunning, Typing
<1>2. CASE Accept
  <2>1. backlog \in Seq(Conns) /\ backlog # <<>>
    BY <1>2 DEF Accept, Spawn, Typing
  <2>2. Head(backlog) \in Conns /\ Tail(backlog) \in Seq(Conns)
    BY <2>1
  <2>3. Len(log) \in Nat
    BY DEF Typing
  <2>4. task' \in [Conns -> {"none", "open", "garbled", "ended"}] /\ pos' \in [Conns -> Nat]
    BY <1>2, <2>2, <2>3 DEF Accept, Spawn, Typing
  <2> QED BY <1>2, <2>2, <2>4 DEF Accept, Spawn, Typing
<1>3. CASE Stop
  BY <1>3 DEF Stop, Typing
<1>4. ASSUME NEW h \in Hosted, HostBroadcast(h)
      PROVE  Typing'
  <2>1. log' \in Seq(Messages \cup Hosted)
    BY <1>4 DEF HostBroadcast, Typing
  <2> QED BY <1>4, <2>1 DEF HostBroadcast, Typing
<1>5. CASE Crash
  <2>1. inpart' \in [Conns -> Seq(Sends)] /\ out' \in [Conns -> Seq(Pieces)]
    BY <1>5, LineTypes DEF Crash
  <2>2. task' \in [Conns -> {"none", "open", "garbled", "ended"}]
    BY <1>5 DEF Crash
  <2>3. crashed' \subseteq Conns
    BY <1>5 DEF Crash
  <2> QED BY <1>0, <1>5, <2>1, <2>2, <2>3 DEF Crash, Typing
<1>6. CASE Start
  BY <1>6 DEF Start, Typing
<1> QED
  BY <1>1, <1>2, <1>3, <1>4, <1>5, <1>6 DEF Accepting

\* The steps of the task of a connection.
LEMMA RequestTypes ==
  ASSUME Typing, NEW c \in Conns, HandleRequest(c)
  PROVE  Typing'
<1>1. PICK k \in DOMAIN up[c] : Handle(c, k, Answer(c, k))
  BY DEF HandleRequest
<1>2. up[c] \in Seq(Sends) /\ k \in 0..Len(up[c]) /\ up[c][k] \in Sends
  BY DEF Typing
<1>3. up[c][k].item[2] \in Messages
  BY <1>2, PieceFacts
<1>4. Left(up[c], k) \in Seq(Sends)
  BY <1>2, SplitFacts
<1>5. up' \in [Conns -> Seq(Sends)] /\ inpart' \in [Conns -> Seq(Sends)]
  BY <1>1, <1>4, LineTypes DEF Handle, Typing
<1>6. out' = [out EXCEPT ![c] = Line(<<"reply", up[c][k].item[2]>>)]
  BY <1>1 DEF Handle, Answer
<1>7. out' \in [Conns -> Seq(Pieces)]
  BY <1>3, <1>6, LineTypes DEF Typing
<1>8. served' \in [Conns -> Seq(Messages)] /\ log' \in Seq(Messages \cup Hosted)
  BY <1>1, <1>3 DEF Handle, Typing
<1> QED BY <1>1, <1>5, <1>7, <1>8 DEF Handle, Typing

LEMMA DropReadTypes ==
  ASSUME Typing, NEW c \in Conns, DropRead(c)
  PROVE  /\ inpart' \in [Conns -> Seq(Sends)]
         /\ task' \in [Conns -> {"none", "open", "garbled", "ended"}]
         /\ cut' \subseteq Conns \X {"send", "receive", "read", "stray"}
<1>1. inpart' \in [Conns -> Seq(Sends)]
  BY LineTypes DEF DropRead, Typing
<1>2. cut' \subseteq cut \cup {<<c, "read">>, <<c, "stray">>}
  BY DEF DropRead, Lost
<1>3. cut \cup {<<c, "read">>, <<c, "stray">>} \subseteq Conns \X {"send", "receive", "read", "stray"}
  <2>1. {<<c, "read">>, <<c, "stray">>} \subseteq Conns \X {"send", "receive", "read", "stray"}
    OBVIOUS
  <2> QED BY <2>1 DEF Typing
<1>4. task' \in [Conns -> {"none", "open", "garbled", "ended"}]
  BY DEF DropRead, Typing
<1> QED BY <1>1, <1>2, <1>3, <1>4

LEMMA TaskTypes ==
  ASSUME Typing, NEW c \in Conns, WithoutRequest(c)
  PROVE  Typing'
<1>1. CASE ReadPart(c)
  <2>1. inpart[c] \o up[c] \in Seq(Sends)
    BY DEF Typing
  <2>2. inpart' \in [Conns -> Seq(Sends)] /\ up' \in [Conns -> Seq(Sends)]
    BY <1>1, <2>1, LineTypes DEF ReadPart, Typing
  <2> QED BY <1>1, <2>2 DEF ReadPart, Typing
<1>2. CASE ReadGarbage(c)
  <2>1. PICK k \in DOMAIN up[c] : up' = [up EXCEPT ![c] = Left(@, k)]
    BY <1>2 DEF ReadGarbage
  <2>2. up[c] \in Seq(Sends) /\ k \in 0..Len(up[c])
    BY DEF Typing
  <2>3. Left(up[c], k) \in Seq(Sends)
    BY <2>2, SplitFacts
  <2>4. up' \in [Conns -> Seq(Sends)] /\ inpart' \in [Conns -> Seq(Sends)]
    BY <1>2, <2>1, <2>3, LineTypes DEF ReadGarbage, Typing
  <2>5. task' \in [Conns -> {"none", "open", "garbled", "ended"}]
    BY <1>2 DEF ReadGarbage, Typing
  <2> QED BY <1>2, <2>4, <2>5 DEF ReadGarbage, Typing
<1>3. CASE ReadGarbled(c)
  <2>1. up' \in [Conns -> Seq(Sends)]
    BY <1>3, LineTypes DEF ReadGarbled, Typing
  <2>2. task' \in [Conns -> {"none", "open", "garbled", "ended"}]
    BY <1>3 DEF ReadGarbled, Typing
  <2> QED BY <1>3, <2>1, <2>2 DEF ReadGarbled, Typing
<1>4. CASE ReadEnd(c)
  <2>1. inpart' \in [Conns -> Seq(Sends)]
    BY <1>4, LineTypes DEF ReadEnd, EndTask, Typing
  <2>2. task' \in [Conns -> {"none", "open", "garbled", "ended"}]
    BY <1>4 DEF ReadEnd, EndTask, Typing
  <2> QED BY <1>4, <2>1, <2>2 DEF ReadEnd, EndTask, Typing
<1>5. CASE TakeBroadcast(c)
  <2>1. pos[c] \in Nat /\ pos[c] + 1 \in Nat
    BY DEF Typing
  <2>2. DropRead(c) /\ Deliver(c, pos[c] + 1, pos[c] + 1)
    BY <1>5 DEF TakeBroadcast, Deliver
  <2>3. out' \in [Conns -> Seq(Pieces)] /\ pos' \in [Conns -> Nat]
    BY <2>1, <2>2, LineTypes DEF Deliver, Typing
  <2> QED BY <2>2, <2>3, DropReadTypes DEF Deliver, Typing
<1>6. CASE Lag(c)
  <2>0. case.capacity \in Nat \ {0}
    BY CasesAssumption DEF Typing
  <2>1. pos[c] \in Nat /\ Len(log) \in Nat
    BY DEF Typing
  <2>2. DropRead(c) /\ LagTo(c, Len(log) - case.capacity)
    BY <1>6 DEF Lag, LagTo
  <2>3. Len(log) - case.capacity \in Nat
    BY <2>0, <2>1, <2>2 DEF LagTo, Behind
  <2>4. pos' \in [Conns -> Nat] /\ lagged' \subseteq Conns
    BY <2>2, <2>3 DEF LagTo, Typing
  <2> QED BY <2>2, <2>4, DropReadTypes DEF LagTo, Typing
<1>7. CASE Respond(c)
  <2>0. out[c] \in Seq(Pieces) /\ down[c] \in Seq(Pieces)
    BY DEF Typing
  <2>1. PICK n \in Fits(out[c], down[c]) :
          /\ down' = [down EXCEPT ![c] = @ \o Taken(out[c], n)]
          /\ out' = [out EXCEPT ![c] = Left(@, n)]
    BY <1>7 DEF Respond
  <2>2. Taken(out[c], n) \in Seq(Pieces) /\ Left(out[c], n) \in Seq(Pieces)
    BY <2>0, <2>1, FitsFacts, SplitFacts
  <2>3. down[c] \o Taken(out[c], n) \in Seq(Pieces)
    BY <2>0, <2>2
  <2>4. down' \in [Conns -> Seq(Pieces)] /\ out' \in [Conns -> Seq(Pieces)]
    BY <2>1, <2>2, <2>3 DEF Typing
  <2> QED BY <1>7, <2>4 DEF Respond, Typing
<1>8. CASE RespondFails(c)
  <2>1. out' \in [Conns -> Seq(Pieces)]
    BY <1>8, LineTypes DEF RespondFails, Typing
  <2>2. task' \in [Conns -> {"none", "open", "garbled", "ended"}]
    BY <1>8 DEF RespondFails, Typing
  <2> QED BY <1>8, <2>1, <2>2 DEF RespondFails, Typing
<1> QED
  BY <1>1, <1>2, <1>3, <1>4, <1>5, <1>6, <1>7, <1>8 DEF WithoutRequest

LEMMA TypingStep == Typing /\ [Next]_vars => Typing'
<1> SUFFICES ASSUME Typing, [Next]_vars PROVE Typing'
  OBVIOUS
<1>1. CASE UNCHANGED vars
  BY <1>1 DEF vars, Typing
<1>2. ASSUME NEW c \in Conns,
             \/ Connect(c) \/ Close(c)
             \/ \E m \in Messages : BeginSend(c, m)
             \/ Sending(c) \/ DropSend(c)
             \/ Receiving(c) \/ DropReceive(c)
             \/ Serve(c)
      PROVE  Typing'
  BY <1>2, ClientTypes, RequestTypes, TaskTypes DEF Sending, Receiving, Serve
<1> QED
  BY <1>1, <1>2, ServerTypes DEF Next

\* Every variable keeps its type, whatever is cut, dropped or lost: no index of
\* the broadcast channel is negative when a receiver has lagged, and what a task
\* hands to the handler is a request.
THEOREM TypeCorrect == Spec => []TypeOK
<1>1. Init => Typing
  BY TypingInit
<1>2. Typing /\ [Next]_vars => Typing'
  BY TypingStep
<1>3. Typing => TypeOK
  BY TypingType
<1> QED
  BY <1>1, <1>2, <1>3, PTL DEF Spec


-----------------------------------------------------------------------------
(* What is on its way to the server.                                       *)

\* What the pending read has consumed, and what it has not.
Coming(c) == inpart[c] \o up[c]

\* The messages a that were begun and are not among the handled v begin, in this
\* order, at the pieces of t that end nothing: at p[1], p[2], ...
Track(t, a, v) ==
  /\ Len(v) <= Len(a) /\ \A i \in 1..Len(v) : v[i] = a[i]
  /\ \E p \in [1..(Len(a) - Len(v)) -> 1..Len(t)] :
       /\ \A i, j \in 1..(Len(a) - Len(v)) : i < j => p[i] < p[j]
       /\ \A i \in 1..(Len(a) - Len(v)) :
            t[p[i]] = [item |-> <<"request", a[Len(v) + i]>>, end |-> FALSE]
       /\ \A k \in 1..Len(t) : t[k].end \/ \E i \in 1..(Len(a) - Len(v)) : p[i] = k

\* Beginnings and ends take turns.
Alternates(t) ==
  /\ t # <<>> => ~t[1].end
  /\ \A k \in 1..(Len(t) - 1) :
       IF t[k].end THEN ~t[k + 1].end
                   ELSE t[k + 1] = [item |-> t[k].item, end |-> TRUE]

\* A message begins.
LEMMA TrackBegins ==
  ASSUME NEW t \in Seq(Sends), NEW a \in Seq(Messages), NEW v \in Seq(Messages),
         NEW m \in Messages, Track(t, a, v),
         NEW q \in Sends, q = [item |-> <<"request", m>>, end |-> FALSE]
  PROVE  Track(Append(t, q), Append(a, m), v)
<1> DEFINE n == Len(a) - Len(v)
<1>a. Len(a) \in Nat /\ Len(v) \in Nat /\ Len(t) \in Nat
  OBVIOUS
<1>b. Len(v) <= Len(a) /\ \A i \in 1..Len(v) : v[i] = a[i]
  BY DEF Track
<1>c. n \in Nat /\ Len(a) = Len(v) + n
  BY <1>a, <1>b
<1>0. /\ Len(v) <= Len(a) /\ n \in Nat /\ Len(t) \in Nat /\ Len(v) \in Nat
      /\ Len(a) = Len(v) + n /\ \A i \in 1..Len(v) : v[i] = a[i]
  BY <1>a, <1>b, <1>c
<1>1. PICK p \in [1..n -> 1..Len(t)] :
        /\ \A i, j \in 1..n : i < j => p[i] < p[j]
        /\ \A i \in 1..n : t[p[i]] = [item |-> <<"request", a[Len(v) + i]>>, end |-> FALSE]
        /\ \A k \in 1..Len(t) : t[k].end \/ \E i \in 1..n : p[i] = k
  BY DEF Track
<1>2. \A i \in 1..n : p[i] \in 1..Len(t)
  BY <1>1
<1> HIDE DEF n
<1> DEFINE r == [i \in 1..(n + 1) |-> IF i = n + 1 THEN Len(t) + 1 ELSE p[i]]
           s == Append(t, q)
           b == Append(a, m)
<1>3. /\ Len(s) = Len(t) + 1 /\ s[Len(t) + 1] = q /\ \A k \in 1..Len(t) : s[k] = t[k]
      /\ Len(b) = Len(a) + 1 /\ b[Len(a) + 1] = m /\ \A k \in 1..Len(a) : b[k] = a[k]
  OBVIOUS
<1> HIDE DEF s, b
<1>4. /\ \A i \in 1..(n + 1) : i = n + 1 \/ i \in 1..n
      /\ n + 1 \in 1..(n + 1) /\ r[n + 1] = Len(t) + 1
      /\ \A i \in 1..n : i \in 1..(n + 1) /\ r[i] = p[i]
  BY <1>0
<1>5. r \in [1..(n + 1) -> 1..Len(s)]
  <2>1. \A i \in 1..(n + 1) : r[i] \in 1..Len(s)
    BY <1>0, <1>2, <1>3, <1>4
  <2> QED BY <2>1
<1> HIDE DEF r
<1>6. ASSUME NEW i \in 1..(n + 1), NEW j \in 1..(n + 1), i < j
      PROVE  r[i] < r[j]
  <2>1. i \in 1..n /\ r[i] = p[i]
    BY <1>0, <1>4, <1>6
  <2>2. CASE j = n + 1
    BY <1>0, <1>2, <1>4, <2>1, <2>2
  <2>3. CASE j \in 1..n
    BY <1>1, <1>4, <1>6, <2>1, <2>3
  <2> QED BY <1>4, <2>2, <2>3
<1>7. ASSUME NEW i \in 1..(n + 1)
      PROVE  s[r[i]] = [item |-> <<"request", b[Len(v) + i]>>, end |-> FALSE]
  <2>1. CASE i = n + 1
    <3>1. Len(v) + i = Len(a) + 1 /\ r[i] = Len(t) + 1
      BY <1>0, <1>4, <2>1
    <3> QED BY <1>3, <3>1
  <2>2. CASE i \in 1..n
    <3>1. Len(v) + i \in 1..Len(a)
      BY <1>0, <2>2
    <3>2. b[Len(v) + i] = a[Len(v) + i] /\ s[r[i]] = t[p[i]]
      BY <1>2, <1>3, <1>4, <2>2, <3>1
    <3> QED BY <1>1, <2>2, <3>2
  <2> QED BY <1>4, <2>1, <2>2
<1>8. ASSUME NEW k \in 1..Len(s)
      PROVE  s[k].end \/ \E i \in 1..(n + 1) : r[i] = k
  <2>1. CASE k = Len(t) + 1
    BY <1>4, <2>1
  <2>2. CASE k # Len(t) + 1
    <3>1. k \in 1..Len(t) /\ s[k] = t[k]
      BY <1>0, <1>3, <2>2
    <3>2. CASE ~t[k].end
      <4>1. PICK i \in 1..n : p[i] = k
        BY <1>1, <3>1, <3>2
      <4> QED BY <1>4, <4>1
    <3> QED BY <3>1, <3>2
  <2> QED BY <2>1, <2>2
<1>9. Len(b) - Len(v) = n + 1 /\ Len(v) <= Len(b) /\ \A i \in 1..Len(v) : v[i] = b[i]
  BY <1>0, <1>3
<1>10. Track(s, b, v)
  <2> DEFINE e == Len(b) - Len(v)
  <2>1. e = n + 1
    BY <1>9
  <2> HIDE DEF e
  <2>2. /\ r \in [1..e -> 1..Len(s)]
        /\ \A i, j \in 1..e : i < j => r[i] < r[j]
        /\ \A i \in 1..e : s[r[i]] = [item |-> <<"request", b[Len(v) + i]>>, end |-> FALSE]
        /\ \A k \in 1..Len(s) : s[k].end \/ \E i \in 1..e : r[i] = k
    BY <1>5, <1>6, <1>7, <1>8, <2>1
  <2> QED BY <1>9, <2>2 DEF Track, e
<1> QED BY <1>10 DEF s, b

\* A message ends.
LEMMA TrackEnds ==
  ASSUME NEW t \in Seq(Sends), NEW a \in Seq(Messages), NEW v \in Seq(Messages),
         Track(t, a, v), NEW q \in Sends, q.end
  PROVE  Track(Append(t, q), a, v)
<1> DEFINE n == Len(a) - Len(v)
           s == Append(t, q)
<1>a. Len(a) \in Nat /\ Len(v) \in Nat /\ Len(t) \in Nat
  OBVIOUS
<1>b. Len(v) <= Len(a) /\ \A i \in 1..Len(v) : v[i] = a[i]
  BY DEF Track
<1>c. n \in Nat
  BY <1>a, <1>b
<1>0. Len(v) <= Len(a) /\ n \in Nat /\ Len(t) \in Nat /\ \A i \in 1..Len(v) : v[i] = a[i]
  BY <1>a, <1>b, <1>c
<1>1. PICK p \in [1..n -> 1..Len(t)] :
        /\ \A i, j \in 1..n : i < j => p[i] < p[j]
        /\ \A i \in 1..n : t[p[i]] = [item |-> <<"request", a[Len(v) + i]>>, end |-> FALSE]
        /\ \A k \in 1..Len(t) : t[k].end \/ \E i \in 1..n : p[i] = k
  BY DEF Track
<1>2. Len(s) = Len(t) + 1 /\ s[Len(t) + 1] = q /\ \A k \in 1..Len(t) : s[k] = t[k]
  OBVIOUS
<1>3. p \in [1..n -> 1..Len(s)]
  BY <1>0, <1>1, <1>2
<1>4. \A i \in 1..n : s[p[i]] = [item |-> <<"request", a[Len(v) + i]>>, end |-> FALSE]
  BY <1>1, <1>2
<1>5. \A k \in 1..Len(s) : s[k].end \/ \E i \in 1..n : p[i] = k
  BY <1>0, <1>1, <1>2
<1> HIDE DEF s
<1>6. Track(s, a, v)
  BY <1>0, <1>1, <1>3, <1>4, <1>5 DEF Track
<1> QED BY <1>6 DEF s

\* The line of m and then r.
LineThen(t, m, r) ==
  /\ Len(t) = Len(r) + 2
  /\ t[1] = [item |-> <<"request", m>>, end |-> FALSE]
  /\ t[2] = [item |-> <<"request", m>>, end |-> TRUE]
  /\ \A k \in 1..Len(r) : t[k + 2] = r[k]

\* A message is handled.
LEMMA TrackHandled ==
  ASSUME NEW t \in Seq(Sends), NEW a \in Seq(Messages), NEW v \in Seq(Messages),
         Track(t, a, v), NEW m \in Messages, NEW r \in Seq(Sends),
         LineThen(t, m, r)
  PROVE  /\ Len(v) < Len(a) /\ a[Len(v) + 1] = m
         /\ Track(r, a, Append(v, m))
<1> DEFINE n == Len(a) - Len(v)
<1>a. Len(a) \in Nat /\ Len(v) \in Nat /\ Len(t) \in Nat
  OBVIOUS
<1>b. Len(v) <= Len(a) /\ \A i \in 1..Len(v) : v[i] = a[i]
  BY DEF Track
<1>c. n \in Nat /\ Len(a) = Len(v) + n
  BY <1>a, <1>b
<1>0. /\ Len(v) <= Len(a) /\ n \in Nat /\ Len(t) \in Nat /\ Len(v) \in Nat
      /\ Len(a) = Len(v) + n /\ \A i \in 1..Len(v) : v[i] = a[i]
  BY <1>a, <1>b, <1>c
<1>1. PICK p \in [1..n -> 1..Len(t)] :
        /\ \A i, j \in 1..n : i < j => p[i] < p[j]
        /\ \A i \in 1..n : t[p[i]] = [item |-> <<"request", a[Len(v) + i]>>, end |-> FALSE]
        /\ \A k \in 1..Len(t) : t[k].end \/ \E i \in 1..n : p[i] = k
  BY DEF Track
<1>2. \A i \in 1..n : p[i] \in 1..Len(t)
  BY <1>1
<1> HIDE DEF n
<1> DEFINE w == Append(v, m)
<1>3. /\ Len(t) = Len(r) + 2 /\ Len(r) \in Nat
      /\ t[1].item = <<"request", m>> /\ ~t[1].end /\ t[2].end
      /\ \A k \in 1..Len(r) : t[k + 2] = r[k]
  BY DEF LineThen
<1>4. Len(w) = Len(v) + 1 /\ w[Len(v) + 1] = m /\ \A i \in 1..Len(v) : w[i] = v[i]
  OBVIOUS
<1> HIDE DEF w
<1>5. 1 \in 1..n /\ p[1] = 1
  <2>0. 1 \in 1..Len(t)
    BY <1>3
  <2>1. PICK o \in 1..n : p[o] = 1
    BY <1>1, <1>3, <2>0
  <2>2. 1 \in 1..n
    BY <1>0, <2>1
  <2>3. p[1] \in 1..Len(t)
    BY <1>2, <2>2
  <2>4. CASE o = 1
    BY <2>1, <2>2, <2>4
  <2>5. CASE o # 1
    <3>1. 1 < o
      BY <1>0, <2>5
    <3>2. p[1] < p[o]
      BY <1>1, <2>2, <3>1
    <3> QED BY <1>0, <2>1, <2>3, <3>2
  <2> QED BY <2>4, <2>5
<1>6. a[Len(v) + 1] = m
  <2>1. t[p[1]] = [item |-> <<"request", a[Len(v) + 1]>>, end |-> FALSE]
    BY <1>1, <1>5
  <2>2. t[1].item = <<"request", a[Len(v) + 1]>>
    BY <1>5, <2>1
  <2> QED BY <1>3, <2>2
<1>7. ASSUME NEW i \in 1..n, i # 1
      PROVE  p[i] \in 3..Len(t)
  <2>1. 1 < i
    BY <1>0, <1>7
  <2>2. p[1] < p[i]
    BY <1>1, <1>5, <2>1
  <2>3. t[p[i]] = [item |-> <<"request", a[Len(v) + i]>>, end |-> FALSE]
    BY <1>1
  <2>4. p[i] # 2
    BY <1>3, <2>3
  <2>5. p[i] \in 1..Len(t)
    BY <1>2
  <2> QED BY <1>0, <1>5, <2>2, <2>4, <2>5
<1>8. /\ Len(v) < Len(a) /\ Len(w) <= Len(a) /\ Len(a) - Len(w) = n - 1
      /\ Len(w) \in Nat /\ n - 1 \in Nat
      /\ \A i \in 1..Len(w) : w[i] = a[i]
  <2>1. n >= 1 /\ Len(a) = Len(v) + n /\ Len(v) \in Nat /\ n \in Nat
    BY <1>0, <1>5
  <2>0. \A y \in Nat : \A i \in 1..(y + 1) : i \in 1..y \/ i = y + 1
    BY ONLY SMT
  <2>2. ASSUME NEW i \in 1..Len(w) PROVE w[i] = a[i]
    <3>1. i \in 1..(Len(v) + 1)
      BY <1>4
    <3>2. i \in 1..Len(v) \/ i = Len(v) + 1
      BY <2>0, <2>1, <3>1, Zenon
    <3> QED BY <1>0, <1>4, <1>6, <3>2
  <2>3. /\ Len(v) < Len(a) /\ Len(w) <= Len(a) /\ Len(a) - Len(w) = n - 1
        /\ Len(w) \in Nat /\ n - 1 \in Nat
    BY <1>4, <2>1
  <2> QED BY <2>2, <2>3
<1> DEFINE e == Len(a) - Len(w)
           q == [i \in 1..e |-> p[i + 1] - 2]
<1>9. e = n - 1 /\ e \in Nat
  BY <1>8
<1>10. \A i \in 1..e : q[i] = p[i + 1] - 2
  OBVIOUS
<1> HIDE DEF e
<1>11. ASSUME NEW i \in 1..e
       PROVE  i + 1 \in 1..n /\ p[i + 1] \in 3..Len(t)
  <2>1. i + 1 \in 1..n /\ i + 1 # 1
    BY <1>0, <1>9
  <2> QED BY <1>7, <2>1
<1>12. ASSUME NEW i \in 1..e
       PROVE  p[i + 1] - 2 \in 1..Len(r)
  <2>1. p[i + 1] \in 3..Len(t)
    BY <1>11
  <2> QED BY <1>0, <1>3, <2>1, SMTT(20)
<1>13. q \in [1..e -> 1..Len(r)]
  BY <1>12
<1> HIDE DEF q
<1>14. ASSUME NEW i \in 1..e, NEW j \in 1..e, i < j
       PROVE  q[i] < q[j]
  <2>1. i + 1 < j + 1
    BY <1>9, <1>14
  <2>2. p[i + 1] < p[j + 1]
    BY <1>1, <1>11, <2>1
  <2>3. p[i + 1] \in Int /\ p[j + 1] \in Int
    BY <1>11
  <2>4. \A x, y \in Int : x < y => x - 2 < y - 2
    OBVIOUS
  <2> QED BY <1>10, <2>2, <2>3, <2>4
<1>15. ASSUME NEW i \in 1..e
       PROVE  r[q[i]] = [item |-> <<"request", a[Len(w) + i]>>, end |-> FALSE]
  <2>1. p[i + 1] - 2 \in 1..Len(r) /\ p[i + 1] \in 3..Len(t)
    BY <1>11, <1>12
  <2>2. (p[i + 1] - 2) + 2 = p[i + 1]
    BY <1>0, <2>1
  <2>3. r[q[i]] = t[p[i + 1]]
    BY <1>3, <1>10, <2>1, <2>2
  <2>4. Len(w) + i = Len(v) + (i + 1)
    BY <1>0, <1>4, <1>9
  <2>5. t[p[i + 1]] = [item |-> <<"request", a[Len(v) + (i + 1)]>>, end |-> FALSE]
    BY <1>1, <1>11
  <2> QED BY <2>3, <2>4, <2>5
<1>16. ASSUME NEW k \in 1..Len(r), ~r[k].end
       PROVE  \E i \in 1..e : q[i] = k
  <2>0. k + 2 \in 1..Len(t) /\ ~t[k + 2].end /\ k + 2 # 1
    BY <1>3, <1>16
  <2>1. PICK i \in 1..n : p[i] = k + 2
    BY <1>1, <2>0
  <2>2. i # 1
    BY <1>5, <2>0, <2>1
  <2>3. i - 1 \in 1..e /\ (i - 1) + 1 = i
    BY <1>0, <1>9, <2>2
  <2>4. q[i - 1] = p[i] - 2
    BY <1>10, <2>3
  <2>5. p[i] - 2 = k
    BY <1>3, <2>1
  <2> QED BY <2>3, <2>4, <2>5
<1>17. Track(r, a, w)
  <2>1. /\ \A i, j \in 1..e : i < j => q[i] < q[j]
        /\ \A i \in 1..e : r[q[i]] = [item |-> <<"request", a[Len(w) + i]>>, end |-> FALSE]
        /\ \A k \in 1..Len(r) : r[k].end \/ \E i \in 1..e : q[i] = k
    BY <1>14, <1>15, <1>16
  <2> QED BY <1>8, <1>13, <2>1 DEF Track, e
<1> QED BY <1>6, <1>8, <1>17 DEF w

\* A read of t comes to the end of a line at the piece q: it has h then, and
\* r is left.
ReadsTo(t, h, r, q) ==
  /\ h \in Seq(Sends) /\ r \in Seq(Sends) /\ t \in Seq(Sends)
  /\ Len(h) \in Nat \ {0} /\ Len(t) = Len(h) + Len(r)
  /\ \A j \in 1..Len(h) : t[j] = h[j]
  /\ \A j \in 1..Len(r) : t[Len(h) + j] = r[j]
  /\ \A j \in 1..(Len(h) - 1) : ~h[j].end
  /\ h[Len(h)] = q /\ q.end /\ q \in Sends

LEMMA ReadFacts ==
  ASSUME NEW x \in Seq(Sends), NoEnd(x), NEW u \in Seq(Sends),
         NEW k \in DOMAIN u, EndsAt(u, k)
  PROVE  ReadsTo(x \o u, x \o Taken(u, k), Left(u, k), u[k])
<1> DEFINE y == Taken(u, k)
           r == Left(u, k)
           h == x \o y
           t == x \o u
<1>1. k \in 1..Len(u) /\ k \in 0..Len(u) /\ Len(u) \in Nat /\ Len(x) \in Nat /\ u[k] \in Sends
  OBVIOUS
<1>2. /\ y \in Seq(Sends) /\ Len(y) = k /\ \A i \in 1..k : y[i] = u[i]
      /\ r \in Seq(Sends) /\ Len(r) = Len(u) - k
      /\ \A i \in 1..(Len(u) - k) : r[i] = u[k + i]
  BY <1>1, SplitFacts
<1> HIDE DEF y, r
<1>3. /\ h \in Seq(Sends) /\ Len(h) = Len(x) + k
      /\ \A i \in 1..Len(x) : h[i] = x[i]
      /\ \A i \in 1..k : h[Len(x) + i] = y[i]
  <2>1. /\ h \in Seq(Sends) /\ Len(h) = Len(x) + Len(y)
        /\ \A i \in 1..Len(x) : h[i] = x[i]
        /\ \A i \in 1..Len(y) : h[Len(x) + i] = y[i]
    <3>1. y \in Seq(Sends)
      BY <1>2
    <3> QED BY <3>1, JoinFacts
  <2> QED BY <1>2, <2>1
<1>4. /\ t \in Seq(Sends) /\ Len(t) = Len(x) + Len(u)
      /\ \A i \in 1..Len(x) : t[i] = x[i]
      /\ \A i \in 1..Len(u) : t[Len(x) + i] = u[i]
  BY JoinFacts
<1> HIDE DEF h, t
<1>5. \A j \in 1..Len(h) : j \in 1..Len(x) \/ (j - Len(x) \in 1..k /\ Len(x) + (j - Len(x)) = j)
  BY <1>1, <1>3
<1>6. ASSUME NEW j \in 1..Len(h)
      PROVE  t[j] = h[j]
  <2>1. CASE j \in 1..Len(x)
    BY <1>3, <1>4, <2>1
  <2>2. CASE j - Len(x) \in 1..k /\ Len(x) + (j - Len(x)) = j
    <3>1. h[j] = y[j - Len(x)] /\ y[j - Len(x)] = u[j - Len(x)]
      BY <1>2, <1>3, <2>2
    <3>2. j - Len(x) \in 1..Len(u)
      BY <1>1, <2>2
    <3>3. t[j] = u[j - Len(x)]
      BY <1>4, <2>2, <3>2
    <3> QED BY <3>1, <3>3
  <2> QED BY <1>5, <2>1, <2>2
<1>7. ASSUME NEW j \in 1..Len(r)
      PROVE  t[Len(h) + j] = r[j]
  <2>1. k + j \in 1..Len(u) /\ Len(h) + j = Len(x) + (k + j) /\ j \in 1..(Len(u) - k)
    BY <1>1, <1>2, <1>3, SMTT(20)
  <2> QED BY <1>2, <1>4, <2>1
<1>8. ASSUME NEW j \in 1..(Len(h) - 1)
      PROVE  ~h[j].end
  <2>0. j \in 1..Len(h) /\ (j - Len(x) \in 1..k => j - Len(x) \in 1..(k - 1) /\ j - Len(x) \in 1..k)
    BY <1>1, <1>3
  <2>1. CASE j \in 1..Len(x)
    BY <1>3, <2>1 DEF NoEnd
  <2>2. CASE j - Len(x) \in 1..k /\ Len(x) + (j - Len(x)) = j
    <3>1. h[j] = y[j - Len(x)] /\ y[j - Len(x)] = u[j - Len(x)]
      BY <1>2, <1>3, <2>2
    <3>2. ~u[j - Len(x)].end
      BY <2>0, <2>2 DEF EndsAt
    <3> QED BY <3>1, <3>2
  <2> QED BY <1>5, <2>0, <2>1, <2>2
<1>9. h[Len(h)] = u[k] /\ u[k].end
  <2>1. k \in 1..k /\ Len(h) = Len(x) + k
    BY <1>1, <1>3
  <2>2. h[Len(h)] = y[k] /\ y[k] = u[k]
    BY <1>2, <1>3, <2>1
  <2> QED BY <2>2 DEF EndsAt
<1>10. Len(h) \in Nat \ {0} /\ Len(t) = Len(h) + Len(r)
  BY <1>1, <1>2, <1>3, <1>4
<1>11. ReadsTo(t, h, r, u[k])
  BY <1>1, <1>2, <1>3, <1>4, <1>6, <1>7, <1>8, <1>9, <1>10 DEF ReadsTo
<1> QED BY <1>11 DEF h, t, r, y

\* A whole line is a request that comes first.
LEMMA WholeFacts ==
  ASSUME NEW t, NEW h, NEW r, NEW q, ReadsTo(t, h, r, q), h = Line(q.item)
  PROVE  q.item = <<"request", q.item[2]>> /\ q.item[2] \in Messages /\ LineThen(t, q.item[2], r)
<1>1. q.item = <<"request", q.item[2]>> /\ q.item[2] \in Messages
  <2>1. q \in Sends
    BY DEF ReadsTo
  <2> QED BY <2>1 DEF Sends, Requests
<1>2. Len(h) = 2 /\ h[1] = [item |-> q.item, end |-> FALSE] /\ h[2] = [item |-> q.item, end |-> TRUE]
  BY LineFacts
<1>3. t[1] = h[1] /\ t[2] = h[2] /\ Len(t) = Len(r) + 2
  BY <1>2 DEF ReadsTo
<1>4. ASSUME NEW j \in 1..Len(r) PROVE t[j + 2] = r[j]
  <2>1. j + 2 = 2 + j /\ t[Len(h) + j] = r[j]
    BY DEF ReadsTo
  <2> QED BY <1>2, <2>1
<1> QED BY <1>1, <1>2, <1>3, <1>4 DEF LineThen

\* Where beginnings and ends take turns, a read that comes to an end has a whole
\* line.
LEMMA AlternatesWhole ==
  ASSUME NEW t, NEW h, NEW r, NEW q, Alternates(t), ReadsTo(t, h, r, q)
  PROVE  h = Line(q.item)
<1> DEFINE n == Len(h)
<1>1. /\ n \in Nat \ {0} /\ Len(t) = n + Len(r) /\ Len(r) \in Nat /\ t # <<>>
      /\ \A j \in 1..n : t[j] = h[j]
      /\ \A j \in 1..(n - 1) : ~h[j].end
      /\ h[n] = q /\ q.end
  BY DEF ReadsTo
<1>2. h \in Seq(Sends)
  BY DEF ReadsTo
<1>3. ~t[1].end /\ t[1] = h[1]
  BY <1>1 DEF Alternates
<1>4. 1 \in 1..(Len(t) - 1) /\ 2 \in 1..n /\ n # 1
  BY <1>1, <1>3
<1>5. t[2] = [item |-> t[1].item, end |-> TRUE]
  <2>1. t[1 + 1] = [item |-> t[1].item, end |-> TRUE]
    BY <1>3, <1>4 DEF Alternates
  <2> QED BY <2>1
<1>6. h[2] = [item |-> h[1].item, end |-> TRUE]
  BY <1>1, <1>3, <1>4, <1>5
<1>7. n = 2
  <2>1. h[2].end
    BY <1>6
  <2>2. 2 \notin 1..(n - 1)
    BY <1>1, <2>1
  <2>3. \A x \in Nat : 2 \in 1..x /\ 2 \notin 1..(x - 1) => x = 2
    OBVIOUS
  <2>4. n \in Nat
    BY <1>1
  <2> QED BY <1>4, <2>2, <2>3, <2>4
<1>8. q.item = h[1].item
  BY <1>1, <1>6, <1>7
<1>9. h[1] = [item |-> q.item, end |-> FALSE] /\ h[2] = [item |-> q.item, end |-> TRUE]
  <2>1. h[1] \in Sends
    BY <1>2, <1>7
  <2> QED BY <1>3, <1>6, <1>8, <2>1 DEF Sends
<1>10. h = <<h[1], h[2]>>
  BY <1>2, <1>7
<1> QED BY <1>9, <1>10 DEF Line

LEMMA AlternatesHandled ==
  ASSUME NEW t \in Seq(Sends), NEW m, NEW r \in Seq(Sends), Alternates(t), LineThen(t, m, r)
  PROVE  Alternates(r)
<1>1. Len(t) = Len(r) + 2 /\ Len(r) \in Nat /\ t[2].end /\ \A k \in 1..Len(r) : t[k + 2] = r[k]
  BY DEF LineThen
<1>2. ASSUME r # <<>> PROVE ~r[1].end
  <2>1. 1 \in 1..Len(r) /\ 2 \in 1..(Len(t) - 1) /\ 2 + 1 = 1 + 2
    BY <1>1, <1>2
  <2>2. ~t[2 + 1].end
    BY <1>1, <2>1 DEF Alternates
  <2> QED BY <1>1, <2>1, <2>2
<1>3. ASSUME NEW k \in 1..(Len(r) - 1)
      PROVE  IF r[k].end THEN ~r[k + 1].end ELSE r[k + 1] = [item |-> r[k].item, end |-> TRUE]
  <2>1. /\ k \in 1..Len(r) /\ k + 1 \in 1..Len(r) /\ k + 2 \in 1..(Len(t) - 1)
        /\ (k + 1) + 2 = (k + 2) + 1
    BY <1>1
  <2>2. t[k + 2] = r[k] /\ t[(k + 2) + 1] = r[k + 1]
    BY <1>1, <2>1
  <2>3. IF t[k + 2].end THEN ~t[(k + 2) + 1].end
        ELSE t[(k + 2) + 1] = [item |-> t[k + 2].item, end |-> TRUE]
    BY <2>1 DEF Alternates
  <2> QED BY <2>2, <2>3
<1> QED BY <1>2, <1>3 DEF Alternates

LastEnds(t) == t = <<>> \/ t[Len(t)].end

LEMMA AlternatesBegins ==
  ASSUME NEW t \in Seq(Sends), Alternates(t), LastEnds(t), NEW q \in Sends, ~q.end
  PROVE  Alternates(Append(t, q))
<1> DEFINE s == Append(t, q)
<1>1. Len(s) = Len(t) + 1 /\ s[Len(t) + 1] = q /\ \A k \in 1..Len(t) : s[k] = t[k]
  OBVIOUS
<1>2. Len(t) \in Nat /\ (t = <<>> <=> Len(t) = 0)
  OBVIOUS
<1> HIDE DEF s
<1>3. ~s[1].end
  <2>1. CASE t = <<>>
    BY <1>1, <1>2, <2>1
  <2>2. CASE t # <<>>
    <3>1. 1 \in 1..Len(t)
      BY <1>2, <2>2
    <3> QED BY <1>1, <2>2, <3>1 DEF Alternates
  <2> QED BY <2>1, <2>2
<1>4. ASSUME NEW k \in 1..(Len(s) - 1)
      PROVE  IF s[k].end THEN ~s[k + 1].end ELSE s[k + 1] = [item |-> s[k].item, end |-> TRUE]
  <2>1. CASE k = Len(t)
    <3>1. t # <<>> /\ k \in 1..Len(t)
      BY <1>2, <2>1
    <3>2. s[k].end
      BY <1>1, <2>1, <3>1 DEF LastEnds
    <3> QED BY <1>1, <2>1, <3>2
  <2>2. CASE k # Len(t)
    <3>1. k \in 1..(Len(t) - 1) /\ k \in 1..Len(t) /\ k + 1 \in 1..Len(t)
      BY <1>1, <1>2, <2>2
    <3> QED BY <1>1, <3>1 DEF Alternates
  <2> QED BY <2>1, <2>2
<1>5. Alternates(s)
  BY <1>3, <1>4 DEF Alternates
<1> QED BY <1>5 DEF s

LEMMA AlternatesEnds ==
  ASSUME NEW t \in Seq(Sends), Alternates(t), t # <<>>, NEW q \in Sends, q.end,
         t[Len(t)] = [item |-> q.item, end |-> FALSE]
  PROVE  Alternates(Append(t, q))
<1> DEFINE s == Append(t, q)
<1>1. Len(s) = Len(t) + 1 /\ s[Len(t) + 1] = q /\ \A k \in 1..Len(t) : s[k] = t[k]
  OBVIOUS
<1>2. Len(t) \in Nat /\ 1 \in 1..Len(t) /\ Len(t) \in 1..Len(t)
  OBVIOUS
<1> HIDE DEF s
<1>3. ~s[1].end
  BY <1>1, <1>2 DEF Alternates
<1>4. ASSUME NEW k \in 1..(Len(s) - 1)
      PROVE  IF s[k].end THEN ~s[k + 1].end ELSE s[k + 1] = [item |-> s[k].item, end |-> TRUE]
  <2>1. CASE k = Len(t)
    <3>1. s[k] = [item |-> q.item, end |-> FALSE] /\ s[k + 1] = q
      BY <1>1, <1>2, <2>1
    <3>2. q = [item |-> q.item, end |-> TRUE]
      BY DEF Sends
    <3> QED BY <3>1, <3>2
  <2>2. CASE k # Len(t)
    <3>1. k \in 1..(Len(t) - 1) /\ k \in 1..Len(t) /\ k + 1 \in 1..Len(t)
      BY <1>1, <1>2, <2>2
    <3> QED BY <1>1, <3>1 DEF Alternates
  <2> QED BY <2>1, <2>2
<1>5. Alternates(s)
  BY <1>3, <1>4 DEF Alternates
<1> QED BY <1>5 DEF s

-----------------------------------------------------------------------------
(* The inductive invariant.                                                *)

Dropped(c, side) == <<c, side>> \in cut
Unserved(c) == task[c] \in {"none", "open"}

\* What is left to write is a line, its end, or nothing; what the pending read
\* has consumed ends nothing.
Shape(c) ==
  /\ \/ wr[c] = <<>>
     \/ \E q \in Sends : q.end /\ wr[c] = <<q>>
     \/ \E m \in Messages : wr[c] = Line(<<"request", m>>)
  /\ client[c] \in {"none", "closed"} => wr[c] = <<>>
  /\ NoEnd(inpart[c])

\* Before it is accepted, and before it is made, a connection is empty.
Untouched(c) ==
  /\ task[c] = "none" => /\ inpart[c] = <<>> /\ served[c] = <<>> /\ got[c] = <<>>
                         /\ down[c] = <<>> /\ ~Dropped(c, "read") /\ ~Dropped(c, "stray")
  /\ client[c] = "none" => task[c] = "none" /\ up[c] = <<>> /\ sent[c] = <<>>

\* While no read is dropped with what it has or had, the messages come in their
\* order, each with its beginning.
Tracked(c) ==
  Unserved(c) /\ ~Dropped(c, "read") /\ ~Dropped(c, "stray")
    => Track(Coming(c), sent[c], served[c])

\* While nothing is cut, lines come one after the other, and the client writes
\* the end of the last one next.
Aligned(c) ==
  Unserved(c) /\ ~Damaged(c) =>
    /\ Alternates(Coming(c))
    /\ client[c] # "closed" =>
         IF Len(wr[c]) = 1
         THEN /\ Coming(c) # <<>>
              /\ Coming(c)[Len(Coming(c))] = [item |-> wr[c][1].item, end |-> FALSE]
         ELSE LastEnds(Coming(c))

\* After a read was dropped with a beginning, the end of its line comes first.
Headless(c) ==
  task[c] = "open" /\ Dropped(c, "read") /\ ~Dropped(c, "send") /\ ~Dropped(c, "stray") =>
    /\ Coming(c) # <<>> => Coming(c)[1].end
    /\ client[c] # "closed" /\ Coming(c) = <<>> => Len(wr[c]) = 1

\* EndsForCause, where a connection nobody accepted has nothing to receive.
Caused(c) ==
  /\ task[c] = "garbled" => Damaged(c)
  /\ task[c] = "ended" /\ client[c] \in {"open", "garbled"} /\ c \notin crashed
       => Damaged(c) \/ (Unaccepted(c) /\ down[c] = <<>>)

\* ServedInOrder for a connection.
Prefix(c) ==
  \/ /\ Len(served[c]) <= Len(sent[c])
     /\ \A i \in DOMAIN served[c] : served[c][i] = sent[c][i]
  \/ Dropped(c, "send") /\ Dropped(c, "read")
  \/ Dropped(c, "stray")

Sound(c) ==
  /\ Shape(c) /\ Untouched(c) /\ Tracked(c) /\ Aligned(c) /\ Headless(c)
  /\ Caused(c) /\ Prefix(c)

\* Each connection in the backlog waits there once and is not accepted.
Queue ==
  /\ \A i \in 1..Len(backlog) : task[backlog[i]] = "none" /\ client[backlog[i]] # "none"
  /\ \A i, j \in 1..Len(backlog) : backlog[i] = backlog[j] => i = j

LinkInv == Typing /\ Queue /\ \A c \in Conns : Sound(c)

\* The parts of a step in which connection d does not change.
Still(d) ==
  /\ task'[d] = task[d] /\ client'[d] = client[d] /\ wr'[d] = wr[d]
  /\ inpart'[d] = inpart[d] /\ up'[d] = up[d] /\ down'[d] = down[d]
  /\ sent'[d] = sent[d] /\ served'[d] = served[d] /\ got'[d] = got[d]
  /\ \A side \in {"send", "read", "stray"} : <<d, side>> \in cut' <=> <<d, side>> \in cut

LEMMA StillSound ==
  ASSUME NEW d \in Conns, Sound(d), Still(d), UNCHANGED <<loop, running, crashed>>
  PROVE  Sound(d)'
<1>1. /\ (Coming(d))' = Coming(d) /\ Unserved(d)' = Unserved(d)
      /\ Damaged(d)' <=> Damaged(d)
      /\ Dropped(d, "send")' <=> Dropped(d, "send")
      /\ Dropped(d, "read")' <=> Dropped(d, "read")
      /\ Dropped(d, "stray")' <=> Dropped(d, "stray")
      /\ Unaccepted(d)' <=> Unaccepted(d)
  BY DEF Still, Coming, Unserved, Damaged, Dropped, Unaccepted
<1>2. Shape(d)' /\ Untouched(d)'
  BY <1>1 DEF Still, Sound, Shape, Untouched
<1>3. Tracked(d)'
  BY <1>1 DEF Still, Sound, Tracked
<1>4. Aligned(d)' /\ Headless(d)'
  BY <1>1 DEF Still, Sound, Aligned, Headless
<1>5. Caused(d)' /\ Prefix(d)'
  BY <1>1 DEF Still, Sound, Caused, Prefix
<1> QED BY <1>2, <1>3, <1>4, <1>5 DEF Sound

LEMMA SoundInit == Init => LinkInv
<1> SUFFICES ASSUME Init PROVE LinkInv
  OBVIOUS
<1>1. Typing
  BY TypingInit
<1>2. Queue
  BY DEF Init, Queue
<1>3. ASSUME NEW c \in Conns PROVE Sound(c)
  <2>1. /\ task[c] = "none" /\ client[c] = "none" /\ wr[c] = <<>> /\ inpart[c] = <<>>
        /\ up[c] = <<>> /\ down[c] = <<>> /\ sent[c] = <<>> /\ served[c] = <<>>
        /\ got[c] = <<>> /\ cut = {} /\ Coming(c) = <<>>
    BY DEF Init, Coming
  <2>2. Track(<<>>, <<>>, <<>>)
    <3> DEFINE e == Len(<<>>) - Len(<<>>)
               p == [i \in 1..e |-> 0]
    <3>1. Len(<<>>) = 0 /\ e = 0
      OBVIOUS
    <3>2. \A i \in 1..e : FALSE
      BY <3>1
    <3>3. \A i \in 1..Len(<<>>) : FALSE
      BY <3>1
    <3> HIDE DEF e
    <3>4. p \in [1..e -> 1..Len(<<>>)]
      BY <3>2
    <3> HIDE DEF p
    <3>5. \E f \in [1..e -> 1..Len(<<>>)] :
            /\ \A i, j \in 1..e : i < j => f[i] < f[j]
            /\ \A i \in 1..e : <<>>[f[i]] = [item |-> <<"request", <<>>[Len(<<>>) + i]>>, end |-> FALSE]
            /\ \A k \in 1..Len(<<>>) : <<>>[k].end \/ \E i \in 1..e : f[i] = k
      BY <3>2, <3>3, <3>4
    <3>6. Len(<<>>) <= Len(<<>>) /\ \A i \in 1..Len(<<>>) : <<>>[i] = <<>>[i]
      BY <3>1
    <3> QED BY <3>5, <3>6 DEF Track, e
  <2>3. Alternates(<<>>) /\ LastEnds(<<>>)
    BY DEF Alternates, LastEnds
  <2> QED
    BY <2>1, <2>2, <2>3
    DEF Sound, Shape, NoEnd, Untouched, Dropped, Tracked, Aligned, Headless, Caused, Prefix
<1> QED BY <1>1, <1>2, <1>3 DEF LinkInv

\* The types of what a connection has.
LEMMA ConnTypes ==
  ASSUME Typing, NEW c \in Conns
  PROVE  /\ inpart[c] \in Seq(Sends) /\ up[c] \in Seq(Sends) /\ wr[c] \in Seq(Sends)
         /\ Coming(c) \in Seq(Sends)
         /\ sent[c] \in Seq(Messages) /\ served[c] \in Seq(Messages)
BY DEF Typing, Coming

\* A connection is made.
LEMMA ConnectSound ==
  ASSUME LinkInv, NEW c \in Conns, Connect(c)
  PROVE  Queue' /\ \A d \in Conns : Sound(d)'
<1>1. /\ client[c] = "none" /\ client' = [client EXCEPT ![c] = "open"]
      /\ wr' = [wr EXCEPT ![c] = <<>>] /\ backlog' = Append(backlog, c)
      /\ UNCHANGED <<loop, running, log, serving, rdpart, streams, history>>
  BY DEF Connect, ConnectToSend
<1>2. Typing /\ Queue /\ Sound(c) /\ task[c] = "none" /\ wr[c] = <<>>
  BY <1>1 DEF LinkInv, Sound, Untouched, Shape
<1>3. client'[c] = "open" /\ wr'[c] = wr[c]
  BY <1>1, <1>2 DEF Typing
<1>4. \A d \in Conns \ {c} : Still(d)
  BY <1>1, <1>2 DEF Typing, Still
<1>5. Sound(c)'
  <2>1. (Coming(c))' = Coming(c) /\ Coming(c) = <<>>
    <3>1. inpart[c] = <<>> /\ up[c] = <<>>
      BY <1>1, <1>2 DEF Sound, Untouched
    <3> QED BY <1>1, <3>1 DEF Coming
  <2>2. Shape(c)' /\ Untouched(c)'
    BY <1>1, <1>2, <1>3 DEF Sound, Shape, Untouched, Dropped
  <2>3. Tracked(c)'
    BY <1>1, <1>2, <2>1 DEF Sound, Tracked, Unserved, Dropped
  <2>4. Aligned(c)' /\ Headless(c)'
    BY <1>1, <1>2, <1>3, <2>1 DEF Sound, Aligned, Headless, Unserved, Dropped, Damaged, LastEnds
  <2>5. Caused(c)' /\ Prefix(c)'
    BY <1>1, <1>2 DEF Sound, Caused, Prefix, Dropped
  <2> QED BY <2>2, <2>3, <2>4, <2>5 DEF Sound
<1>6. Queue'
  <2>1. backlog \in Seq(Conns)
    BY <1>2 DEF Typing
  <2>2. /\ Len(backlog') = Len(backlog) + 1 /\ backlog'[Len(backlog) + 1] = c
        /\ \A i \in 1..Len(backlog) : backlog'[i] = backlog[i] /\ backlog[i] \in Conns
    BY <1>1, <2>1
  <2>3. Len(backlog) \in Nat
    BY <2>1
  <2>4. \A i \in 1..Len(backlog') : i \in 1..Len(backlog) \/ i = Len(backlog) + 1
    BY <2>2, <2>3
  <2>5. \A i \in 1..Len(backlog) : backlog[i] # c /\ client[backlog[i]] # "none" /\ task[backlog[i]] = "none"
    BY <1>1, <1>2 DEF Queue
  <2>6. \A d \in Conns \ {c} : client'[d] = client[d]
    BY <1>4 DEF Still
  <2>7. task' = task
    BY <1>1
  <2>8. ASSUME NEW i \in 1..Len(backlog') 
        PROVE  task'[backlog'[i]] = "none" /\ client'[backlog'[i]] # "none"
    BY <1>2, <1>3, <2>2, <2>4, <2>5, <2>6, <2>7
  <2>9. ASSUME NEW i \in 1..Len(backlog'), NEW j \in 1..Len(backlog'), backlog'[i] = backlog'[j]
        PROVE  i = j
    BY <1>2, <2>2, <2>4, <2>5, <2>9 DEF Queue
  <2> QED BY <2>8, <2>9 DEF Queue
<1>7. ASSUME NEW d \in Conns PROVE Sound(d)'
  <2>1. UNCHANGED <<loop, running, crashed>> /\ Sound(d)
    BY <1>1 DEF LinkInv
  <2> QED BY <1>4, <1>5, <2>1, StillSound
<1> QED BY <1>6, <1>7

\* What the steps of one connection leave alone.
Alone(c) ==
  /\ UNCHANGED <<accepting, crashed>>
  /\ \A d \in Conns \ {c} : Still(d)
  /\ task[c] = "none" => task'[c] = "none"
  /\ client'[c] = "none" => client[c] = "none"
  /\ client[c] # "none" => client'[c] # "none"

LEMMA AloneSound ==
  ASSUME LinkInv, NEW c \in Conns, Alone(c), Sound(c)'
  PROVE  Queue' /\ \A d \in Conns : Sound(d)'
<1>1. UNCHANGED <<loop, running, backlog, crashed>>
  BY DEF Alone
<1>2. ASSUME NEW d \in Conns PROVE Sound(d)'
  <2>1. CASE d = c
    BY <2>1
  <2>2. CASE d # c
    <3>1. Still(d) /\ Sound(d)
      BY <2>2 DEF Alone, LinkInv
    <3> QED BY <1>1, <3>1, StillSound
  <2> QED BY <2>1, <2>2
<1>3. ASSUME NEW d \in Conns, task[d] = "none", client[d] # "none"
      PROVE  task'[d] = "none" /\ client'[d] # "none"
  BY <1>3 DEF Alone, Still
<1>4. \A i \in 1..Len(backlog) : backlog[i] \in Conns
  BY DEF LinkInv, Typing
<1>5. Queue'
  BY <1>1, <1>3, <1>4 DEF Queue, LinkInv
<1> QED BY <1>2, <1>5

\* The client begins to write: nothing has moved yet.
LEMMA BeginSendSound ==
  ASSUME LinkInv, NEW c \in Conns, NEW m \in Messages, BeginSend(c, m)
  PROVE  Alone(c) /\ Sound(c)'
<1>1. /\ Typing /\ Sound(c) /\ client[c] \in {"open", "garbled"} /\ wr[c] = <<>>
      /\ wr' = [wr EXCEPT ![c] = Line(<<"request", m>>)]
      /\ UNCHANGED <<accepting, serving, client, streams, history>>
  BY DEF BeginSend, LinkInv
<1>2. wr'[c] = Line(<<"request", m>>) /\ Len(wr'[c]) = 2 /\ Len(wr[c]) = 0
  BY <1>1, LineFacts DEF Typing
<1>3. Alone(c)
  BY <1>1 DEF Alone, Still, Typing
<1>4. (Coming(c))' = Coming(c)
  BY <1>1 DEF Coming
<1>5. Shape(c)' /\ Untouched(c)'
  BY <1>1, <1>2 DEF Sound, Shape, Untouched, Dropped
<1>6. Tracked(c)' /\ Prefix(c)'
  BY <1>1, <1>4 DEF Sound, Tracked, Unserved, Dropped, Prefix
<1>7. Aligned(c)'
  BY <1>1, <1>2, <1>4 DEF Sound, Aligned, Unserved, Damaged
<1>8. Headless(c)' /\ Caused(c)'
  BY <1>1, <1>2, <1>4 DEF Sound, Headless, Caused, Dropped, Damaged, Unaccepted
<1> QED BY <1>3, <1>5, <1>6, <1>7, <1>8 DEF Sound

\* Pieces that are written come after those that are on their way.
LEMMA AppendOne ==
  ASSUME NEW x \in Seq(Sends), NEW u \in Seq(Sends), NEW q \in Sends
  PROVE  x \o (u \o <<q>>) = Append(x \o u, q)
OBVIOUS

LEMMA AppendTwo ==
  ASSUME NEW x \in Seq(Sends), NEW u \in Seq(Sends), NEW q \in Sends, NEW z \in Sends
  PROVE  x \o (u \o <<q, z>>) = Append(Append(x \o u, q), z)
OBVIOUS

LEMMA LastOfAppend ==
  ASSUME NEW t \in Seq(Sends), NEW q \in Sends
  PROVE  /\ Append(t, q) \in Seq(Sends) /\ Append(t, q) # <<>>
         /\ Len(Append(t, q)) = Len(t) + 1
         /\ Append(t, q)[Len(Append(t, q))] = q
         /\ t # <<>> => Append(t, q)[1] = t[1]
         /\ t = <<>> => Append(t, q)[1] = q
OBVIOUS

LEMMA ShortFacts ==
  ASSUME NEW S, NEW s \in Seq(S)
  PROVE  /\ Len(s) = 0 => s = <<>>
         /\ Len(s) = 1 => s = <<s[1]>>
         /\ Len(s) = 2 => s = <<s[1], s[2]>>
OBVIOUS

LEMMA SplitOne ==
  ASSUME NEW S, NEW q \in S
  PROVE  Taken(<<q>>, 1) = <<q>> /\ Left(<<q>>, 1) = <<>>
<1> DEFINE s == <<q>>
<1>1. s \in Seq(S) /\ Len(s) = 1 /\ s[1] = q /\ 1 \in 0..Len(s) /\ 1 \in 1..1
  OBVIOUS
<1> HIDE DEF s
<1>a. /\ Taken(s, 1) \in Seq(S) /\ Len(Taken(s, 1)) = 1
      /\ \A i \in 1..1 : Taken(s, 1)[i] = s[i]
      /\ Left(s, 1) \in Seq(S) /\ Len(Left(s, 1)) = Len(s) - 1
  <2>1. s \in Seq(S) /\ 1 \in 0..Len(s)
    BY <1>1
  <2> QED BY ONLY <2>1, SplitFacts
<1>2. /\ Taken(s, 1) \in Seq(S) /\ Len(Taken(s, 1)) = 1 /\ Taken(s, 1)[1] = s[1]
      /\ Left(s, 1) \in Seq(S) /\ Len(Left(s, 1)) = 0
  BY <1>1, <1>a
<1>3. Taken(s, 1) = <<q>> /\ Left(s, 1) = <<>>
  BY <1>1, <1>2, ShortFacts
<1> QED BY <1>3 DEF s

LEMMA SplitTwo ==
  ASSUME NEW S, NEW q \in S, NEW z \in S
  PROVE  /\ Taken(<<q, z>>, 1) = <<q>> /\ Left(<<q, z>>, 1) = <<z>>
         /\ Taken(<<q, z>>, 2) = <<q, z>> /\ Left(<<q, z>>, 2) = <<>>
<1> DEFINE s == <<q, z>>
<1>1. /\ s \in Seq(S) /\ Len(s) = 2 /\ s[1] = q /\ s[2] = z
      /\ 1 \in 0..Len(s) /\ 2 \in 0..Len(s) /\ 1 \in 1..1 /\ 1 \in 1..2 /\ 2 \in 1..2
  OBVIOUS
<1> HIDE DEF s
<1>a. /\ Taken(s, 1) \in Seq(S) /\ Len(Taken(s, 1)) = 1
      /\ \A i \in 1..1 : Taken(s, 1)[i] = s[i]
      /\ Left(s, 1) \in Seq(S) /\ Len(Left(s, 1)) = Len(s) - 1
      /\ \A i \in 1..(Len(s) - 1) : Left(s, 1)[i] = s[1 + i]
  <2>1. s \in Seq(S) /\ 1 \in 0..Len(s)
    BY <1>1
  <2> QED BY ONLY <2>1, SplitFacts
<1>b. /\ Taken(s, 2) \in Seq(S) /\ Len(Taken(s, 2)) = 2
      /\ \A i \in 1..2 : Taken(s, 2)[i] = s[i]
      /\ Left(s, 2) \in Seq(S) /\ Len(Left(s, 2)) = Len(s) - 2
  <2>1. s \in Seq(S) /\ 2 \in 0..Len(s)
    BY <1>1
  <2> QED BY ONLY <2>1, SplitFacts
<1>2. /\ Taken(s, 1) \in Seq(S) /\ Len(Taken(s, 1)) = 1 /\ Taken(s, 1)[1] = s[1]
      /\ Left(s, 1) \in Seq(S) /\ Len(Left(s, 1)) = 1 /\ Left(s, 1)[1] = s[2]
  <2>1. 1 \in 1..(Len(s) - 1) /\ 1 + 1 = 2
    BY <1>1
  <2> QED BY <1>1, <1>a, <2>1
<1>3. /\ Taken(s, 2) \in Seq(S) /\ Len(Taken(s, 2)) = 2
      /\ Taken(s, 2)[1] = s[1] /\ Taken(s, 2)[2] = s[2]
      /\ Left(s, 2) \in Seq(S) /\ Len(Left(s, 2)) = 0
  BY <1>1, <1>b
<1>4. Taken(s, 1) = <<q>> /\ Left(s, 1) = <<z>>
  BY <1>1, <1>2, ShortFacts
<1>5. Taken(s, 2) = <<q, z>> /\ Left(s, 2) = <<>>
  BY <1>1, <1>3, ShortFacts
<1> QED BY <1>4, <1>5 DEF s

LEMMA LengthFacts ==
  ASSUME NEW q, NEW z
  PROVE  /\ Len(<<>>) = 0
         /\ Len(<<q>>) = 1 /\ <<q>>[1] = q /\ <<q>> # <<>>
         /\ Len(<<q, z>>) = 2 /\ <<q, z>>[1] = q /\ <<q, z>> # <<>>
OBVIOUS

\* The pieces x are written and rest is left.
Moves(c, x, rest) ==
  /\ wr'[c] = rest /\ up'[c] = up[c] \o x
  /\ task'[c] = task[c] /\ client'[c] = client[c] /\ inpart'[c] = inpart[c]
  /\ down'[c] = down[c] /\ served'[c] = served[c] /\ got'[c] = got[c]
  /\ UNCHANGED <<accepting, cut, crashed>>

\* The end of a line is written.
LEMMA WriteEndSound ==
  ASSUME LinkInv, NEW c \in Conns, NEW q \in Sends, q.end, wr[c] = <<q>>,
         Moves(c, <<q>>, <<>>), sent'[c] = sent[c]
  PROVE  Sound(c)'
<1>1. Typing /\ Sound(c)
  BY DEF LinkInv
<1>2. /\ wr'[c] = <<>> /\ up'[c] = up[c] \o <<q>>
      /\ task'[c] = task[c] /\ client'[c] = client[c] /\ inpart'[c] = inpart[c]
      /\ down'[c] = down[c] /\ served'[c] = served[c] /\ got'[c] = got[c]
      /\ UNCHANGED <<accepting, cut, crashed>>
  BY DEF Moves
<1>3. /\ inpart[c] \in Seq(Sends) /\ up[c] \in Seq(Sends) /\ Coming(c) \in Seq(Sends)
      /\ sent[c] \in Seq(Messages) /\ served[c] \in Seq(Messages)
  BY <1>1, ConnTypes
<1>4. (Coming(c))' = Append(Coming(c), q)
  <2>1. (Coming(c))' = inpart[c] \o (up[c] \o <<q>>)
    BY <1>2 DEF Coming
  <2> QED BY <1>3, <2>1, AppendOne DEF Coming
<1>5. Len(wr[c]) = 1 /\ wr[c][1] = q /\ Len(wr'[c]) # 1 /\ wr[c] # <<>>
  BY <1>2, LengthFacts
<1>6. client[c] \notin {"none", "closed"}
  BY <1>1, <1>5 DEF Sound, Shape
<1>7. Shape(c)' /\ Untouched(c)'
  BY <1>1, <1>2, <1>6 DEF Sound, Shape, Untouched, Dropped
<1>8. Tracked(c)'
  <2>1. SUFFICES ASSUME Unserved(c), ~Dropped(c, "read"), ~Dropped(c, "stray")
                 PROVE  Track((Coming(c))', sent[c], served[c])
    BY <1>2 DEF Tracked, Unserved, Dropped
  <2>2. Track(Coming(c), sent[c], served[c])
    BY <1>1, <2>1 DEF Sound, Tracked
  <2> QED BY <1>3, <1>4, <2>2, TrackEnds
<1>9. Prefix(c)'
  BY <1>1, <1>2 DEF Sound, Prefix, Dropped
<1>10. Aligned(c)'
  <2>1. SUFFICES ASSUME Unserved(c), ~Damaged(c)
                 PROVE  Alternates((Coming(c))') /\ LastEnds((Coming(c))')
    BY <1>2, <1>5 DEF Aligned, Unserved, Damaged
  <2>2. /\ Alternates(Coming(c)) /\ Coming(c) # <<>>
        /\ Coming(c)[Len(Coming(c))] = [item |-> q.item, end |-> FALSE]
    BY <1>1, <1>5, <1>6, <2>1 DEF Sound, Aligned
  <2>3. Alternates(Append(Coming(c), q))
    BY <1>3, <2>2, AlternatesEnds
  <2>4. LastEnds(Append(Coming(c), q))
    BY <1>3, LastOfAppend DEF LastEnds
  <2> QED BY <1>4, <2>3, <2>4
<1>11. Headless(c)'
  <2>1. /\ (Coming(c))' # <<>>
        /\ Coming(c) # <<>> => (Coming(c))'[1] = Coming(c)[1]
        /\ Coming(c) = <<>> => (Coming(c))'[1] = q
    BY <1>3, <1>4, LastOfAppend, SMTT(20)
  <2> QED BY <1>1, <1>2, <2>1 DEF Sound, Headless, Dropped
<1>12. Caused(c)'
  BY <1>1, <1>2 DEF Sound, Caused, Damaged, Unaccepted
<1> QED BY <1>7, <1>8, <1>9, <1>10, <1>11, <1>12 DEF Sound

\* The beginning of a line is written, and the end with it or not.
LEMMA WriteBeginSound ==
  ASSUME LinkInv, NEW c \in Conns, NEW m \in Messages, NEW q \in Sends, NEW z \in Sends,
         q = [item |-> <<"request", m>>, end |-> FALSE],
         z = [item |-> <<"request", m>>, end |-> TRUE],
         wr[c] = <<q, z>>,
         Moves(c, <<q>>, <<z>>) \/ Moves(c, <<q, z>>, <<>>),
         sent'[c] = Append(sent[c], m)
  PROVE  Sound(c)'
<1>1. Typing /\ Sound(c)
  BY DEF LinkInv
<1>2. /\ task'[c] = task[c] /\ client'[c] = client[c] /\ inpart'[c] = inpart[c]
      /\ down'[c] = down[c] /\ served'[c] = served[c] /\ got'[c] = got[c]
      /\ UNCHANGED <<accepting, cut, crashed>>
  BY DEF Moves
<1>3. /\ inpart[c] \in Seq(Sends) /\ up[c] \in Seq(Sends) /\ Coming(c) \in Seq(Sends)
      /\ sent[c] \in Seq(Messages) /\ served[c] \in Seq(Messages)
  BY <1>1, ConnTypes
<1> DEFINE t == Append(Coming(c), q)
<1>4. /\ t \in Seq(Sends) /\ t # <<>> /\ t[Len(t)] = q
      /\ Coming(c) # <<>> => t[1] = Coming(c)[1]
  BY <1>3, LastOfAppend
<1>a. Append(t, z) # <<>> /\ Append(t, z)[1] = t[1] /\ LastEnds(Append(t, z))
  <2>1. z.end
    OBVIOUS
  <2> HIDE DEF t
  <2> QED BY <1>4, <2>1, LastOfAppend DEF LastEnds
<1>5. \/ wr'[c] = <<z>> /\ (Coming(c))' = t
      \/ wr'[c] = <<>> /\ (Coming(c))' = Append(t, z)
  <2>1. CASE Moves(c, <<q>>, <<z>>)
    <3>1. wr'[c] = <<z>> /\ (Coming(c))' = inpart[c] \o (up[c] \o <<q>>)
      BY <2>1 DEF Coming, Moves
    <3>2. inpart[c] \o (up[c] \o <<q>>) = t
      BY <1>3, AppendOne DEF Coming
    <3> QED BY <3>1, <3>2
  <2>2. CASE Moves(c, <<q, z>>, <<>>)
    <3>1. wr'[c] = <<>> /\ (Coming(c))' = inpart[c] \o (up[c] \o <<q, z>>)
      BY <2>2 DEF Coming, Moves
    <3>2. inpart[c] \o (up[c] \o <<q, z>>) = Append(t, z)
      BY <1>3, AppendTwo, ZenonT(30) DEF Coming
    <3> QED BY <3>1, <3>2
  <2> QED BY <2>1, <2>2
<1> HIDE DEF t
<1>6. wr[c] # <<>> /\ Len(wr[c]) # 1
  BY LengthFacts
<1>b. client[c] \notin {"none", "closed"}
  BY <1>1, <1>6 DEF Sound, Shape
<1>7. Shape(c)' /\ Untouched(c)'
  <2>1. z.end
    OBVIOUS
  <2> QED BY <1>1, <1>2, <1>5, <1>b, <2>1 DEF Sound, Shape, Untouched, Dropped
<1>8. Tracked(c)'
  <2>1. SUFFICES ASSUME Unserved(c), ~Dropped(c, "read"), ~Dropped(c, "stray")
                 PROVE  Track((Coming(c))', Append(sent[c], m), served[c])
    BY <1>2 DEF Tracked, Unserved, Dropped
  <2>2. Track(Coming(c), sent[c], served[c])
    BY <1>1, <2>1 DEF Sound, Tracked
  <2>3. Track(t, Append(sent[c], m), served[c])
    BY <1>3, <2>2, TrackBegins DEF t
  <2>4. Track(Append(t, z), Append(sent[c], m), served[c])
    <3>1. Append(sent[c], m) \in Seq(Messages) /\ z.end
      BY <1>3
    <3> QED BY <1>3, <1>4, <2>3, <3>1, TrackEnds
  <2> QED BY <1>5, <2>3, <2>4
<1>9. Prefix(c)'
  <2>1. /\ Len(sent'[c]) = Len(sent[c]) + 1
        /\ \A i \in 1..Len(sent[c]) : sent'[c][i] = sent[c][i]
        /\ DOMAIN served[c] = 1..Len(served[c])
        /\ Len(sent[c]) \in Nat /\ Len(served[c]) \in Nat
    BY <1>3
  <2>2. Prefix(c)
    BY <1>1 DEF Sound
  <2>3. CASE (Dropped(c, "send") /\ Dropped(c, "read")) \/ Dropped(c, "stray")
    BY <1>2, <2>3 DEF Prefix, Dropped
  <2>4. CASE /\ Len(served[c]) <= Len(sent[c])
             /\ \A i \in DOMAIN served[c] : served[c][i] = sent[c][i]
    <3>1. Len(served[c]) <= Len(sent'[c])
      BY <2>1, <2>4
    <3>2. \A i \in DOMAIN served[c] : i \in 1..Len(sent[c]) /\ served[c][i] = sent'[c][i]
      BY <2>1, <2>4
    <3> QED BY <1>2, <3>1, <3>2 DEF Prefix
  <2> QED BY <2>2, <2>3, <2>4 DEF Prefix
<1>10. Aligned(c)'
  <2>1. SUFFICES ASSUME Unserved(c), ~Damaged(c)
                 PROVE  /\ Alternates((Coming(c))')
                        /\ IF Len(wr'[c]) = 1
                           THEN /\ (Coming(c))' # <<>>
                                /\ (Coming(c))'[Len((Coming(c))')] = [item |-> wr'[c][1].item, end |-> FALSE]
                           ELSE LastEnds((Coming(c))')
    BY <1>2 DEF Aligned, Unserved, Damaged
  <2>2. Alternates(Coming(c)) /\ LastEnds(Coming(c))
    BY <1>1, <1>6, <1>b, <2>1 DEF Sound, Aligned
  <2>3. Alternates(t)
    <3>1. ~q.end
      OBVIOUS
    <3> QED BY <1>3, <2>2, <3>1, AlternatesBegins DEF t
  <2>4. CASE wr'[c] = <<z>> /\ (Coming(c))' = t
    <3>1. Len(wr'[c]) = 1 /\ wr'[c][1] = z
      BY <2>4, LengthFacts
    <3>2. t[Len(t)] = [item |-> z.item, end |-> FALSE]
      BY <1>4
    <3> QED BY <1>4, <2>3, <2>4, <3>1, <3>2
  <2>5. CASE wr'[c] = <<>> /\ (Coming(c))' = Append(t, z)
    <3>1. Alternates(Append(t, z))
      <4>1. z.end /\ t[Len(t)] = [item |-> z.item, end |-> FALSE]
        BY <1>4
      <4> QED BY <1>4, <2>3, <4>1, AlternatesEnds
    <3>2. Len(wr'[c]) # 1
      BY <2>5, LengthFacts
    <3> QED BY <1>a, <2>5, <3>1, <3>2
  <2> QED BY <1>5, <2>4, <2>5
<1>11. Headless(c)'
  <2>1. ASSUME task[c] = "open", Dropped(c, "read"), ~Dropped(c, "send"), ~Dropped(c, "stray")
        PROVE  Coming(c) # <<>> /\ Coming(c)[1].end
    BY <1>1, <1>6, <1>b, <2>1 DEF Sound, Headless
  <2>2. (Coming(c))' # <<>> /\ (Coming(c) # <<>> => (Coming(c))'[1] = Coming(c)[1])
    BY <1>4, <1>5, <1>a
  <2> QED BY <1>2, <2>1, <2>2 DEF Headless, Dropped
<1>12. Caused(c)'
  BY <1>1, <1>2 DEF Sound, Caused, Damaged, Unaccepted
<1> QED BY <1>7, <1>8, <1>9, <1>10, <1>11, <1>12 DEF Sound

LEMMA WriteSound ==
  ASSUME LinkInv, NEW c \in Conns, Write(c)
  PROVE  Alone(c) /\ Sound(c)'
<1>1. Typing /\ Sound(c) /\ wr[c] \in Seq(Sends)
  BY ConnTypes DEF LinkInv
<1>2. PICK n \in Fits(wr[c], up[c]) :
        /\ up' = [up EXCEPT ![c] = @ \o Taken(wr[c], n)]
        /\ wr' = [wr EXCEPT ![c] = Left(@, n)]
  BY DEF Write
<1>3. n \in 1..Len(wr[c])
  BY <1>1, <1>2, FitsFacts
<1>4. /\ sent' = IF wr[c][1].end THEN sent
                 ELSE [sent EXCEPT ![c] = Append(@, wr[c][1].item[2])]
      /\ UNCHANGED <<accepting, serving, client, down, served, got, cut, lagged, crashed>>
  BY DEF Write
<1>5. wr[c] # <<>>
  BY <1>1, <1>3
<1>6. Alone(c)
  <2>1. \A d \in Conns \ {c} : wr'[d] = wr[d] /\ up'[d] = up[d] /\ sent'[d] = sent[d]
    BY <1>1, <1>2, <1>4 DEF Typing
  <2> QED BY <1>4, <2>1 DEF Alone, Still
<1>7. Moves(c, Taken(wr[c], n), Left(wr[c], n))
  BY <1>1, <1>2, <1>4 DEF Moves, Typing
<1>8. sent'[c] = IF wr[c][1].end THEN sent[c] ELSE Append(sent[c], wr[c][1].item[2])
  BY <1>1, <1>4 DEF Typing
<1>9. ASSUME NEW q \in Sends, q.end, wr[c] = <<q>>
      PROVE  Sound(c)'
  <2>1. n = 1 /\ wr[c][1] = q
    BY <1>3, <1>9, LengthFacts
  <2>2. Taken(wr[c], n) = <<q>> /\ Left(wr[c], n) = <<>>
    BY <1>9, <2>1, SplitOne
  <2>3. sent'[c] = sent[c]
    BY <1>8, <1>9, <2>1
  <2> QED BY <1>7, <1>9, <2>2, <2>3, WriteEndSound
<1>10. ASSUME NEW m \in Messages, wr[c] = Line(<<"request", m>>)
       PROVE  Sound(c)'
  <2> DEFINE q == [item |-> <<"request", m>>, end |-> FALSE]
             z == [item |-> <<"request", m>>, end |-> TRUE]
  <2>1. q \in Sends /\ z \in Sends
    BY DEF Sends, Requests
  <2>2. wr[c] = <<q, z>>
    BY <1>10 DEF Line
  <2>3. ~q.end /\ q.item[2] = m
    OBVIOUS
  <2>4. q = [item |-> <<"request", m>>, end |-> FALSE] /\ z = [item |-> <<"request", m>>, end |-> TRUE]
    OBVIOUS
  <2> HIDE DEF q, z
  <2>5. (n = 1 \/ n = 2) /\ wr[c][1] = q
    BY <1>3, <2>2, LengthFacts
  <2>6. \/ Taken(wr[c], n) = <<q>> /\ Left(wr[c], n) = <<z>>
        \/ Taken(wr[c], n) = <<q, z>> /\ Left(wr[c], n) = <<>>
    BY <2>1, <2>2, <2>5, SplitTwo
  <2>7. sent'[c] = Append(sent[c], m)
    BY <1>8, <2>3, <2>5
  <2>8. Moves(c, <<q>>, <<z>>) \/ Moves(c, <<q, z>>, <<>>)
    BY <1>7, <2>6
  <2> QED BY <2>1, <2>2, <2>4, <2>7, <2>8, WriteBeginSound
<1> QED BY <1>1, <1>5, <1>6, <1>9, <1>10 DEF Sound, Shape

\* Steps of the client after which the same pieces come.
LEMMA SameComing ==
  ASSUME LinkInv, NEW c \in Conns,
         task'[c] = task[c], inpart'[c] = inpart[c], up'[c] = up[c],
         sent'[c] = sent[c], served'[c] = served[c],
         Dropped(c, "read")' <=> Dropped(c, "read"),
         Dropped(c, "stray")' <=> Dropped(c, "stray"),
         Dropped(c, "send") => Dropped(c, "send")'
  PROVE  /\ (Coming(c))' = Coming(c)
         /\ Tracked(c)' /\ Prefix(c)'
         /\ Damaged(c) => Damaged(c)'
         /\ Unserved(c)' = Unserved(c)
<1>1. Sound(c)
  BY DEF LinkInv
<1>2. (Coming(c))' = Coming(c) /\ Unserved(c)' = Unserved(c)
  BY DEF Coming, Unserved
<1>3. Tracked(c)' /\ Prefix(c)'
  BY <1>1, <1>2 DEF Sound, Tracked, Prefix
<1>4. Damaged(c) => Damaged(c)'
  BY DEF Damaged, Dropped
<1> QED BY <1>2, <1>3, <1>4

\* The rest of a write is given up.
LEMMA GiveUpSound ==
  ASSUME LinkInv, NEW c \in Conns, WriteFails(c) \/ DropSend(c)
  PROVE  Alone(c) /\ Sound(c)'
<1>1. Typing /\ Sound(c)
  BY DEF LinkInv
<1>2. /\ wr' = [wr EXCEPT ![c] = <<>>]
      /\ \/ task[c] = "ended" /\ cut' = cut
         \/ cut' = cut \cup {<<c, "send">>}
      /\ UNCHANGED <<accepting, serving, client, streams, sent, served, got, crashed>>
  BY DEF WriteFails, DropSend
<1>3. /\ wr'[c] = <<>> /\ \A d \in Conns \ {c} : wr'[d] = wr[d]
      /\ Dropped(c, "read")' <=> Dropped(c, "read")
      /\ Dropped(c, "stray")' <=> Dropped(c, "stray")
      /\ Dropped(c, "send") => Dropped(c, "send")'
      /\ task[c] = "ended" \/ Dropped(c, "send")'
      /\ \A d \in Conns \ {c}, side \in {"send", "read", "stray"} : <<d, side>> \in cut' <=> <<d, side>> \in cut
  BY <1>1, <1>2 DEF Typing, Dropped
<1>4. Alone(c)
  BY <1>2, <1>3 DEF Alone, Still
<1>5. /\ Tracked(c)' /\ Prefix(c)' /\ (Damaged(c) => Damaged(c)') /\ Unserved(c)' = Unserved(c)
  BY <1>2, <1>3, SameComing
<1>6. Shape(c)' /\ Untouched(c)'
  BY <1>1, <1>2, <1>3 DEF Sound, Shape, Untouched
<1>7. Aligned(c)' /\ Headless(c)'
  BY <1>2, <1>3, <1>5 DEF Aligned, Headless, Unserved, Damaged, Dropped
<1>8. Caused(c)'
  BY <1>1, <1>2, <1>5 DEF Sound, Caused, Unaccepted
<1> QED BY <1>4, <1>5, <1>6, <1>7, <1>8 DEF Sound

\* What the client receives comes from a connection that was served.
LEMMA HearSound ==
  ASSUME LinkInv, NEW c \in Conns,
         ReceivePart(c) \/ Receive(c) \/ ReceiveGarbled(c) \/ DropReceive(c)
  PROVE  Alone(c) /\ Sound(c)'
<1>1. Typing /\ Sound(c)
  BY DEF LinkInv
<1>2. /\ UNCHANGED <<accepting, serving, wr, up, sent, served, crashed>>
      /\ \A d \in Conns : \A side \in {"send", "read", "stray"} : <<d, side>> \in cut' <=> <<d, side>> \in cut
  BY DEF ReceivePart, Receive, ReceiveLine, ReceiveGarbled, DropReceive
<1>3. /\ \A d \in Conns \ {c} : down'[d] = down[d] /\ got'[d] = got[d] /\ client'[d] = client[d]
      /\ down[c] = <<>> => down'[c] = <<>> /\ got'[c] = got[c]
      /\ client'[c] = client[c] \/ {client[c], client'[c]} \subseteq {"open", "garbled"}
  <2>1. CASE ReceivePart(c)
    BY <1>1, <2>1 DEF ReceivePart, Typing
  <2>2. CASE Receive(c)
    <3>1. down[c] # <<>>
      <4>1. PICK k \in DOMAIN down[c] : TRUE
        BY <2>2 DEF Receive, ReceiveLine
      <4> QED BY <4>1
    <3>2. PICK s : down' = [down EXCEPT ![c] = s]
      BY <2>2 DEF Receive, ReceiveLine
    <3>3. got' = got \/ \E g : got' = [got EXCEPT ![c] = g]
      BY <2>2 DEF Receive, ReceiveLine
    <3>4. /\ client[c] = "open"
          /\ client' = client \/ \E e \in {"open", "garbled"} : client' = [client EXCEPT ![c] = e]
      BY <2>2 DEF Receive, ReceiveLine
    <3> QED BY <1>1, <3>1, <3>2, <3>3, <3>4 DEF Typing
  <2>3. CASE ReceiveGarbled(c)
    BY <1>1, <2>3 DEF ReceiveGarbled, Typing
  <2>4. CASE DropReceive(c)
    BY <1>1, <2>4 DEF DropReceive, Typing
  <2> QED BY <2>1, <2>2, <2>3, <2>4
<1>4. Alone(c)
  BY <1>2, <1>3 DEF Alone, Still
<1>5. /\ (Coming(c))' = Coming(c) /\ Unserved(c)' = Unserved(c)
      /\ Damaged(c)' <=> Damaged(c)
      /\ Dropped(c, "read")' <=> Dropped(c, "read")
      /\ Dropped(c, "send")' <=> Dropped(c, "send")
      /\ Dropped(c, "stray")' <=> Dropped(c, "stray")
      /\ client'[c] = "closed" <=> client[c] = "closed"
      /\ client'[c] = "none" <=> client[c] = "none"
  BY <1>2, <1>3 DEF Coming, Unserved, Damaged, Dropped
<1>6. Shape(c)' /\ Untouched(c)'
  BY <1>1, <1>2, <1>3, <1>5 DEF Sound, Shape, Untouched
<1>7. Tracked(c)' /\ Prefix(c)'
  BY <1>1, <1>2, <1>5 DEF Sound, Tracked, Prefix
<1>8. Aligned(c)' /\ Headless(c)'
  BY <1>1, <1>2, <1>5 DEF Sound, Aligned, Headless
<1>9. Caused(c)'
  <2>1. client'[c] \in {"open", "garbled"} => client[c] \in {"open", "garbled"}
    BY <1>3
  <2>2. Unaccepted(c) /\ down[c] = <<>> => Unaccepted(c)' /\ down'[c] = <<>>
    BY <1>2, <1>3 DEF Unaccepted
  <2> QED BY <1>1, <1>2, <1>5, <2>1, <2>2 DEF Sound, Caused
<1> QED BY <1>4, <1>6, <1>7, <1>8, <1>9 DEF Sound

\* The client goes: what it has not written is not missed.
LEMMA CloseSound ==
  ASSUME LinkInv, NEW c \in Conns, Close(c)
  PROVE  Alone(c) /\ Sound(c)'
<1>1. Typing /\ Sound(c)
  BY DEF LinkInv
<1>2. /\ client[c] \in {"open", "garbled"}
      /\ client' = [client EXCEPT ![c] = "closed"]
      /\ wr' = [wr EXCEPT ![c] = <<>>]
      /\ down' = [down EXCEPT ![c] = <<>>]
      /\ UNCHANGED <<accepting, serving, up, history>>
  BY DEF Close
<1>3. client'[c] = "closed" /\ wr'[c] = <<>> /\ down'[c] = <<>>
  BY <1>1, <1>2 DEF Typing
<1>4. Alone(c)
  BY <1>1, <1>2, <1>3 DEF Alone, Still, Typing
<1>5. /\ (Coming(c))' = Coming(c) /\ Tracked(c)' /\ Prefix(c)'
      /\ Unserved(c)' = Unserved(c)
  BY <1>2, SameComing DEF Dropped
<1>6. Shape(c)' /\ Untouched(c)'
  BY <1>1, <1>2, <1>3 DEF Sound, Shape, Untouched, Dropped
<1>7. Aligned(c)' /\ Headless(c)'
  BY <1>1, <1>2, <1>3, <1>5 DEF Sound, Aligned, Headless, Dropped, Damaged
<1>8. Caused(c)'
  BY <1>1, <1>2, <1>3 DEF Sound, Caused, Damaged
<1> QED BY <1>4, <1>5, <1>6, <1>7, <1>8 DEF Sound

-----------------------------------------------------------------------------
(* The steps of the task of a connection.                                  *)

\* After the line of a request the rest ends as before.
LEMMA RestFacts ==
  ASSUME NEW t \in Seq(Sends), NEW m, NEW r \in Seq(Sends), LineThen(t, m, r)
  PROVE  /\ t # <<>> /\ ~t[1].end
         /\ r = <<>> => t[Len(t)].end
         /\ r # <<>> => r[Len(r)] = t[Len(t)]
<1>1. /\ Len(t) = Len(r) + 2 /\ Len(r) \in Nat /\ ~t[1].end /\ t[2].end
      /\ \A k \in 1..Len(r) : t[k + 2] = r[k]
  BY DEF LineThen
<1>2. t # <<>>
  BY <1>1
<1>3. ASSUME r = <<>> PROVE t[Len(t)].end
  <2>1. Len(r) = 0
    BY <1>3
  <2>2. Len(t) = 2
    BY <1>1, <2>1
  <2> QED BY <1>1, <2>2
<1>4. ASSUME r # <<>> PROVE r[Len(r)] = t[Len(t)]
  <2>1. Len(r) \in 1..Len(r)
    BY <1>1, <1>4
  <2> QED BY <1>1, <2>1
<1> QED BY <1>1, <1>2, <1>3, <1>4

\* What a connection has when its read comes to the end of a line.
LEMMA AtLineEnd ==
  ASSUME LinkInv, NEW c \in Conns, NEW k \in DOMAIN up[c], LineRead(c, k)
  PROVE  ReadsTo(Coming(c), inpart[c] \o Taken(up[c], k), Left(up[c], k), up[c][k])
<1>1. inpart[c] \in Seq(Sends) /\ up[c] \in Seq(Sends)
  BY ConnTypes DEF LinkInv
<1>2. NoEnd(inpart[c]) /\ EndsAt(up[c], k)
  BY DEF LinkInv, Sound, Shape, LineRead
<1>3. ReadsTo(inpart[c] \o up[c], inpart[c] \o Taken(up[c], k), Left(up[c], k), up[c][k])
  BY <1>1, <1>2, ReadFacts
<1> QED BY <1>3 DEF Coming

LEMMA NothingBefore ==
  ASSUME NEW S, NEW s \in Seq(S)
  PROVE  <<>> \o s = s /\ s \o <<>> = s
OBVIOUS

\* A request is handled: it is the next one that was sent.
LEMMA HandleSound ==
  ASSUME LinkInv, NEW c \in Conns, HandleRequest(c)
  PROVE  Alone(c) /\ Sound(c)'
<1>1. Typing /\ Sound(c)
  BY DEF LinkInv
<1>2. PICK k \in DOMAIN up[c] : LineRead(c, k) /\ IsWhole(c, k) /\ Handle(c, k, Answer(c, k))
  BY DEF HandleRequest
<1> DEFINE t == Coming(c)
           h == inpart[c] \o Taken(up[c], k)
           r == Left(up[c], k)
           m == up[c][k].item[2]
<1>3. ReadsTo(t, h, r, up[c][k])
  BY <1>2, AtLineEnd
<1>4. m \in Messages /\ LineThen(t, m, r)
  <2>1. h = Line(up[c][k].item)
    BY <1>2 DEF IsWhole
  <2> QED BY <1>3, <2>1, WholeFacts
<1>5. t \in Seq(Sends) /\ r \in Seq(Sends)
  BY <1>3 DEF ReadsTo
<1>6. sent[c] \in Seq(Messages) /\ served[c] \in Seq(Messages)
  BY <1>1, ConnTypes
<1>7. /\ up' = [up EXCEPT ![c] = r]
      /\ served' = [served EXCEPT ![c] = Append(served[c], m)]
      /\ inpart' = [inpart EXCEPT ![c] = <<>>]
      /\ UNCHANGED <<accepting, task, calling, down, sent, got, cut, crashed>>
      /\ task[c] = "open"
  BY <1>2 DEF Handle, LineRead
<1>8. up'[c] = r /\ served'[c] = Append(served[c], m) /\ inpart'[c] = <<>>
  BY <1>1, <1>7 DEF Typing
<1>9. \A d \in Conns \ {c} : up'[d] = up[d] /\ served'[d] = served[d] /\ inpart'[d] = inpart[d]
  BY <1>1, <1>7 DEF Typing
<1>10. (Coming(c))' = r
  <2>1. (Coming(c))' = <<>> \o r
    BY <1>8 DEF Coming
  <2> QED BY <1>5, <2>1, NothingBefore
<1>11. /\ t # <<>> /\ ~t[1].end
       /\ r = <<>> => t[Len(t)].end
       /\ r # <<>> => r[Len(r)] = t[Len(t)]
  BY <1>4, <1>5, RestFacts
<1>12. client[c] # "none"
  BY <1>1, <1>7 DEF Sound, Untouched
<1> HIDE DEF t, h, r, m
<1>13. Alone(c)
  BY <1>7, <1>9 DEF Alone, Still
<1>14. Shape(c)' /\ Untouched(c)'
  <2>1. NoEnd(<<>>)
    BY DEF NoEnd
  <2>2. Shape(c)'
    BY <1>1, <1>7, <1>8, <2>1 DEF Sound, Shape
  <2> QED BY <1>7, <1>12, <2>2 DEF Untouched
<1>15. Dropped(c, "read") => Dropped(c, "send") \/ Dropped(c, "stray")
  BY <1>1, <1>7, <1>11 DEF Sound, Headless, t
<1>16. ASSUME ~Dropped(c, "read"), ~Dropped(c, "stray")
       PROVE  Track(r, sent[c], Append(served[c], m))
  <2>1. Track(t, sent[c], served[c])
    BY <1>1, <1>7, <1>16 DEF Sound, Tracked, Unserved, t
  <2> QED BY <1>4, <1>5, <1>6, <2>1, TrackHandled
<1>17. Tracked(c)'
  BY <1>7, <1>8, <1>10, <1>16 DEF Tracked, Dropped
<1>18. Aligned(c)'
  <2>1. SUFFICES ASSUME ~Damaged(c)
                 PROVE  /\ Alternates(r)
                        /\ client[c] # "closed" =>
                             IF Len(wr[c]) = 1
                             THEN r # <<>> /\ r[Len(r)] = [item |-> wr[c][1].item, end |-> FALSE]
                             ELSE LastEnds(r)
    BY <1>7, <1>10 DEF Aligned, Damaged
  <2>2. /\ Alternates(t)
        /\ client[c] # "closed" =>
             IF Len(wr[c]) = 1
             THEN t[Len(t)] = [item |-> wr[c][1].item, end |-> FALSE]
             ELSE LastEnds(t)
    BY <1>1, <1>7, <2>1 DEF Sound, Aligned, Unserved, t
  <2>3. Alternates(r)
    BY <1>4, <1>5, <2>2, AlternatesHandled
  <2>4. LastEnds(t) => LastEnds(r)
    BY <1>11 DEF LastEnds
  <2>5. ASSUME t[Len(t)] = [item |-> wr[c][1].item, end |-> FALSE]
        PROVE  r # <<>> /\ r[Len(r)] = [item |-> wr[c][1].item, end |-> FALSE]
    <3>1. ~t[Len(t)].end
      BY <2>5
    <3> QED BY <1>11, <2>5, <3>1
  <2> QED BY <2>2, <2>3, <2>4, <2>5
<1>19. Headless(c)'
  BY <1>7, <1>15 DEF Headless, Dropped
<1>20. Caused(c)'
  BY <1>7 DEF Caused
<1>21. Prefix(c)'
  <2>1. CASE ~Dropped(c, "read") /\ ~Dropped(c, "stray")
    <3>1. Track(r, sent[c], served'[c]) /\ sent'[c] = sent[c]
      BY <1>7, <1>8, <1>16, <2>1
    <3>2. DOMAIN served'[c] = 1..Len(served'[c])
      BY <1>4, <1>6, <1>8
    <3> QED BY <3>1, <3>2 DEF Prefix, Track
  <2>2. CASE Dropped(c, "read") \/ Dropped(c, "stray")
    BY <1>7, <1>15, <2>2 DEF Prefix, Dropped
  <2> QED BY <2>1, <2>2
<1> QED BY <1>13, <1>14, <1>17, <1>18, <1>19, <1>20, <1>21 DEF Sound

\* What every other step of the task of a connection leaves alone.
Served(c) ==
  /\ UNCHANGED <<accepting, calling, crashed, sent, served, got>>
  /\ task[c] \in {"open", "garbled"} /\ task'[c] # "none"
  /\ NoEnd(inpart'[c])
  /\ \A d \in Conns \ {c} : Still(d)
  /\ Dropped(c, "send")' <=> Dropped(c, "send")
  /\ \A side \in {"read", "stray"} : Dropped(c, side) => Dropped(c, side)'

LEMMA ServedFacts ==
  ASSUME LinkInv, NEW c \in Conns, Served(c)
  PROVE  /\ Alone(c) /\ Shape(c)' /\ Untouched(c)' /\ Prefix(c)'
         /\ Damaged(c) => Damaged(c)'
<1>1. Sound(c)
  BY DEF LinkInv
<1>2. client[c] # "none"
  BY <1>1 DEF Sound, Untouched, Served
<1>3. Alone(c)
  BY <1>2 DEF Alone, Served
<1>4. Shape(c)' /\ Untouched(c)'
  BY <1>1, <1>2 DEF Sound, Shape, Untouched, Served
<1>5. Prefix(c)' /\ (Damaged(c) => Damaged(c)')
  BY <1>1 DEF Sound, Prefix, Damaged, Dropped, Served
<1> QED BY <1>3, <1>4, <1>5

\* The task ends, or reads nothing that makes sense any more.
LEMMA SpoiltSound ==
  ASSUME LinkInv, NEW c \in Conns, Served(c),
         task'[c] \in {"ended", "garbled"},
         Damaged(c) \/ (task'[c] = "ended" /\ client[c] = "closed")
  PROVE  Alone(c) /\ Sound(c)'
<1>1. /\ Alone(c) /\ Shape(c)' /\ Untouched(c)' /\ Prefix(c)'
      /\ Damaged(c) => Damaged(c)'
  BY ServedFacts
<1>2. Tracked(c)' /\ Aligned(c)' /\ Headless(c)'
  BY DEF Tracked, Aligned, Headless, Unserved
<1>3. client' = client
  BY DEF Served
<1>4. Caused(c)'
  BY <1>1, <1>3 DEF Caused
<1> QED BY <1>1, <1>2, <1>4 DEF Sound

\* The same pieces come.
LEMMA KeptSound ==
  ASSUME LinkInv, NEW c \in Conns, Served(c), task'[c] = task[c],
         (Coming(c))' = Coming(c), Dropped(c, "read")' <=> Dropped(c, "read"),
         Dropped(c, "stray")' <=> Dropped(c, "stray")
  PROVE  Alone(c) /\ Sound(c)'
<1>1. /\ Alone(c) /\ Shape(c)' /\ Untouched(c)' /\ Prefix(c)'
      /\ Damaged(c) => Damaged(c)'
  BY ServedFacts
<1>2. Sound(c) /\ Unserved(c)' = Unserved(c)
  BY DEF LinkInv, Unserved
<1>3. /\ UNCHANGED <<calling, sent, served>>
      /\ Dropped(c, "send")' <=> Dropped(c, "send")
      /\ task'[c] \in {"open", "garbled"}
  BY DEF Served
<1>4. Tracked(c)'
  BY <1>2, <1>3 DEF Sound, Tracked
<1>5. Damaged(c)' <=> Damaged(c)
  BY <1>3 DEF Damaged, Dropped
<1>6. Aligned(c)' /\ Headless(c)'
  BY <1>2, <1>3, <1>5 DEF Sound, Aligned, Headless
<1>7. Caused(c)'
  BY <1>1, <1>2, <1>3 DEF Sound, Caused
<1> QED BY <1>1, <1>4, <1>6, <1>7 DEF Sound

LEMMA JoinNoEnd ==
  ASSUME NEW S, NEW x \in Seq(S), NEW u \in Seq(S), NoEnd(x), NoEnd(u)
  PROVE  NoEnd(x \o u)
<1> DEFINE t == x \o u
<1>1. /\ Len(t) = Len(x) + Len(u)
      /\ \A i \in 1..Len(x) : t[i] = x[i]
      /\ \A i \in 1..Len(u) : t[Len(x) + i] = u[i]
  BY JoinFacts
<1>2. Len(x) \in Nat /\ Len(u) \in Nat /\ t \in Seq(S)
  OBVIOUS
<1>3. /\ \A i \in 1..Len(x) : ~x[i].end
      /\ \A i \in 1..Len(u) : ~u[i].end
  BY DEF NoEnd
<1>4. DOMAIN t = 1..Len(t)
  BY <1>2
<1> HIDE DEF t
<1>5. ASSUME NEW j \in 1..Len(t) PROVE ~t[j].end
  <2>1. j \in 1..Len(x) \/ (j - Len(x) \in 1..Len(u) /\ Len(x) + (j - Len(x)) = j)
    BY <1>1, <1>2
  <2>2. CASE j \in 1..Len(x)
    BY <1>1, <1>3, <2>2
  <2>3. CASE j - Len(x) \in 1..Len(u) /\ Len(x) + (j - Len(x)) = j
    <3>1. t[Len(x) + (j - Len(x))] = u[j - Len(x)] /\ ~u[j - Len(x)].end
      BY <1>1, <1>3, <2>3
    <3> QED BY <2>3, <3>1
  <2> QED BY <2>1, <2>2, <2>3
<1>6. NoEnd(t)
  BY <1>4, <1>5 DEF NoEnd
<1> QED BY <1>6 DEF t

\* A read is pending, or a line is damaged.
LEMMA ReadPartSound ==
  ASSUME LinkInv, NEW c \in Conns, ReadPart(c)
  PROVE  Alone(c) /\ Sound(c)'
<1>1. Typing /\ Sound(c)
  BY DEF LinkInv
<1>2. /\ task[c] = "open" /\ NoEnd(up[c])
      /\ inpart' = [inpart EXCEPT ![c] = inpart[c] \o up[c]]
      /\ up' = [up EXCEPT ![c] = <<>>]
      /\ UNCHANGED <<accepting, task, calling, down, history>>
  BY DEF ReadPart
<1>3. /\ inpart'[c] = inpart[c] \o up[c] /\ up'[c] = <<>>
      /\ \A d \in Conns \ {c} : inpart'[d] = inpart[d] /\ up'[d] = up[d]
  BY <1>1, <1>2 DEF Typing
<1>4. inpart[c] \in Seq(Sends) /\ up[c] \in Seq(Sends) /\ NoEnd(inpart[c])
  BY <1>1, ConnTypes DEF Sound, Shape
<1>5. (Coming(c))' = Coming(c)
  <2>1. (inpart[c] \o up[c]) \o <<>> = inpart[c] \o up[c]
    BY <1>4
  <2> QED BY <1>3, <2>1 DEF Coming
<1>6. NoEnd(inpart'[c])
  <2>1. NoEnd(inpart[c] \o up[c])
    BY <1>2, <1>4, JoinNoEnd
  <2> QED BY <1>3, <2>1
<1>7. Served(c)
  BY <1>2, <1>3, <1>6 DEF Served, Still, Dropped
<1> QED BY <1>2, <1>5, <1>7, KeptSound DEF Dropped

\* Garbage comes only after a line was cut.
LEMMA GarbageDamaged ==
  ASSUME LinkInv, NEW c \in Conns, ReadGarbage(c) \/ ReadGarbled(c)
  PROVE  Damaged(c)
<1>1. Sound(c)
  BY DEF LinkInv
<1>2. CASE ReadGarbled(c)
  BY <1>1, <1>2 DEF ReadGarbled, Sound, Caused
<1>3. CASE ReadGarbage(c)
  <2>1. PICK k \in DOMAIN up[c] : LineRead(c, k) /\ ~IsWhole(c, k)
    BY <1>3 DEF ReadGarbage
  <2>2. ReadsTo(Coming(c), inpart[c] \o Taken(up[c], k), Left(up[c], k), up[c][k])
    BY <2>1, AtLineEnd
  <2>3. ~Alternates(Coming(c))
    BY <2>1, <2>2, AlternatesWhole DEF IsWhole
  <2> QED BY <1>1, <2>1, <2>3 DEF LineRead, Sound, Aligned, Unserved
<1> QED BY <1>2, <1>3

LEMMA GarbageSound ==
  ASSUME LinkInv, NEW c \in Conns, ReadGarbage(c) \/ ReadGarbled(c)
  PROVE  Alone(c) /\ Sound(c)'
<1>1. Typing /\ Sound(c) /\ NoEnd(inpart[c])
  BY DEF LinkInv, Sound, Shape
<1>2. /\ UNCHANGED <<accepting, calling, down, history>>
      /\ task[c] \in {"open", "garbled"}
      /\ \E t \in {"ended", "garbled"} : task' = [task EXCEPT ![c] = t]
      /\ inpart' = inpart \/ inpart' = [inpart EXCEPT ![c] = <<>>]
      /\ \E s : up' = [up EXCEPT ![c] = s]
  BY DEF ReadGarbage, ReadGarbled, LineRead, Selecting, Running
<1>3. /\ task'[c] \in {"ended", "garbled"}
      /\ inpart'[c] = inpart[c] \/ inpart'[c] = <<>>
      /\ \A d \in Conns \ {c} : task'[d] = task[d] /\ inpart'[d] = inpart[d] /\ up'[d] = up[d]
  BY <1>1, <1>2 DEF Typing
<1>4. NoEnd(inpart'[c])
  <2>1. NoEnd(<<>>)
    BY DEF NoEnd
  <2> QED BY <1>1, <1>3, <2>1
<1>5. Served(c)
  BY <1>2, <1>3, <1>4 DEF Served, Still, Dropped
<1>6. Damaged(c)
  BY GarbageDamaged
<1> QED BY <1>3, <1>5, <1>6, SpoiltSound

\* The client has gone: the task ends, or writes in vain.
LEMMA EndSound ==
  ASSUME LinkInv, NEW c \in Conns, ReadEnd(c) \/ RespondFails(c)
  PROVE  Alone(c) /\ Sound(c)'
<1>1. Typing /\ Sound(c) /\ NoEnd(inpart[c])
  BY DEF LinkInv, Sound, Shape
<1>2. /\ UNCHANGED <<accepting, calling, streams, history>>
      /\ task[c] \in {"open", "garbled"} /\ client[c] = "closed"
      /\ task' = [task EXCEPT ![c] = "ended"] \/ task' = [task EXCEPT ![c] = task[c]]
      /\ inpart' = inpart \/ (task' = [task EXCEPT ![c] = "ended"] /\ inpart' = [inpart EXCEPT ![c] = <<>>])
  BY DEF ReadEnd, EndTask, RespondFails, Selecting, Running
<1>3. /\ task'[c] = "ended" \/ (task'[c] = task[c] /\ inpart'[c] = inpart[c])
      /\ inpart'[c] = inpart[c] \/ inpart'[c] = <<>>
      /\ \A d \in Conns \ {c} : task'[d] = task[d] /\ inpart'[d] = inpart[d]
  BY <1>1, <1>2 DEF Typing
<1>4. NoEnd(inpart'[c])
  <2>1. NoEnd(<<>>)
    BY DEF NoEnd
  <2> QED BY <1>1, <1>3, <2>1
<1>5. Served(c)
  BY <1>2, <1>3, <1>4 DEF Served, Still, Dropped
<1>6. CASE task'[c] = "ended"
  BY <1>2, <1>5, <1>6, SpoiltSound
<1>7. CASE task'[c] = task[c] /\ inpart'[c] = inpart[c]
  <2>1. (Coming(c))' = Coming(c)
    BY <1>2, <1>7 DEF Coming
  <2> QED BY <1>2, <1>5, <1>7, <2>1, KeptSound DEF Dropped
<1> QED BY <1>3, <1>6, <1>7

\* A piece of a response is written.
LEMMA RespondSound ==
  ASSUME LinkInv, NEW c \in Conns, Respond(c)
  PROVE  Alone(c) /\ Sound(c)'
<1>1. Typing /\ NoEnd(inpart[c])
  BY DEF LinkInv, Sound, Shape
<1>2. /\ UNCHANGED <<accepting, task, inpart, calling, up, history>>
      /\ task[c] \in {"open", "garbled"}
      /\ \E s : down' = [down EXCEPT ![c] = s]
  BY DEF Respond, Running
<1>3. \A d \in Conns \ {c} : down'[d] = down[d]
  BY <1>1, <1>2 DEF Typing
<1>4. Served(c)
  BY <1>1, <1>2, <1>3 DEF Served, Still, Dropped
<1> QED BY <1>2, <1>4, KeptSound DEF Dropped, Coming

\* Of lines that take turns a read has consumed the beginning of one: what
\* follows begins with its end, or the client has it left to write.
LEMMA Beheaded ==
  ASSUME NEW x \in Seq(Sends), NEW u \in Seq(Sends), x # <<>>, NoEnd(x),
         Alternates(x \o u)
  PROVE  /\ u # <<>> => u[1].end
         /\ u = <<>> => ~LastEnds(x \o u)
<1> DEFINE t == x \o u
<1>1. /\ Len(t) = Len(x) + Len(u) /\ Len(x) \in Nat \ {0} /\ Len(u) \in Nat
      /\ \A i \in 1..Len(x) : t[i] = x[i]
      /\ \A i \in 1..Len(u) : t[Len(x) + i] = u[i]
  BY JoinFacts
<1>2. \A i \in 1..Len(x) : ~x[i].end
  BY DEF NoEnd
<1> HIDE DEF t
<1>3. Len(x) \in 1..Len(x) /\ ~t[Len(x)].end
  BY <1>1, <1>2
<1>4. ASSUME u # <<>> PROVE u[1].end
  <2>1. 1 \in 1..Len(u) /\ Len(x) \in 1..(Len(t) - 1)
    BY <1>1, <1>4
  <2>2. t[Len(x) + 1] = [item |-> t[Len(x)].item, end |-> TRUE]
    BY <1>3, <2>1 DEF Alternates, t
  <2>3. t[Len(x) + 1] = u[1]
    BY <1>1, <2>1
  <2>4. t[Len(x) + 1].end
    BY <2>2
  <2> QED BY <2>3, <2>4
<1>5. ASSUME u = <<>> PROVE ~LastEnds(t)
  <2>1. t = x
    BY <1>5 DEF t
  <2> QED BY <1>2, <1>3, <2>1 DEF LastEnds
<1> QED BY <1>4, <1>5 DEF t

\* A broadcast wins the select!: what the read has consumed is lost.
LEMMA DropReadSound ==
  ASSUME LinkInv, NEW c \in Conns, TakeBroadcast(c) \/ Lag(c)
  PROVE  Alone(c) /\ Sound(c)'
<1>1. Typing /\ Sound(c) /\ NoEnd(inpart[c])
  BY DEF LinkInv, Sound, Shape
<1>2. /\ UNCHANGED <<accepting, calling, streams, crashed, sent, served, got>>
      /\ task[c] \in {"open", "garbled"}
      /\ inpart' = [inpart EXCEPT ![c] = <<>>]
      /\ task' = [task EXCEPT ![c] = "open"]
      /\ cut' = cut \cup Lost(c)
  BY DEF TakeBroadcast, CanTake, Deliver, Lag, LagTo, DropRead, Selecting, Running
<1>3. /\ inpart'[c] = <<>> /\ task'[c] = "open"
      /\ \A d \in Conns \ {c} : inpart'[d] = inpart[d] /\ task'[d] = task[d]
      /\ Dropped(c, "send")' <=> Dropped(c, "send")
      /\ \A side \in {"read", "stray"} : Dropped(c, side) => Dropped(c, side)'
      /\ \A d \in Conns \ {c}, side \in {"send", "read", "stray"} : <<d, side>> \in cut' <=> <<d, side>> \in cut
  BY <1>1, <1>2 DEF Typing, Dropped, Lost
<1>4. Served(c)
  <2>1. NoEnd(inpart'[c])
    BY <1>3 DEF NoEnd
  <2> QED BY <1>2, <1>3, <2>1 DEF Served, Still
<1>5. CASE task[c] = "garbled"
  <2>1. Dropped(c, "stray")' /\ Damaged(c)
    BY <1>1, <1>2, <1>5 DEF Lost, Dropped, Sound, Caused
  <2>2. Alone(c) /\ Shape(c)' /\ Untouched(c)' /\ Prefix(c)' /\ Damaged(c)'
    BY <1>4, <2>1, ServedFacts
  <2>3. Tracked(c)' /\ Aligned(c)' /\ Headless(c)' /\ Caused(c)'
    BY <1>3, <2>1, <2>2 DEF Tracked, Aligned, Headless, Caused
  <2> QED BY <2>2, <2>3 DEF Sound
<1>6. CASE task[c] = "open" /\ inpart[c] = <<>>
  <2>1. Lost(c) = {} /\ cut' = cut /\ (Coming(c))' = Coming(c)
    BY <1>2, <1>3, <1>6 DEF Lost, Coming
  <2> QED BY <1>3, <1>4, <1>6, <2>1, KeptSound DEF Dropped
<1>7. CASE task[c] = "open" /\ inpart[c] # <<>>
  <2>1. Dropped(c, "read")' /\ Damaged(c)'
    BY <1>2, <1>7 DEF Dropped, Damaged, Lost
  <2>2. /\ Alone(c) /\ Shape(c)' /\ Untouched(c)' /\ Prefix(c)'
    BY <1>4, ServedFacts
  <2>3. Tracked(c)' /\ Aligned(c)' /\ Caused(c)'
    BY <1>3, <2>1 DEF Tracked, Aligned, Caused
  <2>4. inpart[c] \in Seq(Sends) /\ up[c] \in Seq(Sends)
    BY <1>1, ConnTypes
  <2>5. (Coming(c))' = up[c]
    <3>1. (Coming(c))' = <<>> \o up[c]
      BY <1>2, <1>3 DEF Coming
    <3> QED BY <2>4, <3>1, NothingBefore
  <2>6. Headless(c)'
    <3>1. SUFFICES ASSUME ~Dropped(c, "send"), ~Dropped(c, "stray")
                   PROVE  /\ up[c] # <<>> => up[c][1].end
                          /\ client[c] # "closed" /\ up[c] = <<>> => Len(wr[c]) = 1
      BY <1>2, <1>3, <2>5 DEF Headless
    <3>2. Coming(c) # <<>> /\ ~Coming(c)[1].end
      <4>1. 1 \in 1..Len(inpart[c]) /\ 1 \in DOMAIN inpart[c]
        BY <1>7, <2>4
      <4>2. /\ \A i \in 1..Len(inpart[c]) : (inpart[c] \o up[c])[i] = inpart[c][i]
            /\ inpart[c] \o up[c] # <<>>
        <5>1. inpart[c] \o up[c] # <<>>
          BY <1>7, <2>4
        <5>2. \A i \in 1..Len(inpart[c]) : (inpart[c] \o up[c])[i] = inpart[c][i]
          BY <2>4, JoinFacts
        <5> QED BY <5>1, <5>2
      <4>3. ~inpart[c][1].end
        BY <1>1, <4>1 DEF NoEnd
      <4> QED BY <4>1, <4>2, <4>3 DEF Coming
    <3>3. ~Dropped(c, "read")
      BY <1>1, <1>7, <3>1, <3>2 DEF Sound, Headless
    <3>4. ~Damaged(c)
      BY <3>1, <3>3 DEF Damaged, Dropped
    <3>5. /\ Alternates(Coming(c))
          /\ client[c] # "closed" => Len(wr[c]) = 1 \/ LastEnds(Coming(c))
      BY <1>1, <1>7, <3>4 DEF Sound, Aligned, Unserved
    <3>6. /\ up[c] # <<>> => up[c][1].end
          /\ up[c] = <<>> => ~LastEnds(Coming(c))
      BY <1>1, <1>7, <2>4, <3>5, Beheaded DEF Coming
    <3> QED BY <3>5, <3>6
  <2> QED BY <2>2, <2>3, <2>6 DEF Sound
<1> QED BY <1>2, <1>5, <1>6, <1>7

-----------------------------------------------------------------------------
(* The steps of the accept loop, of the program and of the process.        *)

\* A connection that nothing happens to while the server does something.
LEMMA WaitSound ==
  ASSUME NEW d \in Conns, Sound(d), Still(d), d \in crashed => d \in crashed',
         Unaccepted(d) => Unaccepted(d)'
  PROVE  Sound(d)'
<1>1. /\ (Coming(d))' = Coming(d) /\ Unserved(d)' = Unserved(d)
      /\ Damaged(d)' <=> Damaged(d)
      /\ Dropped(d, "send")' <=> Dropped(d, "send")
      /\ Dropped(d, "read")' <=> Dropped(d, "read")
      /\ Dropped(d, "stray")' <=> Dropped(d, "stray")
  BY DEF Still, Coming, Unserved, Damaged, Dropped
<1>2. Shape(d)' /\ Untouched(d)'
  BY <1>1 DEF Still, Sound, Shape, Untouched
<1>3. Tracked(d)' /\ Aligned(d)'
  BY <1>1 DEF Still, Sound, Tracked, Aligned
<1>4. Headless(d)' /\ Prefix(d)'
  BY <1>1 DEF Still, Sound, Headless, Prefix
<1>5. Caused(d)'
  BY <1>1 DEF Still, Sound, Caused
<1> QED BY <1>2, <1>3, <1>4, <1>5 DEF Sound

\* A connection that was waiting is accepted, reset, or dies with the server.
LEMMA LeaveSound ==
  ASSUME NEW d \in Conns, Sound(d), task[d] = "none", task'[d] # "none",
         client[d] # "none" , inpart'[d] = <<>>,
         UNCHANGED <<calling, streams, sent, served, got, cut>>,
         task'[d] = "open" \/ (task'[d] = "ended" /\ (d \in crashed' \/ Unaccepted(d)'))
  PROVE  Sound(d)'
<1>1. /\ inpart[d] = <<>> /\ down[d] = <<>> /\ ~Dropped(d, "read") /\ ~Dropped(d, "stray")
  BY DEF Sound, Untouched
<1>2. /\ (Coming(d))' = Coming(d)
      /\ Damaged(d)' <=> Damaged(d)
      /\ Dropped(d, "send")' <=> Dropped(d, "send")
      /\ Dropped(d, "read")' <=> Dropped(d, "read")
      /\ Dropped(d, "stray")' <=> Dropped(d, "stray")
  BY <1>1 DEF Coming, Damaged, Dropped
<1>3. Unserved(d)
  BY DEF Unserved
<1>4. Shape(d)' /\ Untouched(d)'
  BY <1>1 DEF Sound, Shape, Untouched
<1>5. Tracked(d)' /\ Aligned(d)'
  BY <1>2, <1>3 DEF Sound, Tracked, Aligned
<1>6. Headless(d)' /\ Prefix(d)'
  BY <1>1, <1>2 DEF Sound, Headless, Prefix
<1>7. Caused(d)'
  BY <1>1 DEF Caused
<1> QED BY <1>4, <1>5, <1>6, <1>7 DEF Sound

\* Who is in the backlog.
LEMMA BacklogFacts ==
  ASSUME LinkInv, NEW i \in DOMAIN backlog
  PROVE  backlog[i] \in Conns /\ task[backlog[i]] = "none" /\ client[backlog[i]] # "none"
<1>a. backlog \in Seq(Conns)
  BY DEF LinkInv, Typing
<1>1. backlog \in Seq(Conns) /\ i \in 1..Len(backlog)
  BY <1>a
<1>2. task[backlog[i]] = "none" /\ client[backlog[i]] # "none"
  BY <1>1 DEF LinkInv, Queue
<1> QED BY <1>1, <1>2

LEMMA CheckSound ==
  ASSUME LinkInv, CheckRunning
  PROVE  Queue' /\ \A d \in Conns : Sound(d)'
<1>1. loop = "check" /\ UNCHANGED <<running, inpart, calling, streams, history>>
  BY DEF CheckRunning
<1>2. CASE running
  <2>1. UNCHANGED <<backlog, task>>
    BY <1>2 DEF CheckRunning
  <2>2. Queue'
    BY <1>1, <2>1 DEF LinkInv, Queue
  <2>3. ASSUME NEW d \in Conns PROVE Sound(d)'
    <3>1. Still(d) /\ Sound(d) /\ ~Unaccepted(d)
      BY <1>1, <2>1 DEF LinkInv, Still, Unaccepted
    <3> QED BY <1>1, <3>1, WaitSound
  <2> QED BY <2>2, <2>3
<1>3. CASE ~running
  <2>1. /\ loop' = "ended" /\ backlog' = <<>>
        /\ \A d \in Conns : task'[d] = IF \E i \in DOMAIN backlog : backlog[i] = d
                                       THEN "ended" ELSE task[d]
    BY <1>3 DEF CheckRunning
  <2>2. Queue'
    BY <2>1 DEF Queue
  <2>3. ASSUME NEW d \in Conns, \E i \in DOMAIN backlog : backlog[i] = d
        PROVE  Sound(d)'
    <3>1. task[d] = "none" /\ client[d] # "none" /\ task'[d] = "ended" /\ Sound(d)
      BY <2>1, <2>3, BacklogFacts DEF LinkInv
    <3>2. inpart'[d] = <<>> /\ Unaccepted(d)'
      BY <1>1, <1>3, <2>1, <3>1 DEF Sound, Untouched, Unaccepted
    <3> QED BY <1>1, <3>1, <3>2, LeaveSound
  <2>4. ASSUME NEW d \in Conns, ~\E i \in DOMAIN backlog : backlog[i] = d
        PROVE  Sound(d)'
    <3>1. Still(d) /\ Sound(d) /\ ~Unaccepted(d)
      BY <1>1, <2>1, <2>4 DEF LinkInv, Still, Unaccepted
    <3> QED BY <1>1, <3>1, WaitSound
  <2> QED BY <2>2, <2>3, <2>4
<1> QED BY <1>2, <1>3

LEMMA TailFacts ==
  ASSUME NEW S, NEW s \in Seq(S), s # <<>>
  PROVE  /\ Head(s) = s[1] /\ 1 \in 1..Len(s) /\ DOMAIN s = 1..Len(s) /\ Len(s) \in Nat
         /\ Len(Tail(s)) = Len(s) - 1
         /\ \A i \in 1..(Len(s) - 1) : Tail(s)[i] = s[i + 1]
OBVIOUS

LEMMA AcceptSound ==
  ASSUME LinkInv, Accept
  PROVE  Queue' /\ \A d \in Conns : Sound(d)'
<1>0. PICK b : b = Head(backlog)
  OBVIOUS
<1>1. /\ loop = "accept" /\ loop' = "check" /\ backlog # <<>> /\ backlog' = Tail(backlog)
      /\ task' = [task EXCEPT ![b] = "open"]
      /\ UNCHANGED <<running, inpart, calling, streams, history>>
  BY <1>0 DEF Accept, Spawn
<1>2. /\ b = backlog[1] /\ 1 \in 1..Len(backlog) /\ DOMAIN backlog = 1..Len(backlog)
      /\ Len(backlog) \in Nat /\ Len(backlog') = Len(backlog) - 1
      /\ \A i \in 1..(Len(backlog) - 1) : backlog'[i] = backlog[i + 1]
  BY <1>0, <1>1, TailFacts DEF LinkInv, Typing
<1>3. b \in Conns /\ task[b] = "none" /\ client[b] # "none"
  BY <1>2, BacklogFacts
<1>4. task'[b] = "open" /\ \A d \in Conns \ {b} : task'[d] = task[d]
  BY <1>1, <1>3 DEF LinkInv, Typing
<1>5. Sound(b)'
  <2>1. Sound(b) /\ inpart'[b] = <<>>
    BY <1>1, <1>3 DEF LinkInv, Sound, Untouched
  <2> QED BY <1>1, <1>3, <1>4, <2>1, LeaveSound
<1>6. ASSUME NEW d \in Conns \ {b} PROVE Sound(d)'
  <2>1. Still(d) /\ Sound(d) /\ ~Unaccepted(d)
    BY <1>1, <1>4 DEF LinkInv, Still, Unaccepted
  <2> QED BY <1>1, <2>1, WaitSound
<1>7. Queue'
  <2>1. ASSUME NEW i \in 1..Len(backlog')
        PROVE  i + 1 \in 1..Len(backlog) /\ i + 1 # 1 /\ backlog'[i] = backlog[i + 1]
    BY <1>2
  <2>2. ASSUME NEW i \in 1..Len(backlog')
        PROVE  task'[backlog'[i]] = "none" /\ client'[backlog'[i]] # "none"
    <3>1. backlog[i + 1] # b
      BY <1>2, <2>1 DEF LinkInv, Queue
    <3>2. /\ backlog[i + 1] \in Conns /\ task[backlog[i + 1]] = "none"
          /\ client[backlog[i + 1]] # "none"
      BY <1>2, <2>1, BacklogFacts
    <3> QED BY <1>1, <1>4, <2>1, <3>1, <3>2
  <2>3. ASSUME NEW i \in 1..Len(backlog'), NEW j \in 1..Len(backlog'), backlog'[i] = backlog'[j]
        PROVE  i = j
    <3>1. i + 1 = j + 1
      BY <2>1, <2>3 DEF LinkInv, Queue
    <3>2. i \in Int /\ j \in Int
      BY <1>2
    <3> QED BY <3>1, <3>2
  <2> QED BY <2>2, <2>3 DEF Queue
<1> QED BY <1>5, <1>6, <1>7

LEMMA ServerSound ==
  ASSUME LinkInv, Stop \/ (\E h \in Hosted : HostBroadcast(h)) \/ Start
  PROVE  Queue' /\ \A d \in Conns : Sound(d)'
<1>1. UNCHANGED <<backlog, task, inpart, calling, streams, history>>
  BY DEF Stop, HostBroadcast, Start
<1>2. Queue'
  BY <1>1 DEF LinkInv, Queue
<1>3. ASSUME NEW d \in Conns PROVE Sound(d)'
  <2>1. Unaccepted(d) => Unaccepted(d)'
    BY DEF Stop, HostBroadcast, Start, Unaccepted
  <2>2. Still(d) /\ Sound(d)
    BY <1>1 DEF LinkInv, Still
  <2> QED BY <1>1, <2>1, <2>2, WaitSound
<1> QED BY <1>2, <1>3

LEMMA CrashSound ==
  ASSUME LinkInv, Crash
  PROVE  Queue' /\ \A d \in Conns : Sound(d)'
<1>1. /\ crashed' = {c \in Conns : client[c] # "none"} /\ backlog' = <<>>
      /\ \A d \in Conns : task'[d] = IF client[d] = "none" THEN "none" ELSE "ended"
      /\ \A d \in Conns : inpart'[d] = <<>>
      /\ UNCHANGED <<calling, streams, sent, served, got, cut>>
  BY DEF Crash
<1>2. Queue'
  BY <1>1 DEF Queue
<1>3. ASSUME NEW d \in Conns, client[d] = "none" PROVE Sound(d)'
  <2>1. Sound(d) /\ task[d] = "none" /\ task'[d] = "none" /\ inpart[d] = <<>> /\ inpart'[d] = <<>>
    BY <1>1, <1>3 DEF LinkInv, Sound, Untouched
  <2>2. Still(d) /\ ~Unaccepted(d)' /\ Shape(d)' /\ Untouched(d)'
    BY <1>1, <2>1 DEF Still, Sound, Shape, Untouched, Dropped, Unaccepted, Crash
  <2>3. (Coming(d))' = Coming(d)
    BY <2>2 DEF Still, Coming
  <2>4. Tracked(d)' /\ Aligned(d)'
    BY <1>1, <2>1, <2>3 DEF Sound, Tracked, Aligned, Unserved, Damaged, Dropped
  <2>5. Headless(d)' /\ Caused(d)' /\ Prefix(d)'
    BY <1>1, <2>1 DEF Sound, Headless, Caused, Prefix, Dropped
  <2> QED BY <2>2, <2>4, <2>5 DEF Sound
<1>4. ASSUME NEW d \in Conns, client[d] # "none" PROVE Sound(d)'
  <2>1. Sound(d) /\ task'[d] = "ended" /\ inpart'[d] = <<>>
    BY <1>1, <1>4 DEF LinkInv
  <2>2. Shape(d)' /\ Untouched(d)'
    BY <1>1, <1>4, <2>1 DEF Sound, Shape, Untouched, NoEnd
  <2>3. Tracked(d)' /\ Aligned(d)' /\ Headless(d)' /\ Caused(d)'
    BY <1>1, <2>1 DEF Tracked, Aligned, Headless, Caused, Unserved
  <2>4. Prefix(d)'
    BY <1>1, <2>1 DEF Sound, Prefix, Dropped
  <2> QED BY <2>2, <2>3, <2>4 DEF Sound
<1> QED BY <1>2, <1>3, <1>4

-----------------------------------------------------------------------------
(* The theorems.                                                           *)

LEMMA ConnSound ==
  ASSUME LinkInv, NEW c \in Conns,
         \/ Close(c)
         \/ \E m \in Messages : BeginSend(c, m)
         \/ Sending(c) \/ DropSend(c)
         \/ Receiving(c) \/ DropReceive(c)
         \/ Serve(c)
  PROVE  Queue' /\ \A d \in Conns : Sound(d)'
<1>1. CASE Close(c) \/ \E m \in Messages : BeginSend(c, m)
  BY <1>1, CloseSound, BeginSendSound, AloneSound
<1>2. CASE Sending(c) \/ DropSend(c)
  BY <1>2, WriteSound, GiveUpSound, AloneSound DEF Sending
<1>3. CASE Receiving(c) \/ DropReceive(c)
  BY <1>3, HearSound, AloneSound DEF Receiving
<1>4. CASE Serve(c)
  <2>1. Alone(c) /\ Sound(c)'
    BY <1>4, HandleSound, ReadPartSound, GarbageSound, EndSound, DropReadSound, RespondSound
    DEF Serve, WithoutRequest
  <2> QED BY <2>1, AloneSound
<1> QED BY <1>1, <1>2, <1>3, <1>4

LEMMA LinkStep == LinkInv /\ [Next]_vars => LinkInv'
<1> SUFFICES ASSUME LinkInv, [Next]_vars PROVE LinkInv'
  OBVIOUS
<1>1. Typing'
  BY TypingStep DEF LinkInv
<1>2. CASE UNCHANGED vars
  <2>1. Queue'
    BY <1>2 DEF vars, LinkInv, Queue
  <2>2. ASSUME NEW d \in Conns PROVE Sound(d)'
    <3>1. Still(d) /\ Sound(d) /\ UNCHANGED <<loop, running, crashed>>
      BY <1>2 DEF vars, LinkInv, Still
    <3> QED BY <3>1, StillSound
  <2> QED BY <1>1, <2>1, <2>2 DEF LinkInv
<1>3. CASE \E c \in Conns : Connect(c)
  BY <1>1, <1>3, ConnectSound DEF LinkInv
<1>4. CASE \E c \in Conns :
             \/ Close(c)
             \/ \E m \in Messages : BeginSend(c, m)
             \/ Sending(c) \/ DropSend(c)
             \/ Receiving(c) \/ DropReceive(c)
             \/ Serve(c)
  <2>1. Queue' /\ \A d \in Conns : Sound(d)'
    BY <1>4, ConnSound
  <2> QED BY <1>1, <2>1 DEF LinkInv
<1>5. CASE Accepting
  <2>1. Queue' /\ \A d \in Conns : Sound(d)'
    BY <1>5, CheckSound, AcceptSound DEF Accepting
  <2> QED BY <1>1, <2>1 DEF LinkInv
<1>6. CASE Stop \/ (\E h \in Hosted : HostBroadcast(h)) \/ Crash \/ Start
  <2>1. Queue' /\ \A d \in Conns : Sound(d)'
    BY <1>6, ServerSound, CrashSound
  <2> QED BY <1>1, <2>1 DEF LinkInv
<1> QED BY <1>2, <1>3, <1>4, <1>5, <1>6 DEF Next

\* Over a connection the handler gets what the client sent, in its order and
\* without a gap, however the pieces of the lines arrive, until it takes two cuts
\* to hide a loss: a send the client dropped and a read a broadcast dropped, or,
\* in MsgPack, the read of a task that had lost its place by one of these.
THEOREM ServedOrder == Spec => []ServedInOrder
<1>1. Init => LinkInv
  BY SoundInit
<1>2. LinkInv /\ [Next]_vars => LinkInv'
  BY LinkStep
<1>3. LinkInv => ServedInOrder
  BY DEF LinkInv, Sound, Prefix, Dropped, ServedInOrder
<1> QED
  BY <1>1, <1>2, <1>3, PTL DEF Spec

\* A server that lives ends the connection of a client that has not gone only
\* after a line of it was cut, or before it was accepted: handle_client never
\* takes a whole request for a damaged one, and stop() ends nothing it serves.
THEOREM EndsOnlyForCause == Spec => []EndsForCause
<1>1. Init => LinkInv
  BY SoundInit
<1>2. LinkInv /\ [Next]_vars => LinkInv'
  BY LinkStep
<1>3. LinkInv => EndsForCause
  BY DEF LinkInv, Sound, Caused, EndsForCause
<1> QED
  BY <1>1, <1>2, <1>3, PTL DEF Spec

=============================================================================
