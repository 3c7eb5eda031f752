-------------------------- MODULE ShmChannelProofs --------------------------
(***************************************************************************)
(* Theorems about ShmChannel, for any number of requests, clients and      *)
(* servers, with and without races and crashes.                            *)
(***************************************************************************)
EXTENDS ShmChannel, FiniteSetTheorems, TLAPS

-----------------------------------------------------------------------------
(* The slots and the log.                                                  *)

\* A slot stays a slot, and a length does not become zero.
Keeps(s, r) ==
  /\ r \in Seq(Slots) /\ Len(r) = Len(s)
  /\ \A i \in 1..Len(s) : s[i].len # None => r[i].len # None

\* Putting a slot in the place of another one.
LEMMA PutFacts ==
  ASSUME NEW s \in Seq(Slots), NEW n \in 1..Len(s), NEW t \in Slots
  PROVE  /\ [s EXCEPT ![n] = t] \in Seq(Slots)
         /\ Len([s EXCEPT ![n] = t]) = Len(s)
         /\ [s EXCEPT ![n] = t][n] = t
         /\ \A i \in 1..Len(s) : i # n => [s EXCEPT ![n] = t][i] = s[i]
OBVIOUS

\* Setting a flag.
LEMMA FlagFacts ==
  ASSUME NEW s \in Seq(Slots), NEW n \in 1..Len(s), NEW f \in 0..2
  PROVE  /\ Keeps(s, [s EXCEPT ![n].flag = f])
         /\ \A i \in 1..Len(s) :
              [s EXCEPT ![n].flag = f][i].flag = IF i = n THEN f ELSE s[i].flag
<1> DEFINE t == [s[n] EXCEPT !.flag = f]
<1>0. s[n] \in Slots
  OBVIOUS
<1>1. t \in Slots /\ t.flag = f /\ t.len = s[n].len
  BY <1>0 DEF Slots
<1> QED BY <1>1, PutFacts DEF Keeps

\* Setting a length, or the bytes.
LEMMA MessageFacts ==
  ASSUME NEW s \in Seq(Slots), NEW n \in 1..Len(s), NEW x \in Ids
  PROVE  /\ Keeps(s, [s EXCEPT ![n].len = x])
         /\ Keeps(s, [s EXCEPT ![n].data = x])
         /\ \A i \in 1..Len(s) : /\ [s EXCEPT ![n].len = x][i].flag = s[i].flag
                                 /\ [s EXCEPT ![n].data = x][i].flag = s[i].flag
<1> DEFINE t == [s[n] EXCEPT !.len = x]
           u == [s[n] EXCEPT !.data = x]
<1>0. s[n] \in Slots
  OBVIOUS
<1>1. t \in Slots /\ t.flag = s[n].flag /\ t.len = x /\ x # None
  BY <1>0, NoneAssumption DEF Slots
<1>2. u \in Slots /\ u.flag = s[n].flag /\ u.len = s[n].len
  BY <1>0 DEF Slots
<1>3. /\ Keeps(s, [s EXCEPT ![n].len = x])
      /\ \A i \in 1..Len(s) : [s EXCEPT ![n].len = x][i].flag = s[i].flag
  BY <1>1, PutFacts DEF Keeps
<1>4. /\ Keeps(s, [s EXCEPT ![n].data = x])
      /\ \A i \in 1..Len(s) : [s EXCEPT ![n].data = x][i].flag = s[i].flag
  BY <1>2, PutFacts DEF Keeps
<1> QED BY <1>3, <1>4

\* The slot of a server that starts.
LEMMA NewSlotFacts ==
  ASSUME NEW s \in Seq(Slots)
  PROVE  /\ Append(s, EmptySlot) \in Seq(Slots)
         /\ Len(Append(s, EmptySlot)) = Len(s) + 1
         /\ \A i \in 1..Len(s) : Append(s, EmptySlot)[i] = s[i]
         /\ Append(s, EmptySlot)[Len(s) + 1] = EmptySlot
<1>1. EmptySlot \in Slots
  BY DEF EmptySlot, Slots
<1> QED BY <1>1

\* A piece that is appended to the log.
LEMMA AppendFacts ==
  ASSUME NEW s \in Seq(Pieces), NEW x \in Pieces
  PROVE  /\ Append(s, x) \in Seq(Pieces)
         /\ Len(Append(s, x)) = Len(s) + 1
         /\ \A i \in 1..Len(s) : Append(s, x)[i] = s[i]
         /\ Append(s, x)[Len(s) + 1] = x
OBVIOUS

LEMMA PieceFacts ==
  /\ \A x \in Ids : LengthOf(x) \in Pieces /\ BytesOf(x) \in Pieces
  /\ \A x \in Ids : /\ LengthOf(x).msg = x /\ ~LengthOf(x).end
                    /\ BytesOf(x).msg = x /\ BytesOf(x).end
  /\ \A x \in Messages \cup Hosted : Original(x) \in Ids
BY DEF LengthOf, BytesOf, Pieces, Original, Ids

\* What is copied from a slot that has a length.
LEMMA ParseFacts ==
  ASSUME NEW s \in Slots, NEW x \in Parse(s)
  PROVE  /\ x \in Ids \cup {None, Garbage}
         /\ s.len # None => x \in Ids \cup {Garbage}
BY DEF Parse, Slots

-----------------------------------------------------------------------------
(* Types.                                                                  *)

\* What is copied when a flag was seen is a message or does not parse: the length
\* is not zero then, as it never becomes zero again.
CopyInv ==
  /\ srv = "flagged" => current.len # None
  /\ srv = "copied" => took \in Ids \cup {Garbage}
  /\ srv \in {"handled", "reflag", "relen", "answered", "appending"} => took \in Ids
  /\ \A c \in Clients :
       /\ reader[c] = "flagged" => slots[mapped[c]].len # None
       /\ reader[c] = "copied" => copied[c] \in Ids \cup {Garbage}

IInv == TypeOK /\ CopyInv

\* The slots are of their type and there is a last one.
LEMMA SlotTypes ==
  ASSUME TypeOK
  PROVE  /\ slots \in Seq(Slots) /\ Len(slots) \in Nat \ {0}
         /\ Len(slots) \in 1..Len(slots)
         /\ \A i \in 1..Len(slots) : slots[i] \in Slots
         /\ current \in Slots
<1>1. slots \in Seq(Slots) /\ slots # <<>>
  BY DEF TypeOK
<1>2. Len(slots) \in Nat \ {0}
  BY <1>1
<1> QED BY <1>1, <1>2 DEF current

LEMMA SendType ==
  ASSUME TypeOK, CopyInv, NEW m \in Messages, SendFlag(m) \/ Send(m)
  PROVE  TypeOK' /\ CopyInv' /\ Keeps(slots, slots')
<1>0. /\ Original(m) \in Ids
      /\ slots \in Seq(Slots) /\ Len(slots) \in 1..Len(slots) /\ on[m] \in 1..Len(slots)
  BY PieceFacts, SlotTypes DEF TypeOK
<1>1. Keeps(slots, slots')
  <2>1. CASE SendFlag(m)
    <3>1. slots' = [slots EXCEPT ![Len(slots)].flag = 1] /\ 1 \in 0..2
      BY <2>1 DEF SendFlag
    <3> QED BY <1>0, <3>1, FlagFacts
  <2>2. CASE SendLen(m)
    BY <1>0, <2>2, MessageFacts DEF SendLen
  <2>3. CASE SendData(m)
    BY <1>0, <2>3, MessageFacts DEF SendData
  <2> QED BY <2>1, <2>2, <2>3 DEF Send
<1>2. UNCHANGED <<faults, server, host, log, reading, history>>
  BY DEF SendFlag, Send, SendLen, SendData
<1>3. /\ send' \in [Messages -> {"idle", "flag", "len", "done"}]
      /\ on' \in [Messages -> 1..Len(slots)]
  BY <1>0 DEF SendFlag, Send, SendLen, SendData, TypeOK
<1>4. /\ slots' \in Seq(Slots) /\ slots' # <<>> /\ Len(slots') = Len(slots)
  BY <1>0, <1>1 DEF Keeps
<1>5. TypeOK'
  BY <1>2, <1>3, <1>4 DEF TypeOK, server, reading, history
<1>6. CopyInv'
  BY <1>0, <1>1, <1>2, <1>4 DEF Keeps, TypeOK, CopyInv, current, server, reading
<1> QED BY <1>1, <1>5, <1>6

\* What the server does to the slot.
LEMMA ServerSlots ==
  ASSUME TypeOK, CopyInv, Serve
  PROVE  Keeps(slots, slots')
<1>0. /\ slots \in Seq(Slots) /\ Len(slots) \in 1..Len(slots)
      /\ 0 \in 0..2 /\ 2 \in 0..2
  BY SlotTypes
<1>1. CASE UNCHANGED slots
  BY <1>0, <1>1 DEF Keeps
<1>2. CASE TakeRequest
  <2>1. slots' = [slots EXCEPT ![Len(slots)].flag = 0]
    BY <1>2 DEF TakeRequest
  <2> QED BY <1>0, <2>1, FlagFacts
<1>3. CASE RespondFlag
  <2>1. slots' = [slots EXCEPT ![Len(slots)].flag = 2]
    BY <1>3 DEF RespondFlag
  <2> QED BY <1>0, <2>1, FlagFacts
<1>4. CASE RespondLen \/ RespondData
  <2>1. Reply \in Ids
    BY <1>4 DEF RespondLen, RespondData, Reply, CopyInv, TypeOK, Ids
  <2>2. CASE RespondLen
    <3>1. slots' = [slots EXCEPT ![Len(slots)].len = Reply]
      BY <2>2 DEF RespondLen
    <3> QED BY <1>0, <2>1, <3>1, MessageFacts
  <2>3. CASE RespondData
    <3>1. slots' = [slots EXCEPT ![Len(slots)].data = Reply]
      BY <2>3 DEF RespondData
    <3> QED BY <1>0, <2>1, <3>1, MessageFacts
  <2> QED BY <1>4, <2>2, <2>3
<1> QED
  BY <1>1, <1>2, <1>3, <1>4 DEF Serve, SeeRequest, CopyRequest, RespondTooLarge,
     BroadcastLen, BroadcastData

LEMMA ServeType ==
  ASSUME TypeOK, CopyInv, Serve
  PROVE  TypeOK' /\ CopyInv' /\ Keeps(slots, slots')
<1>0. /\ slots \in Seq(Slots) /\ Len(slots) \in 1..Len(slots) /\ current \in Slots
      /\ Keeps(slots, slots') /\ log \in Seq(Pieces)
  BY SlotTypes, ServerSlots DEF TypeOK
<1>1. /\ slots' \in Seq(Slots) /\ slots' # <<>> /\ Len(slots') = Len(slots)
  BY <1>0 DEF Keeps
<1>2. UNCHANGED <<faults, sending, host, reading, history>>
  BY DEF Serve, SeeRequest, CopyRequest, TakeRequest, RespondFlag, RespondLen,
     RespondData, RespondTooLarge, BroadcastLen, BroadcastData
<1>3. log' \in Seq(Pieces)
  <2>1. CASE BroadcastLen
    BY <1>0, <2>1, PieceFacts, AppendFacts DEF BroadcastLen, CopyInv
  <2>2. CASE BroadcastData
    BY <1>0, <2>2, PieceFacts, AppendFacts DEF BroadcastData, CopyInv
  <2>3. CASE UNCHANGED log
    BY <1>0, <2>3
  <2> QED
    BY <2>1, <2>2, <2>3 DEF Serve, SeeRequest, CopyRequest, TakeRequest, RespondFlag,
       RespondLen, RespondData, RespondTooLarge
<1>4. /\ srv' \in {"idle", "flagged", "copied", "handled", "reflag", "relen", "answered",
                   "appending"}
      /\ took' \in Ids \cup {None, Garbage}
      /\ srv' = "flagged" => current.len # None /\ UNCHANGED slots
      /\ srv' = "copied" => took' \in Ids \cup {Garbage}
      /\ srv' \in {"handled", "reflag", "relen", "answered", "appending"} => took' \in Ids
      /\ handled' \in [Messages -> Nat] /\ served' \in Nat
  <2>1. CASE SeeRequest
    BY <2>1 DEF SeeRequest, TypeOK
  <2>2. CASE CopyRequest
    BY <1>0, <2>2, ParseFacts DEF CopyRequest, TypeOK, CopyInv
  <2>3. CASE TakeRequest
    <3>1. took \in Ids \cup {Garbage} /\ Handle
      BY <2>3 DEF TakeRequest, CopyInv
    <3>2. [m \in Messages |-> handled[m] + IF took = Original(m) THEN 1 ELSE 0]
            \in [Messages -> Nat]
      BY DEF TypeOK
    <3>3. CASE took = Garbage
      BY <3>1, <3>3 DEF Handle, TypeOK
    <3>4. CASE took # Garbage
      <4>1. /\ srv' = "handled" /\ served' = served + 1 /\ took' = took
            /\ handled' = [m \in Messages |->
                             handled[m] + IF took = Original(m) THEN 1 ELSE 0]
        BY <3>1, <3>4 DEF Handle
      <4>2. took \in Ids /\ served \in Nat
        BY <3>1, <3>4 DEF TypeOK
      <4>3. handled' \in [Messages -> Nat]
        BY <3>2, <4>1
      <4>4. served' \in Nat /\ took' \in Ids
        BY <4>1, <4>2
      <4> QED BY <4>1, <4>3, <4>4
    <3> QED BY <3>3, <3>4
  <2>4. CASE RespondFlag \/ RespondLen \/ RespondData \/ RespondTooLarge
    BY <2>4 DEF RespondFlag, RespondLen, RespondData, RespondTooLarge, CopyInv, TypeOK
  <2>5. CASE BroadcastLen \/ BroadcastData
    BY <2>5 DEF BroadcastLen, BroadcastData, CopyInv, TypeOK
  <2> QED BY <2>1, <2>2, <2>3, <2>4, <2>5 DEF Serve
<1>5. TypeOK'
  BY <1>1, <1>2, <1>3, <1>4 DEF TypeOK, sending, reading, history
<1>6. CopyInv'
  <2>1. srv' = "flagged" => current'.len # None
    BY <1>4 DEF current
  <2>2. ASSUME NEW c \in Clients
        PROVE  /\ reader'[c] = "flagged" => slots'[mapped'[c]].len # None
               /\ reader'[c] = "copied" => copied'[c] \in Ids \cup {Garbage}
    <3>1. mapped[c] \in 1..Len(slots)
      BY DEF TypeOK
    <3> QED BY <1>0, <1>2, <3>1 DEF Keeps, CopyInv, reading
  <2> QED BY <1>4, <2>1, <2>2 DEF CopyInv
<1> QED BY <1>0, <1>5, <1>6

LEMMA HostType ==
  ASSUME TypeOK, CopyInv, NEW h \in Hosted, HostLen(h) \/ HostData(h)
  PROVE  TypeOK' /\ CopyInv' /\ UNCHANGED slots
<1>1. UNCHANGED <<faults, slots, sending, server, reading, history>>
  BY DEF HostLen, HostData
<1>2. log' \in Seq(Pieces)
  <2>1. Original(h) \in Ids /\ log \in Seq(Pieces)
    BY PieceFacts DEF TypeOK
  <2> QED BY <2>1, PieceFacts, AppendFacts DEF HostLen, HostData
<1>3. host' \in [Hosted -> {"idle", "half", "done", "lost"}]
  BY DEF HostLen, HostData, TypeOK
<1>4. TypeOK'
  BY <1>1, <1>2, <1>3 DEF TypeOK, sending, server, reading, history
<1>5. CopyInv'
  BY <1>1 DEF CopyInv, current, server, reading
<1> QED BY <1>1, <1>4, <1>5

LEMMA LifeType ==
  ASSUME TypeOK, CopyInv, Stop \/ Crash \/ Start
  PROVE  TypeOK' /\ CopyInv'
<1>0. slots \in Seq(Slots) /\ Len(slots) \in Nat \ {0}
  BY SlotTypes
<1>1. UNCHANGED <<faults, sending, handled, served, log, reading, history>>
  BY DEF Stop, Crash, Start
<1>2. /\ slots' \in Seq(Slots) /\ slots' # <<>> /\ Len(slots') \in Nat
      /\ Len(slots) <= Len(slots')
      /\ \A i \in 1..Len(slots) : slots'[i] = slots[i]
  <2>1. CASE Start
    BY <1>0, <2>1, NewSlotFacts DEF Start
  <2>2. CASE Stop \/ Crash
    BY <1>0, <2>2 DEF Stop, Crash, TypeOK
  <2> QED BY <2>1, <2>2
<1>3. /\ srv' \in {"down", "idle"}
      /\ took' \in Ids \cup {None, Garbage}
      /\ host' \in [Hosted -> {"idle", "half", "done", "lost"}]
  BY DEF Stop, Crash, Start, TypeOK
<1>4. /\ on' \in [Messages -> 1..Len(slots')]
      /\ mapped' \in [Clients -> 1..Len(slots')]
  BY <1>0, <1>1, <1>2 DEF TypeOK, sending, reading
<1>5. TypeOK'
  BY <1>1, <1>2, <1>3, <1>4 DEF TypeOK, sending, reading, history
<1>6. CopyInv'
  <2>1. ASSUME NEW c \in Clients
        PROVE  /\ reader'[c] = "flagged" => slots'[mapped'[c]].len # None
               /\ reader'[c] = "copied" => copied'[c] \in Ids \cup {Garbage}
    <3>1. mapped[c] \in 1..Len(slots)
      BY DEF TypeOK
    <3> QED BY <1>1, <1>2, <3>1 DEF CopyInv, reading
  <2> QED BY <1>3, <2>1 DEF CopyInv
<1> QED BY <1>5, <1>6

\* What the clients do to the slots.
LEMMA ReceiveSlots ==
  ASSUME TypeOK, NEW c \in Clients, Receive(c)
  PROVE  /\ Keeps(slots, slots')
         /\ \A i \in 1..Len(slots) : slots'[i].flag \in {0, slots[i].flag}
<1>0. /\ slots \in Seq(Slots) /\ mapped[c] \in 1..Len(slots) /\ 0 \in 0..2
  BY SlotTypes DEF TypeOK
<1>1. CASE UNCHANGED slots
  BY <1>0, <1>1 DEF Keeps
<1>2. CASE TakeResponse(c)
  <2>1. slots' = [slots EXCEPT ![mapped[c]].flag = 0]
    BY <1>2 DEF TakeResponse
  <2>2. Keeps(slots, slots')
    BY <1>0, <2>1, FlagFacts
  <2>3. \A i \in 1..Len(slots) :
          slots'[i].flag = IF i = mapped[c] THEN 0 ELSE slots[i].flag
    BY <1>0, <2>1, FlagFacts
  <2> QED BY <2>2, <2>3
<1> QED
  BY <1>1, <1>2 DEF Receive, ReturnBroadcast, NoBroadcast, NoResponse, SeeResponse,
     CopyResponse

\* The pieces of a broadcast that is there whole.
LEMMA NewsFacts ==
  ASSUME TypeOK, NEW c \in Clients, News(c)
  PROVE  /\ pos[c] \in Nat /\ Len(log) \in Nat /\ pos[c] + 2 <= Len(log)
         /\ log[pos[c] + 1].msg \in Ids
<1>1. log \in Seq(Pieces) /\ pos[c] \in Nat /\ Len(log) \in Nat
  BY DEF TypeOK
<1>2. pos[c] + 2 <= Len(log)
  BY DEF News, Whole
<1>3. pos[c] + 1 \in 1..Len(log)
  BY <1>1, <1>2
<1>4. log[pos[c] + 1] \in Pieces
  BY <1>1, <1>3
<1> QED BY <1>1, <1>2, <1>4 DEF Pieces

LEMMA ReceiveType ==
  ASSUME TypeOK, CopyInv, NEW c \in Clients, Receive(c)
  PROVE  TypeOK' /\ CopyInv'
<1>0. /\ slots \in Seq(Slots) /\ Len(slots) \in 1..Len(slots)
      /\ Keeps(slots, slots')
  BY SlotTypes, ReceiveSlots
<1>1. /\ slots' \in Seq(Slots) /\ slots' # <<>> /\ Len(slots') = Len(slots)
  BY <1>0 DEF Keeps
<1>2. UNCHANGED <<faults, sending, server, host, log>>
  BY DEF Receive, ReturnBroadcast, NoBroadcast, NoResponse, SeeResponse, CopyResponse,
     TakeResponse
<1>3. /\ reader' \in [Clients -> {"poll", "slot", "flagged", "copied"}]
      /\ mapped' \in [Clients -> 1..Len(slots)]
  BY <1>0, ZenonT(30) DEF Receive, ReturnBroadcast, NoBroadcast, NoResponse, SeeResponse, CopyResponse,
     TakeResponse, TypeOK
<1>4. copied' \in [Clients -> Ids \cup {None, Garbage}]
  <2>1. CASE CopyResponse(c)
    <3>1. slots[mapped[c]] \in Slots
      BY SlotTypes DEF TypeOK
    <3>2. PICK x \in Parse(slots[mapped[c]]) : copied' = [copied EXCEPT ![c] = x]
      BY <2>1 DEF CopyResponse
    <3>3. x \in Ids \cup {None, Garbage}
      BY <3>1, ParseFacts
    <3> QED BY <3>2, <3>3 DEF TypeOK
  <2>2. CASE TakeResponse(c)
    BY <2>2 DEF TakeResponse, TypeOK
  <2>3. CASE UNCHANGED copied
    BY <2>3 DEF TypeOK
  <2> QED BY <2>1, <2>2, <2>3 DEF Receive, ReturnBroadcast, NoBroadcast, NoResponse,
      SeeResponse
<1>5. /\ pos' \in [Clients -> Nat] /\ seen' \in [Clients -> SUBSET Ids]
      /\ at' \in [Clients -> Nat \X Nat] /\ got' \in [Clients -> SUBSET Ids]
  <2>1. CASE ReturnBroadcast(c)
    <3>1. /\ pos[c] \in Nat /\ log[pos[c] + 1].msg \in Ids
      BY <2>1, NewsFacts DEF ReturnBroadcast
    <3> QED BY <2>1, <3>1 DEF ReturnBroadcast, TypeOK
  <2>2. CASE TakeResponse(c)
    <3>1. copied[c] \in Ids \cup {Garbage}
      BY <2>2 DEF TakeResponse, CopyInv
    <3>2. {copied[c]} \ {Garbage} \subseteq Ids
      BY <3>1
    <3> QED BY <2>2, <3>2 DEF TakeResponse, history, TypeOK
  <2>3. CASE UNCHANGED <<pos, seen, at, got>>
    BY <2>3 DEF TypeOK
  <2> QED BY <2>1, <2>2, <2>3 DEF Receive, NoBroadcast, NoResponse, SeeResponse,
      CopyResponse, history
<1>6. TypeOK'
  BY <1>1, <1>2, <1>3, <1>4, <1>5 DEF TypeOK, sending, server
<1>7. ASSUME NEW d \in Clients
      PROVE  /\ reader'[d] = "flagged" => slots'[mapped'[d]].len # None
             /\ reader'[d] = "copied" => copied'[d] \in Ids \cup {Garbage}
  <2>0. mapped[d] \in 1..Len(slots) /\ mapped[c] \in 1..Len(slots)
    BY DEF TypeOK
  <2>1. CASE d # c
    <3>1. reader'[d] = reader[d] /\ mapped'[d] = mapped[d] /\ copied'[d] = copied[d]
      BY <2>1 DEF Receive, ReturnBroadcast, NoBroadcast, NoResponse, SeeResponse,
         CopyResponse, TakeResponse, TypeOK
    <3> QED BY <1>0, <2>0, <3>1 DEF Keeps, CopyInv
  <2>2. CASE d = c /\ SeeResponse(c)
    BY <2>2 DEF SeeResponse, current, TypeOK
  <2>3. CASE d = c /\ CopyResponse(c)
    <3>1. slots[mapped[c]] \in Slots /\ slots[mapped[c]].len # None
      BY <2>0, <2>3, SlotTypes DEF CopyResponse, CopyInv
    <3>2. PICK x \in Parse(slots[mapped[c]]) : copied' = [copied EXCEPT ![c] = x]
      BY <2>3 DEF CopyResponse
    <3>3. x \in Ids \cup {Garbage}
      BY <3>1, ParseFacts
    <3> QED BY <2>3, <3>2, <3>3 DEF CopyResponse, TypeOK
  <2>4. CASE d = c /\ ~SeeResponse(c) /\ ~CopyResponse(c)
    BY <2>4 DEF Receive, ReturnBroadcast, NoBroadcast, NoResponse, TakeResponse, TypeOK
  <2> QED BY <2>1, <2>2, <2>3, <2>4
<1>8. CopyInv'
  <2>1. srv = "flagged" => current'.len # None
    BY <1>0, <1>1 DEF Keeps, CopyInv, current
  <2> QED BY <1>2, <1>7, <2>1 DEF CopyInv, server
<1> QED BY <1>6, <1>8

LEMMA InitType == Init => IInv
<1>1. ASSUME Init PROVE IInv
  <2>1. EmptySlot \in Slots
    BY DEF EmptySlot, Slots
  <2>2. slots \in Seq(Slots) /\ slots # <<>> /\ Len(slots) = 1
    BY <1>1, <2>1 DEF Init
  <2>3. log \in Seq(Pieces)
    BY <1>1 DEF Init
  <2>4. TypeOK
    BY <1>1, <2>2, <2>3 DEF Init, TypeOK
  <2>5. CopyInv
    BY <1>1 DEF Init, CopyInv
  <2> QED BY <2>4, <2>5 DEF IInv
<1> QED BY <1>1

LEMMA StepType == IInv /\ [Next]_vars => IInv'
<1> SUFFICES ASSUME TypeOK, CopyInv, [Next]_vars PROVE TypeOK' /\ CopyInv'
  BY DEF IInv
<1>1. CASE UNCHANGED vars
  BY <1>1 DEF vars, sending, server, reading, history, TypeOK, CopyInv, current
<1> QED
  BY <1>1, SendType, ServeType, HostType, LifeType, ReceiveType DEF Next

LEMMA Invariant == Spec => []IInv
BY InitType, StepType, PTL DEF Spec

\* Every variable keeps its type: files that are written or mapped exist, and
\* what the server handles and a client returns is a message
\* (shared_memory.rs:226-317, 837-1036).
THEOREM TypeCorrect == Spec => []TypeOK
<1>1. IInv => TypeOK
  BY DEF IInv
<1> QED BY <1>1, Invariant, PTL

-----------------------------------------------------------------------------
(* Calls of the handler.                                                   *)

Begun == {m \in Messages : send[m] # "idle"}

\* What the server has not taken yet: the flag of a request, or one it has seen.
Owed == IF current.flag = 1 \/ srv \in {"flagged", "copied"} THEN 1 ELSE 0

\* Whoever begins to send adds at most one call.
CallInv == served + Owed <= Cardinality(Begun)

LEMMA BegunFacts ==
  /\ IsFiniteSet(Begun) /\ Cardinality(Begun) \in Nat
  /\ \A m \in Messages : m \notin Begun =>
       Cardinality(Begun \cup {m}) = Cardinality(Begun) + 1
<1>1. IsFiniteSet(Begun)
  BY FiniteAssumption, FS_Subset DEF Begun
<1> QED BY <1>1, FS_CardinalityType, FS_AddElement

LEMMA SumFacts ==
  \A a, b, x, y, n \in Nat : x + y <= a + b /\ a + b <= n => x + y <= n
OBVIOUS

\* A step that begins no send and makes nothing more owed.
LEMMA CallFrame ==
  ASSUME TypeOK, TypeOK', CallInv, Begun' = Begun,
         served' + Owed' <= served + Owed
  PROVE  CallInv'
<1>1. /\ served \in Nat /\ served' \in Nat /\ Owed \in Nat /\ Owed' \in Nat
      /\ Cardinality(Begun) \in Nat
  BY BegunFacts DEF TypeOK, Owed
<1>2. served + Owed <= Cardinality(Begun)
  BY DEF CallInv
<1>3. served' + Owed' <= Cardinality(Begun)
  BY <1>1, <1>2, SumFacts, Zenon
<1>4. Cardinality(Begun') = Cardinality(Begun)
  OBVIOUS
<1>5. served' + Owed' <= Cardinality(Begun')
  BY <1>3, <1>4
<1> QED BY <1>5 DEF CallInv

LEMMA CallSend ==
  ASSUME TypeOK, TypeOK', CallInv, NEW m \in Messages, SendFlag(m) \/ Send(m)
  PROVE  CallInv'
<1>0. /\ slots \in Seq(Slots) /\ Len(slots) \in 1..Len(slots)
      /\ on[m] \in 1..Len(slots) /\ Original(m) \in Ids
  BY SlotTypes, PieceFacts DEF TypeOK
<1>1. srv' = srv /\ served' = served
  BY DEF SendFlag, Send, SendLen, SendData, server
<1>2. CASE SendFlag(m)
  <2>1. Begun' = Begun \cup {m} /\ m \notin Begun
    BY <1>2 DEF SendFlag, Begun, TypeOK
  <2>2. Cardinality(Begun') = Cardinality(Begun) + 1 /\ Cardinality(Begun) \in Nat
    BY <2>1, BegunFacts
  <2>3. served \in Nat /\ Owed \in 0..1 /\ Owed' \in 0..1
    BY DEF TypeOK, Owed
  <2> QED BY <1>1, <2>2, <2>3 DEF CallInv
<1>3. CASE Send(m)
  <2>1. Begun' = Begun
    BY <1>3 DEF Send, SendLen, SendData, Begun, TypeOK
  <2>2. /\ Len(slots') = Len(slots)
        /\ \A i \in 1..Len(slots) : slots'[i].flag = slots[i].flag
    <3>1. CASE SendLen(m)
      <4>1. slots' = [slots EXCEPT ![on[m]].len = Original(m)]
        BY <3>1 DEF SendLen
      <4> QED BY <1>0, <4>1, MessageFacts DEF Keeps
    <3>2. CASE SendData(m)
      <4>1. slots' = [slots EXCEPT ![on[m]].data = Original(m)]
        BY <3>2 DEF SendData
      <4> QED BY <1>0, <4>1, MessageFacts DEF Keeps
    <3> QED BY <1>3, <3>1, <3>2 DEF Send
  <2>3. Owed' = Owed
    BY <1>0, <1>1, <2>2 DEF Owed, current
  <2>4. served' + Owed' <= served + Owed
    BY <1>1, <2>3 DEF TypeOK, Owed
  <2> QED BY <2>1, <2>4, CallFrame
<1> QED BY <1>2, <1>3

LEMMA CallServe ==
  ASSUME TypeOK, TypeOK', CopyInv, CallInv, Serve
  PROVE  CallInv'
<1>0. /\ slots \in Seq(Slots) /\ Len(slots) \in 1..Len(slots)
      /\ Len(slots') = Len(slots) /\ served \in Nat /\ 0 \in 0..2 /\ 2 \in 0..2
  BY SlotTypes, ServerSlots DEF TypeOK, Keeps
<1>1. Begun' = Begun
  BY DEF Serve, SeeRequest, CopyRequest, TakeRequest, RespondFlag, RespondLen,
     RespondData, RespondTooLarge, BroadcastLen, BroadcastData, sending, Begun
<1>2. served' + Owed' <= served + Owed
  <2>1. CASE SeeRequest \/ CopyRequest
    BY <1>0, <2>1 DEF SeeRequest, CopyRequest, Owed, current
  <2>2. CASE TakeRequest
    <3>1. slots' = [slots EXCEPT ![Len(slots)].flag = 0] /\ srv = "copied" /\ Handle
      BY <2>2 DEF TakeRequest
    <3>2. current'.flag = 0
      BY <1>0, <3>1, FlagFacts DEF current
    <3>3. srv' \in {"idle", "handled"} /\ (served' = served \/ served' = served + 1)
      BY <3>1 DEF Handle
    <3>4. Owed = 1 /\ Owed' = 0
      BY <3>1, <3>2, <3>3 DEF Owed
    <3>5. served' + 0 <= served + 1
      BY <1>0, <3>3
    <3> QED BY <3>4, <3>5
  <2>3. CASE RespondFlag
    <3>1. slots' = [slots EXCEPT ![Len(slots)].flag = 2] /\ srv' = "reflag" /\ served' = served
      BY <2>3 DEF RespondFlag
    <3>2. current'.flag = 2
      BY <1>0, <3>1, FlagFacts DEF current
    <3> QED BY <1>0, <3>1, <3>2 DEF Owed
  <2>4. CASE RespondLen \/ RespondData
    <3>1. Reply \in Ids
      BY <2>4 DEF RespondLen, RespondData, Reply, CopyInv, TypeOK, Ids
    <3>2. current'.flag = current.flag
      <4>1. CASE slots' = [slots EXCEPT ![Len(slots)].len = Reply]
        BY <1>0, <3>1, <4>1, MessageFacts DEF current
      <4>2. CASE slots' = [slots EXCEPT ![Len(slots)].data = Reply]
        BY <1>0, <3>1, <4>2, MessageFacts DEF current
      <4> QED BY <2>4, <4>1, <4>2 DEF RespondLen, RespondData
    <3> QED BY <1>0, <2>4, <3>2 DEF RespondLen, RespondData, Owed
  <2>5. CASE RespondTooLarge \/ BroadcastLen \/ BroadcastData
    BY <1>0, <2>5 DEF RespondTooLarge, BroadcastLen, BroadcastData, Owed, current
  <2> QED BY <2>1, <2>2, <2>3, <2>4, <2>5 DEF Serve
<1> QED BY <1>1, <1>2, CallFrame

LEMMA CallRest ==
  ASSUME TypeOK, TypeOK', CallInv,
         \/ Stop \/ Crash \/ Start \/ UNCHANGED vars
         \/ \E h \in Hosted : HostLen(h) \/ HostData(h)
         \/ \E c \in Clients : Receive(c)
  PROVE  CallInv'
<1>0. slots \in Seq(Slots) /\ Len(slots) \in 1..Len(slots) /\ Len(slots) \in Nat
  BY SlotTypes
<1>1. served' = served /\ Begun' = Begun /\ served \in Nat
  BY ZenonT(30) DEF Stop, Crash, Start, HostLen, HostData, Receive, ReturnBroadcast, NoBroadcast,
     NoResponse, SeeResponse, CopyResponse, TakeResponse, vars, server, sending, Begun, TypeOK
<1>2. Owed' <= Owed
  <2>1. CASE Start
    <3>1. slots' = Append(slots, EmptySlot) /\ srv' = "idle"
      BY <2>1 DEF Start
    <3>2. current' = EmptySlot
      BY <1>0, <3>1, NewSlotFacts DEF current
    <3> QED BY <3>1, <3>2 DEF Owed, EmptySlot
  <2>2. ASSUME NEW c \in Clients, Receive(c) PROVE Owed' <= Owed
    <3>1. srv' = srv
      BY <2>2 DEF Receive, ReturnBroadcast, NoBroadcast, NoResponse, SeeResponse,
         CopyResponse, TakeResponse, server
    <3>2. Len(slots') = Len(slots)
      BY <2>2, ReceiveSlots DEF Keeps
    <3>3. current'.flag \in {0, current.flag}
      BY <1>0, <2>2, <3>2, ReceiveSlots DEF current
    <3> QED BY <3>1, <3>3 DEF Owed
  <2>3. CASE Stop \/ Crash
    BY <2>3 DEF Stop, Crash, Owed, current
  <2>4. CASE UNCHANGED <<srv, slots>>
    BY <2>4 DEF Owed, current
  <2> QED BY <2>1, <2>2, <2>3, <2>4 DEF HostLen, HostData, vars, server
<1>3. served' + Owed' <= served + Owed
  BY <1>1, <1>2 DEF Owed
<1> QED BY <1>1, <1>3, CallFrame

LEMMA CallStep == IInv /\ CallInv /\ [Next]_vars => CallInv'
<1> SUFFICES ASSUME IInv, CallInv, [Next]_vars PROVE CallInv'
  OBVIOUS
<1>1. TypeOK /\ TypeOK' /\ CopyInv
  BY StepType DEF IInv
<1> QED BY <1>1, CallSend, CallServe, CallRest DEF Next

\* However accesses to the slot race, and wherever servers crash and start, the
\* handler is called once at most for each send that has begun
\* (shared_memory.rs:271-300, 1223-1227).
THEOREM CalledPerSend == Spec => []NoMoreThanSent
<1>1. Init => CallInv
  <2>1. ASSUME Init PROVE CallInv
    <3>1. Begun = {} /\ served = 0 /\ Owed = 0
      BY <2>1 DEF Init, Begun, Owed, current, EmptySlot
    <3> QED BY <3>1, FS_EmptySet DEF CallInv
  <2> QED BY <2>1
<1>2. IInv /\ CallInv => NoMoreThanSent
  <2>1. ASSUME IInv, CallInv PROVE NoMoreThanSent
    <3>1. served \in Nat /\ Owed \in 0..1 /\ Cardinality(Begun) \in Nat
      BY <2>1, BegunFacts DEF IInv, TypeOK, Owed
    <3> QED BY <2>1, <3>1 DEF CallInv, NoMoreThanSent, Begun
  <2> QED BY <2>1
<1> QED BY <1>1, <1>2, CallStep, Invariant, PTL DEF Spec

-----------------------------------------------------------------------------
(* Broadcasts.                                                             *)

\* The i-th piece of l ends the first whole copy of a broadcast.
Ends(l, i) ==
  /\ i > 1
  /\ l[i - 1] = LengthOf(l[i - 1].msg) /\ l[i] = BytesOf(l[i - 1].msg)
  /\ \A k \in 1..(i - 1) : l[k] # l[i]

Entry(l, i) == [msg |-> l[i].msg, epoch |-> 1, index |-> i]

\* A client has returned everything up to its position, and that is the place
\* of what it returned last.
ReadInv ==
  \A c \in Clients :
    /\ pos[c] <= Len(log)
    /\ at[c] = IF pos[c] = 0 THEN <<0, 0>> ELSE <<1, pos[c]>>
    /\ got[c] \subseteq seen[c]
    /\ \A i \in 1..pos[c] : log[i].end => log[i].msg \in got[c]

LEMMA PublishedFacts ==
  ASSUME log \in Seq(Pieces), NEW e
  PROVE  e \in Published <=> \E i \in 1..Len(log) : Ends(log, i) /\ e = Entry(log, i)
<1>1. DOMAIN log = 1..Len(log) /\ Len(log) \in Nat
  OBVIOUS
<1>2. ASSUME NEW i \in 1..Len(log)
      PROVE  i > 1 /\ Whole(i - 2) <=>
               i > 1 /\ log[i - 1] = LengthOf(log[i - 1].msg) /\ log[i] = BytesOf(log[i - 1].msg)
  <2>1. (i - 2) + 1 = i - 1 /\ (i - 2) + 2 = i /\ i <= Len(log)
    BY <1>1
  <2> QED BY <2>1 DEF Whole
<1> QED BY <1>1, <1>2 DEF Published, Ends, Entry

LEMMA PublishedNext ==
  ASSUME log' \in Seq(Pieces), NEW e
  PROVE  e \in Published' <=> \E i \in 1..Len(log') : Ends(log', i) /\ e = Entry(log', i)
<1>1. DOMAIN log' = 1..Len(log') /\ Len(log') \in Nat
  OBVIOUS
<1>2. ASSUME NEW i \in 1..Len(log')
      PROVE  i > 1 /\ Whole(i - 2)' <=>
               i > 1 /\ log'[i - 1] = LengthOf(log'[i - 1].msg) /\ log'[i] = BytesOf(log'[i - 1].msg)
  <2>1. (i - 2) + 1 = i - 1 /\ (i - 2) + 2 = i /\ i <= Len(log')
    BY <1>1
  <2> QED BY <2>1 DEF Whole
<1> QED BY <1>1, <1>2 DEF Published, Ends, Entry

\* A step that appends one piece: the log before is the beginning of the log.
Appends(x) == x \in Pieces /\ log' = Append(log, x)

\* What was published stays so, and the new piece may end a broadcast.
LEMMA AppendPublished ==
  ASSUME TypeOK, NEW x, Appends(x), NEW e
  PROVE  e \in Published' <=>
           \/ e \in Published
           \/ Ends(log', Len(log) + 1) /\ e = Entry(log', Len(log) + 1)
<1>1. /\ log \in Seq(Pieces) /\ log' \in Seq(Pieces) /\ Len(log) \in Nat
      /\ Len(log') = Len(log) + 1
      /\ \A i \in 1..Len(log) : log'[i] = log[i]
  BY AppendFacts DEF TypeOK, Appends
<1>2. ASSUME NEW i \in 1..Len(log)
      PROVE  (Ends(log', i) <=> Ends(log, i)) /\ Entry(log', i) = Entry(log, i)
  <2>1. log'[i] = log[i] /\ \A k \in 1..(i - 1) : k \in 1..Len(log) /\ log'[k] = log[k]
    BY <1>1
  <2>2. i > 1 => log'[i - 1] = log[i - 1]
    BY <2>1
  <2> QED BY <2>1, <2>2 DEF Ends, Entry
<1>3. \A i : i \in 1..Len(log') <=> i \in 1..Len(log) \/ i = Len(log) + 1
  BY <1>1
<1>4. e \in Published <=> \E i \in 1..Len(log) : Ends(log, i) /\ e = Entry(log, i)
  BY <1>1, PublishedFacts
<1>5. e \in Published' <=> \E i \in 1..Len(log') : Ends(log', i) /\ e = Entry(log', i)
  BY <1>1, PublishedNext
<1> QED BY <1>2, <1>3, <1>4, <1>5

\* Appending a piece publishes a message or nothing.
LEMMA AppendStep ==
  ASSUME TypeOK, NEW x, Appends(x), UNCHANGED <<at, got>>
  PROVE  [Broadcasts!Next]_(Broadcasts!vars)
<1> DEFINE n == Len(log) + 1
           e == Entry(log', n)
<1>1. /\ log \in Seq(Pieces) /\ log' \in Seq(Pieces) /\ Len(log) \in Nat
      /\ log'[n] = x /\ x \in Pieces
      /\ \A i \in 1..Len(log) : log'[i] = log[i] /\ log[i] \in Pieces
  BY AppendFacts DEF TypeOK, Appends
<1>2. CASE ~Ends(log', n)
  <2>1. \A f : f \in Published' <=> f \in Published
    BY <1>2, AppendPublished
  <2> QED BY <2>1 DEF Broadcasts!vars
<1>3. CASE Ends(log', n)
  <2>1. \A f : f \in Published' <=> f \in Published \cup {e}
    BY <1>3, AppendPublished
  <2>2. Published' = Published \cup {e}
    BY <2>1
  <2>3. e.msg = x.msg /\ e.epoch = 1 /\ e.index = n /\ e \in Broadcasts!Entries
    BY <1>1 DEF Entry, Pieces, Broadcasts!Entries
  <2>4. ASSUME NEW f \in Published
        PROVE  f.msg # e.msg /\ f.index < n
    <3>1. PICK i \in 1..Len(log) : Ends(log, i) /\ f = Entry(log, i)
      BY <1>1, PublishedFacts
    <3>2. f.msg = log[i].msg /\ f.index = i
      BY <3>1 DEF Entry
    <3>3. log[i].end
      BY <3>1 DEF Ends, BytesOf
    <3>4. x.end
      BY <1>1, <1>3 DEF Ends, BytesOf
    <3>5. log[i] # x
      <4>1. i \in 1..(n - 1)
        BY <1>1
      <4> QED BY <1>1, <1>3, <4>1 DEF Ends
    <3>6. log[i].msg # x.msg
      BY <1>1, <3>3, <3>4, <3>5 DEF Pieces
    <3> QED BY <1>1, <2>3, <3>2, <3>6
  <2>5. Broadcasts!Publish(e)
    BY <2>2, <2>3, <2>4 DEF Broadcasts!Publish
  <2>6. e \in Published'
    BY <2>2
  <2> QED BY <2>3, <2>5, <2>6 DEF Broadcasts!Next
<1> QED BY <1>2, <1>3

\* The steps that append.
LEMMA AppendActions ==
  ASSUME IInv, \/ BroadcastLen \/ BroadcastData
               \/ \E h \in Hosted : HostLen(h) \/ HostData(h)
  PROVE  (\E x : Appends(x)) /\ UNCHANGED <<pos, seen, at, got>>
<1>1. CASE BroadcastLen
  <2>1. took \in Ids
    BY <1>1 DEF BroadcastLen, IInv, CopyInv
  <2>2. Appends(LengthOf(took))
    BY <1>1, <2>1, PieceFacts DEF BroadcastLen, Appends
  <2> QED BY <1>1, <2>2 DEF BroadcastLen, reading, history
<1>2. CASE BroadcastData
  <2>1. took \in Ids
    BY <1>2 DEF BroadcastData, IInv, CopyInv
  <2>2. Appends(BytesOf(took))
    BY <1>2, <2>1, PieceFacts DEF BroadcastData, Appends
  <2> QED BY <1>2, <2>2 DEF BroadcastData, reading, history
<1>3. ASSUME NEW h \in Hosted, HostLen(h) \/ HostData(h)
      PROVE  (\E x : Appends(x)) /\ UNCHANGED <<pos, seen, at, got>>
  <2>1. Original(h) \in Ids
    BY PieceFacts
  <2>2. CASE HostLen(h)
    <3>1. Appends(LengthOf(Original(h)))
      BY <2>1, <2>2, PieceFacts DEF HostLen, Appends
    <3> QED BY <2>2, <3>1 DEF HostLen, reading, history
  <2>3. CASE HostData(h)
    <3>1. Appends(BytesOf(Original(h)))
      BY <2>1, <2>3, PieceFacts DEF HostData, Appends
    <3> QED BY <2>3, <3>1 DEF HostData, reading, history
  <2> QED BY <1>3, <2>2, <2>3
<1> QED BY <1>1, <1>2, <1>3

\* All other steps leave the log alone, and all but one what was returned.
LEMMA OtherActions ==
  ASSUME [Next]_vars, ~(BroadcastLen \/ BroadcastData),
         \A h \in Hosted : ~(HostLen(h) \/ HostData(h)),
         \A c \in Clients : ~(ReturnBroadcast(c) \/ TakeResponse(c))
  PROVE  UNCHANGED <<log, pos, seen, at, got>>
<1>1. CASE UNCHANGED vars
  BY <1>1 DEF vars, reading, history
<1>2. ASSUME NEW m \in Messages, SendFlag(m) \/ Send(m) PROVE UNCHANGED <<log, reading, history>>
  BY <1>2 DEF SendFlag, Send, SendLen, SendData
<1>3. CASE Serve
  BY <1>3 DEF Serve, SeeRequest, CopyRequest, TakeRequest, RespondFlag, RespondLen,
     RespondData, RespondTooLarge, reading, history
<1>4. CASE Stop \/ Crash \/ Start
  BY <1>4 DEF Stop, Crash, Start, reading, history
<1>5. ASSUME NEW c \in Clients, Receive(c) PROVE UNCHANGED <<log, pos, seen, at, got>>
  BY <1>5 DEF Receive, NoBroadcast, NoResponse, SeeResponse, CopyResponse, history
<1> QED BY <1>1, <1>2, <1>3, <1>4, <1>5 DEF Next, reading, history

LEMMA ReadTypes ==
  ASSUME TypeOK, NEW c \in Clients
  PROVE  /\ log \in Seq(Pieces) /\ Len(log) \in Nat /\ pos[c] \in Nat
         /\ \A i \in 1..Len(log) : log[i] \in Pieces
BY DEF TypeOK

LEMMA ReadStep == IInv /\ ReadInv /\ [Next]_vars => ReadInv'
<1> SUFFICES ASSUME IInv, ReadInv, [Next]_vars, NEW c \in Clients
             PROVE  /\ pos'[c] <= Len(log')
                    /\ at'[c] = IF pos'[c] = 0 THEN <<0, 0>> ELSE <<1, pos'[c]>>
                    /\ got'[c] \subseteq seen'[c]
                    /\ \A i \in 1..pos'[c] : log'[i].end => log'[i].msg \in got'[c]
  BY DEF ReadInv
<1>0. TypeOK
  BY DEF IInv
<1>1. /\ pos[c] <= Len(log)
      /\ at[c] = IF pos[c] = 0 THEN <<0, 0>> ELSE <<1, pos[c]>>
      /\ got[c] \subseteq seen[c]
      /\ \A i \in 1..pos[c] : log[i].end => log[i].msg \in got[c]
  BY DEF ReadInv
<1>2. CASE (\E x : Appends(x)) /\ UNCHANGED <<pos, seen, at, got>>
  <2>1. PICK x : Appends(x)
    BY <1>2
  <2>2. /\ Len(log') = Len(log) + 1 /\ Len(log) \in Nat /\ pos[c] \in Nat
        /\ \A i \in 1..Len(log) : log'[i] = log[i]
    BY <1>0, <2>1, ReadTypes, AppendFacts DEF Appends
  <2>3. \A i \in 1..pos[c] : log'[i] = log[i]
    BY <1>1, <2>2
  <2>4. pos[c] <= Len(log) + 1
    BY <1>1, <2>2
  <2> QED BY <1>1, <1>2, <2>2, <2>3, <2>4
<1>3. CASE UNCHANGED <<log, pos, seen, at, got>>
  BY <1>1, <1>3
<1>4. ASSUME NEW d \in Clients, TakeResponse(d)
      PROVE  /\ UNCHANGED <<log, pos, at, got>>
             /\ seen[c] \subseteq seen'[c]
  <2>1. seen' = [seen EXCEPT ![d] = @ \cup ({copied[d]} \ {Garbage})]
        /\ UNCHANGED <<log, pos, at, got>>
    BY <1>4 DEF TakeResponse, history
  <2> QED BY <1>0, <2>1 DEF TypeOK
<1>5. ASSUME NEW d \in Clients, ReturnBroadcast(d), d # c
      PROVE  /\ log' = log /\ pos'[c] = pos[c] /\ at'[c] = at[c]
             /\ got'[c] = got[c] /\ seen'[c] = seen[c]
  BY <1>0, <1>5 DEF ReturnBroadcast, TypeOK
<1>6. CASE ReturnBroadcast(c)
  <2> DEFINE x == log[pos[c] + 1].msg
  <2>1. /\ log' = log /\ pos'[c] = pos[c] + 2 /\ at'[c] = <<1, pos[c] + 2>>
        /\ got'[c] = got[c] \cup {x} /\ seen'[c] = seen[c] \cup {x} /\ News(c)
    BY <1>0, <1>6 DEF ReturnBroadcast, TypeOK
  <2>2. pos[c] \in Nat /\ Len(log) \in Nat /\ pos[c] + 2 <= Len(log) /\ x \in Ids
    BY <1>0, <2>1, NewsFacts
  <2>3. log[pos[c] + 1] = LengthOf(x) /\ log[pos[c] + 2] = BytesOf(x)
    BY <2>1 DEF News, Whole
  <2>4. ASSUME NEW i \in 1..(pos[c] + 2), log[i].end PROVE log[i].msg \in got[c] \cup {x}
    <3>1. i \in 1..pos[c] \/ i = pos[c] + 1 \/ i = pos[c] + 2
      BY <2>2
    <3> QED BY <1>1, <2>2, <2>3, <2>4, <3>1, PieceFacts
  <2>5. pos'[c] # 0 /\ pos'[c] <= Len(log')
    BY <2>1, <2>2
  <2>6. got'[c] \subseteq seen'[c]
    BY <1>1, <2>1
  <2> QED BY <2>1, <2>4, <2>5, <2>6
<1>7. CASE \/ BroadcastLen \/ BroadcastData
           \/ \E h \in Hosted : HostLen(h) \/ HostData(h)
  BY <1>2, <1>7, AppendActions
<1>8. ASSUME NEW d \in Clients, TakeResponse(d)
      PROVE  /\ pos'[c] <= Len(log')
             /\ at'[c] = IF pos'[c] = 0 THEN <<0, 0>> ELSE <<1, pos'[c]>>
             /\ got'[c] \subseteq seen'[c]
             /\ \A i \in 1..pos'[c] : log'[i].end => log'[i].msg \in got'[c]
  BY <1>1, <1>4, <1>8
<1>9. ASSUME NEW d \in Clients, ReturnBroadcast(d), d # c
      PROVE  /\ pos'[c] <= Len(log')
             /\ at'[c] = IF pos'[c] = 0 THEN <<0, 0>> ELSE <<1, pos'[c]>>
             /\ got'[c] \subseteq seen'[c]
             /\ \A i \in 1..pos'[c] : log'[i].end => log'[i].msg \in got'[c]
  BY <1>1, <1>5, <1>9
<1> QED BY <1>3, <1>6, <1>7, <1>8, <1>9, OtherActions

\* Returning a broadcast delivers a message that is published.
LEMMA DeliverStep ==
  ASSUME IInv, ReadInv, NEW c \in Clients, ReturnBroadcast(c)
  PROVE  Broadcasts!Next
<1> DEFINE n == pos[c] + 2
           e == Entry(log, n)
           x == log[pos[c] + 1].msg
<1>0. TypeOK
  BY DEF IInv
<1>1. /\ log' = log /\ News(c)
      /\ at' = [at EXCEPT ![c] = <<1, n>>]
      /\ got' = [got EXCEPT ![c] = got[c] \cup {x}]
  BY DEF ReturnBroadcast
<1>2. pos[c] \in Nat /\ Len(log) \in Nat /\ n <= Len(log) /\ x \in Ids
  BY <1>0, <1>1, NewsFacts
<1>3. log[pos[c] + 1] = LengthOf(x) /\ log[n] = BytesOf(x) /\ x \notin seen[c]
  BY <1>1 DEF News, Whole
<1>4. /\ at[c] = IF pos[c] = 0 THEN <<0, 0>> ELSE <<1, pos[c]>>
      /\ x \notin got[c]
      /\ \A i \in 1..pos[c] : log[i].end => log[i].msg \in got[c]
  BY <1>3 DEF ReadInv
<1>5. ASSUME NEW k \in 1..(n - 1) PROVE log[k] # log[n]
  <2>1. k \in 1..pos[c] \/ k = pos[c] + 1
    BY <1>2
  <2>2. log[n].end /\ log[n].msg = x /\ ~log[pos[c] + 1].end
    BY <1>2, <1>3, PieceFacts
  <2> QED BY <1>4, <2>1, <2>2
<1>6. n - 1 = pos[c] + 1 /\ n > 1 /\ n \in 1..Len(log)
  BY <1>2
<1>7. Ends(log, n)
  BY <1>3, <1>5, <1>6 DEF Ends
<1>8. e \in Published
  BY <1>0, <1>6, <1>7, PublishedFacts DEF TypeOK
<1>9. e.msg = x /\ e.epoch = 1 /\ e.index = n
  BY <1>2, <1>3, PieceFacts DEF Entry
<1>10. Broadcasts!PlaceOf(e) = <<1, n>>
  BY <1>9 DEF Broadcasts!PlaceOf
<1>11. Broadcasts!Before(at[c], <<1, n>>)
  BY <1>2, <1>4 DEF Broadcasts!Before
<1>12. Published' = Published
  BY <1>1 DEF Published, Whole
<1>13. Broadcasts!Deliver(c, e)
  BY <1>1, <1>4, <1>8, <1>9, <1>10, <1>11, <1>12 DEF Broadcasts!Deliver
<1> QED BY <1>8, <1>13 DEF Broadcasts!Next

LEMMA RefineStep == IInv /\ ReadInv /\ [Next]_vars => [Broadcasts!Next]_(Broadcasts!vars)
<1> SUFFICES ASSUME IInv, ReadInv, [Next]_vars PROVE [Broadcasts!Next]_(Broadcasts!vars)
  OBVIOUS
<1>1. TypeOK
  BY DEF IInv
<1>2. CASE \/ BroadcastLen \/ BroadcastData
           \/ \E h \in Hosted : HostLen(h) \/ HostData(h)
  <2>1. (\E x : Appends(x)) /\ UNCHANGED <<at, got>>
    BY <1>2, AppendActions
  <2> QED BY <1>1, <2>1, AppendStep
<1>3. ASSUME NEW c \in Clients, ReturnBroadcast(c) PROVE Broadcasts!Next
  BY <1>3, DeliverStep
<1>4. CASE UNCHANGED <<log, at, got>>
  BY <1>4 DEF Published, Whole, Broadcasts!vars
<1>5. ASSUME NEW c \in Clients, TakeResponse(c) PROVE UNCHANGED <<log, at, got>>
  BY <1>5 DEF TakeResponse, history
<1> QED BY <1>2, <1>3, <1>4, <1>5, OtherActions

\* The broadcasts implement OrderedBroadcast: whatever races or crashes, a client
\* returns whole messages of the broadcast file, each once and in the order of
\* the file (shared_memory.rs:517-535, 852-934).
THEOREM BroadcastsInOrder == Spec => InOrder
<1>1. Init => Broadcasts!Init /\ ReadInv
  <2>1. ASSUME Init PROVE Broadcasts!Init /\ ReadInv
    <3>1. log = <<>> /\ log \in Seq(Pieces)
      BY <2>1 DEF Init
    <3>2. Len(log) = 0
      BY <3>1
    <3>3. \A e : e \notin Published
      BY <3>1, <3>2, PublishedFacts
    <3>4. Published = {}
      BY <3>3
    <3>5. Broadcasts!Init
      BY <2>1, <3>4 DEF Init, Broadcasts!Init
    <3>6. ReadInv
      BY <2>1, <3>2 DEF Init, ReadInv
    <3> QED BY <3>5, <3>6
  <2> QED BY <2>1
<1> QED BY <1>1, ReadStep, RefineStep, Invariant, PTL DEF Spec, InOrder, Broadcasts!Spec

-----------------------------------------------------------------------------
(* Accesses that do not race.  Then there is one access at a time, but the  *)
(* slot goes on being used by a server that crashed and by the one after    *)
(* it.  The invariant follows every id: it is ahead of the log while its    *)
(* request is on its way, held by the server, half in the log, in the log,  *)
(* or dead; what a client marks as seen is dead or behind it.               *)

\* Who is in the middle of an access.
Writing(m) == send[m] \in {"flag", "len"}
Serving == srv \in {"flagged", "copied", "reflag", "relen", "appending"}
Hosting(h) == host[h] = "half"
Reading(c) == reader[c] \in {"flagged", "copied"}

\* There is one of them at most.
Solo ==
  /\ \A m \in Messages : Writing(m) =>
       /\ ~Serving
       /\ \A n \in Messages : Writing(n) => n = m
       /\ \A h \in Hosted : ~Hosting(h)
       /\ \A c \in Clients : ~Reading(c)
  /\ Serving => (\A h \in Hosted : ~Hosting(h)) /\ (\A c \in Clients : ~Reading(c))
  /\ \A h \in Hosted : Hosting(h) =>
       /\ \A k \in Hosted : Hosting(k) => k = h
       /\ \A c \in Clients : ~Reading(c)
  /\ \A c, d \in Clients : Reading(c) /\ Reading(d) => c = d

\* Nobody is writing to the slot that has the name.
Settled == \A m \in Messages : ~(Writing(m) /\ on[m] = Len(slots))
Waits(m) == current.flag = 1 /\ current.data = Original(m) /\ Settled

\* A request waits whole in the slot, and is handled only from there.
SlotInv ==
  /\ \A m \in Messages :
       /\ handled[m] <= 1
       /\ send[m] # "done" => handled[m] = 0
       /\ Writing(m) => slots[on[m]].flag = 1
       /\ send[m] = "len" => slots[on[m]].len = Original(m)
  /\ current.flag = 1 /\ Settled =>
       \E m \in Messages : /\ current.len = Original(m) /\ current.data = Original(m)
                           /\ send[m] = "done" /\ handled[m] = 0
  /\ srv \in {"flagged", "copied"} => current.flag = 1
  /\ srv = "copied" => took = current.data
  /\ srv \in {"reflag", "relen"} => current.flag = 2
  /\ srv \in {"handled", "reflag", "relen", "answered", "appending"} =>
       /\ served # 0
       /\ \E m \in Messages : took = Original(m) /\ handled[m] = 1
  /\ \/ current.data = None
     \/ current.data[2] # 0
     \/ \E m \in Messages : current.data = Original(m) /\ send[m] = "done"

\* What will be broadcast, what is being broadcast, and what was or is.
Ahead(x) ==
  \/ \E m \in Messages : x = Original(m) /\ (send[m] # "done" \/ Waits(m))
  \/ \E h \in Hosted : x = Original(h) /\ host[h] = "idle"
Held(x) == srv \in {"handled", "reflag", "relen", "answered"} /\ took = x
Half(x) ==
  \/ srv = "appending" /\ took = x
  \/ \E h \in Hosted : x = Original(h) /\ Hosting(h)
InLog(x) == \E i \in DOMAIN log : log[i].msg = x
Fresh(x) == Ahead(x) \/ Held(x)
Pending(x) == Fresh(x) \/ Half(x)
Dead(x) == ~Pending(x) /\ ~InLog(x)

LogInv ==
  /\ \A i \in DOMAIN log : log[i].msg[2] = 0
  /\ \A x : Fresh(x) => ~InLog(x)
  /\ \A x : Half(x) => \A i \in DOMAIN log : log[i].msg = x => i = Len(log)
  /\ \A i, j \in DOMAIN log : i < j /\ log[i].msg = log[j].msg => j = i + 1

\* What a client takes for a response will not be broadcast, and was not.
DeadInv ==
  \A x :
    /\ srv = "handled" /\ current.data = x => ~InLog(x)
    /\ srv \in {"reflag", "relen"} /\ current.data = x => ~InLog(x) /\ ~Ahead(x)
    /\ current.flag = 2 /\ srv \notin {"reflag", "relen"} /\ current.data = x => Dead(x)
    /\ \A c \in Clients :
         /\ reader[c] = "flagged" /\ slots[mapped[c]].data = x => Dead(x)
         /\ reader[c] = "copied" /\ copied[c] = x /\ x # Garbage => Dead(x)

SeenInv ==
  \A c \in Clients : \A x \in seen[c] :
    /\ ~Pending(x)
    /\ \A i \in DOMAIN log : i > pos[c] => log[i].msg # x

QuietInv == "race" \notin faults => Solo /\ SlotInv /\ LogInv /\ DeadInv /\ SeenInv

-----------------------------------------------------------------------------
(* What a step does to a slot.                                             *)

LEMMA EditFacts ==
  ASSUME NEW s \in Seq(Slots), NEW n \in 1..Len(s), NEW x
  PROVE  /\ Len([s EXCEPT ![n].flag = x]) = Len(s)
         /\ Len([s EXCEPT ![n].len = x]) = Len(s)
         /\ Len([s EXCEPT ![n].data = x]) = Len(s)
         /\ \A i \in 1..Len(s) :
              /\ [s EXCEPT ![n].flag = x][i] = IF i = n THEN [s[n] EXCEPT !.flag = x] ELSE s[i]
              /\ [s EXCEPT ![n].len = x][i] = IF i = n THEN [s[n] EXCEPT !.len = x] ELSE s[i]
              /\ [s EXCEPT ![n].data = x][i] = IF i = n THEN [s[n] EXCEPT !.data = x] ELSE s[i]
OBVIOUS

LEMMA FieldFacts ==
  ASSUME NEW t \in Slots, NEW x
  PROVE  /\ [t EXCEPT !.flag = x].flag = x
         /\ [t EXCEPT !.flag = x].len = t.len /\ [t EXCEPT !.flag = x].data = t.data
         /\ [t EXCEPT !.len = x].len = x
         /\ [t EXCEPT !.len = x].flag = t.flag /\ [t EXCEPT !.len = x].data = t.data
         /\ [t EXCEPT !.data = x].data = x
         /\ [t EXCEPT !.data = x].flag = t.flag /\ [t EXCEPT !.data = x].len = t.len
BY DEF Slots

\* Messages and broadcasts of the primary have different ids, and so have replies.
LEMMA IdFacts ==
  /\ \A m \in Messages : Original(m)[2] = 0 /\ Original(m)[1] = m /\ Original(m) # None
  /\ \A h \in Hosted : Original(h)[2] = 0 /\ Original(h)[1] = h /\ Original(h) # None
  /\ \A m, n \in Messages : Original(m) = Original(n) => m = n
  /\ \A m \in Messages, h \in Hosted : Original(m) # Original(h)
  /\ \A h, k \in Hosted : Original(h) = Original(k) => h = k
BY NamesAssumption, NoneAssumption, PieceFacts DEF Original

LEMMA FreeFacts ==
  ASSUME MayBegin, "race" \notin faults
  PROVE  /\ \A m \in Messages : ~Writing(m)
         /\ ~Serving
         /\ \A h \in Hosted : ~Hosting(h)
         /\ \A c \in Clients : ~Reading(c)
BY DEF MayBegin, Busy, Writing, Serving, Hosting, Reading

-----------------------------------------------------------------------------
(* Accesses do not overlap.                                                *)

LEMMA SoloSend ==
  ASSUME TypeOK, Solo, "race" \notin faults, NEW m \in Messages, SendFlag(m) \/ Send(m)
  PROVE  Solo'
<1>1. UNCHANGED <<srv, host, reader>>
  BY DEF SendFlag, Send, SendLen, SendData, server, reading
<1>2. /\ \A n \in Messages : n # m => send'[n] = send[n]
      /\ Serving' = Serving
      /\ \A h \in Hosted : Hosting(h)' = Hosting(h)
      /\ \A c \in Clients : Reading(c)' = Reading(c)
  BY <1>1 DEF SendFlag, Send, SendLen, SendData, Serving, Hosting, Reading, TypeOK
<1>3. CASE SendFlag(m)
  <2>1. /\ \A n \in Messages : ~Writing(n)
        /\ ~Serving
        /\ \A h \in Hosted : ~Hosting(h)
        /\ \A c \in Clients : ~Reading(c)
    BY <1>3, FreeFacts DEF SendFlag
  <2> QED BY <1>2, <2>1 DEF Solo, Writing
<1>4. CASE Send(m)
  <2>1. Writing(m)
    BY <1>4 DEF Send, SendLen, SendData, Writing
  <2>2. \A n \in Messages : Writing(n)' => Writing(n)
    BY <1>2, <2>1 DEF Writing
  <2> QED BY <1>2, <2>2 DEF Solo
<1> QED BY <1>3, <1>4

LEMMA SoloServe ==
  ASSUME TypeOK, Solo, "race" \notin faults, Serve
  PROVE  Solo'
<1>1. UNCHANGED <<send, host, reader>>
  BY DEF Serve, SeeRequest, CopyRequest, TakeRequest, RespondFlag, RespondLen,
     RespondData, RespondTooLarge, BroadcastLen, BroadcastData, sending, reading
<1>2. /\ \A m \in Messages : Writing(m)' = Writing(m)
      /\ \A h \in Hosted : Hosting(h)' = Hosting(h)
      /\ \A c \in Clients : Reading(c)' = Reading(c)
  BY <1>1 DEF Writing, Hosting, Reading
<1>3. CASE MayBegin
  <2>1. /\ \A n \in Messages : ~Writing(n)
        /\ \A h \in Hosted : ~Hosting(h)
        /\ \A c \in Clients : ~Reading(c)
    BY <1>3, FreeFacts
  <2> QED BY <1>2, <2>1 DEF Solo
<1>4. CASE Serving' => Serving
  BY <1>2, <1>4 DEF Solo
<1> QED
  BY <1>3, <1>4 DEF Serve, SeeRequest, CopyRequest, TakeRequest, Handle, RespondFlag,
     RespondLen, RespondData, RespondTooLarge, BroadcastLen, BroadcastData, Serving

LEMMA SoloHost ==
  ASSUME TypeOK, Solo, "race" \notin faults, NEW h \in Hosted, HostLen(h) \/ HostData(h)
  PROVE  Solo'
<1>1. /\ \A m \in Messages : Writing(m)' = Writing(m)
      /\ Serving' = Serving
      /\ \A c \in Clients : Reading(c)' = Reading(c)
      /\ \A k \in Hosted : k # h => Hosting(k)' = Hosting(k)
  BY DEF HostLen, HostData, sending, server, reading, Writing, Hosting, Serving, Reading,
     TypeOK
<1>2. CASE HostLen(h)
  <2>1. /\ \A n \in Messages : ~Writing(n)
        /\ ~Serving
        /\ \A k \in Hosted : ~Hosting(k)
        /\ \A c \in Clients : ~Reading(c)
    BY <1>2, FreeFacts DEF HostLen
  <2> QED BY <1>1, <2>1 DEF Solo
<1>3. CASE HostData(h)
  <2>1. ~Hosting(h)'
    BY <1>3 DEF HostData, Hosting, TypeOK
  <2>2. \A k \in Hosted : Hosting(k)' => Hosting(k)
    BY <1>1, <2>1
  <2> QED BY <1>1, <2>2 DEF Solo
<1> QED BY <1>2, <1>3

LEMMA SoloLife ==
  ASSUME TypeOK, Solo, Stop \/ Crash \/ Start
  PROVE  Solo'
<1>1. /\ \A m \in Messages : Writing(m)' = Writing(m)
      /\ \A c \in Clients : Reading(c)' = Reading(c)
      /\ ~Serving'
      /\ \A h \in Hosted : Hosting(h)' => Hosting(h)
  BY DEF Stop, Crash, Start, sending, reading, Writing, Hosting, Serving, Reading, TypeOK
<1> QED BY <1>1 DEF Solo

LEMMA SoloReceive ==
  ASSUME TypeOK, Solo, "race" \notin faults, NEW c \in Clients, Receive(c)
  PROVE  Solo'
<1>1. /\ \A m \in Messages : Writing(m)' = Writing(m)
      /\ Serving' = Serving
      /\ \A h \in Hosted : Hosting(h)' = Hosting(h)
  BY DEF Receive, ReturnBroadcast, NoBroadcast, NoResponse, SeeResponse, CopyResponse,
     TakeResponse, sending, server, Writing, Hosting, Serving
<1>2. \A d \in Clients : d # c => Reading(d)' = Reading(d)
  BY DEF Receive, ReturnBroadcast, NoBroadcast, NoResponse, SeeResponse, CopyResponse,
     TakeResponse, Reading, TypeOK
<1>3. CASE SeeResponse(c)
  <2>1. /\ \A n \in Messages : ~Writing(n)
        /\ ~Serving
        /\ \A k \in Hosted : ~Hosting(k)
        /\ \A d \in Clients : ~Reading(d)
    BY <1>3, FreeFacts DEF SeeResponse
  <2> QED BY <1>1, <1>2, <2>1 DEF Solo
<1>4. CASE ~SeeResponse(c)
  <2>1. Reading(c)' => Reading(c)
    BY <1>4 DEF Receive, ReturnBroadcast, NoBroadcast, NoResponse, CopyResponse,
       TakeResponse, Reading, TypeOK
  <2>2. \A d \in Clients : Reading(d)' => Reading(d)
    BY <1>2, <2>1
  <2> QED BY <1>1, <2>2 DEF Solo
<1> QED BY <1>3, <1>4

-----------------------------------------------------------------------------
(* Messages come to the log once, and what is dead stays dead.             *)

\* A step that appends nothing.
LEMMA SameLog ==
  ASSUME LogInv, log' = log,
         \A x : Fresh(x)' => Fresh(x),
         \A x : Half(x)' => Half(x)
  PROVE  LogInv'
BY DEF LogInv, InLog

\* The first piece of a message is appended, or the second one.
LEMMA NewLog ==
  ASSUME TypeOK, LogInv, NEW p, Appends(p), p.msg[2] = 0,
         ~InLog(p.msg) \/ Half(p.msg),
         ~Fresh(p.msg)',
         \A x : Fresh(x)' => Fresh(x),
         \A x : Half(x)' => x = p.msg /\ ~InLog(p.msg)
  PROVE  LogInv'
<1> DEFINE n == Len(log) + 1
<1>1. /\ Len(log) \in Nat /\ DOMAIN log = 1..Len(log)
      /\ DOMAIN log' = 1..n /\ Len(log') = n
      /\ \A i \in 1..Len(log) : log'[i] = log[i]
      /\ log'[n] = p
  BY AppendFacts DEF Appends, TypeOK
<1>2. \A i : i \in 1..n <=> i \in 1..Len(log) \/ i = n
  BY <1>1
<1>3. \A i \in DOMAIN log' : log'[i].msg[2] = 0
  BY <1>1, <1>2 DEF LogInv
<1>4. ASSUME NEW x, Fresh(x)', NEW i \in DOMAIN log', log'[i].msg = x
      PROVE  FALSE
  <2>1. i \in 1..Len(log)
    BY <1>1, <1>2, <1>4
  <2>2. log[i].msg = x
    BY <1>1, <1>4, <2>1
  <2> QED BY <1>1, <1>4, <2>1, <2>2 DEF LogInv, InLog
<1>5. ASSUME NEW x, Half(x)', NEW i \in DOMAIN log', log'[i].msg = x
      PROVE  i = Len(log')
  <2>1. i \notin 1..Len(log)
    BY <1>1, <1>5 DEF InLog
  <2> QED BY <1>1, <1>2, <2>1
<1>6. ASSUME NEW i \in DOMAIN log', NEW j \in DOMAIN log', i < j, log'[i].msg = log'[j].msg
      PROVE  j = i + 1
  <2>1. i \in 1..Len(log)
    BY <1>1, <1>2, <1>6
  <2>2. CASE j \in 1..Len(log)
    BY <1>1, <1>6, <2>1, <2>2 DEF LogInv
  <2>3. CASE j = n
    <3>1. log[i].msg = p.msg
      BY <1>1, <1>6, <2>1, <2>3
    <3>2. Half(p.msg)
      BY <1>1, <2>1, <3>1 DEF InLog
    <3>3. i = Len(log)
      BY <1>1, <2>1, <3>1, <3>2 DEF LogInv
    <3> QED BY <2>3, <3>3
  <2> QED BY <1>1, <1>2, <2>2, <2>3
<1> QED BY <1>3, <1>4, <1>5, <1>6 DEF LogInv, InLog

\* What is neither in the log nor to come does not come, nor what was seen.
Fades ==
  /\ \A x : Pending(x)' => Pending(x)
  /\ log' = log \/ \E p : Appends(p) /\ Pending(p.msg)

LEMMA LogGrows ==
  ASSUME TypeOK, Fades, NEW x, ~Pending(x)
  PROVE  /\ ~Pending(x)'
         /\ \A i \in DOMAIN log' : log'[i].msg = x => i \in DOMAIN log /\ log[i].msg = x
<1>1. ~Pending(x)'
  BY DEF Fades
<1>2. CASE log' = log
  BY <1>1, <1>2
<1>3. ASSUME NEW p, Appends(p), Pending(p.msg)
      PROVE  \A i \in DOMAIN log' : log'[i].msg = x => i \in DOMAIN log /\ log[i].msg = x
  <2>1. /\ Len(log) \in Nat /\ DOMAIN log = 1..Len(log)
        /\ DOMAIN log' = 1..(Len(log) + 1)
        /\ \A i \in 1..Len(log) : log'[i] = log[i]
        /\ log'[Len(log) + 1] = p
    BY <1>3, AppendFacts DEF Appends, TypeOK
  <2>2. \A i : i \in 1..(Len(log) + 1) <=> i \in 1..Len(log) \/ i = Len(log) + 1
    BY <2>1
  <2>3. p.msg # x
    BY <1>3
  <2> QED BY <2>1, <2>2, <2>3
<1> QED BY <1>1, <1>2, <1>3 DEF Fades

LEMMA DeadStays ==
  ASSUME TypeOK, Fades, NEW x, Dead(x)
  PROVE  Dead(x)'
BY LogGrows DEF Dead, InLog

LEMMA SeenStays ==
  ASSUME TypeOK, Fades, SeenInv, UNCHANGED <<seen, pos>>
  PROVE  SeenInv'
<1> SUFFICES ASSUME NEW c \in Clients, NEW x \in seen[c]
             PROVE  /\ ~Pending(x)'
                    /\ \A i \in DOMAIN log' : i > pos[c] => log'[i].msg # x
  BY DEF SeenInv
<1> QED BY LogGrows DEF SeenInv

-----------------------------------------------------------------------------
(* One lemma for each access.                                              *)

Quiet ==
  TypeOK /\ CopyInv /\ "race" \notin faults /\ Solo /\ SlotInv /\ LogInv /\ DeadInv /\ SeenInv
Calm == SlotInv /\ LogInv /\ DeadInv /\ SeenInv

\* The slots as the types have them.
LEMMA QuietTypes ==
  ASSUME TypeOK
  PROVE  /\ slots \in Seq(Slots) /\ Len(slots) \in 1..Len(slots) /\ Len(slots) \in Nat
         /\ current \in Slots /\ current = slots[Len(slots)]
         /\ \A m \in Messages : on[m] \in 1..Len(slots) /\ slots[on[m]] \in Slots
         /\ \A c \in Clients : mapped[c] \in 1..Len(slots) /\ slots[mapped[c]] \in Slots
BY SlotTypes DEF TypeOK, current

LEMMA QuietSendFlag ==
  ASSUME Quiet, NEW m \in Messages, SendFlag(m)
  PROVE  Calm'
<1>0. /\ TypeOK /\ SlotInv /\ LogInv /\ DeadInv /\ SeenInv
      /\ send[m] = "idle" /\ send' = [send EXCEPT ![m] = "flag"]
      /\ on' = [on EXCEPT ![m] = Len(slots)]
      /\ slots' = [slots EXCEPT ![Len(slots)].flag = 1]
      /\ UNCHANGED <<srv, took, handled, served, host, log, reader, mapped, copied, pos, seen>>
  BY DEF Quiet, SendFlag, server, reading, history
<1>1. /\ \A n \in Messages : ~Writing(n)
      /\ ~Serving
      /\ \A c \in Clients : ~Reading(c)
  BY FreeFacts DEF Quiet, SendFlag
<1>2. /\ Len(slots') = Len(slots)
      /\ current'.flag = 1 /\ current'.len = current.len /\ current'.data = current.data
      /\ on'[m] = Len(slots) /\ slots'[on'[m]].flag = 1
  BY <1>0, QuietTypes, EditFacts, FieldFacts DEF current, TypeOK
<1>3. /\ \A n \in Messages : n # m => send'[n] = send[n]
      /\ send'[m] = "flag"
  BY <1>0 DEF TypeOK
<1>4. Writing(m)' /\ ~Settled' /\ \A n \in Messages : Writing(n)' => n = m
  BY <1>1, <1>2, <1>3 DEF Writing, Settled
<1>5. /\ \A x : Ahead(x)' => Ahead(x)
      /\ \A x : Held(x)' = Held(x) /\ Half(x)' = Half(x)
  BY <1>0, <1>3, <1>4 DEF Ahead, Waits, Held, Half, Hosting
<1>6. Fades
  BY <1>0, <1>5 DEF Fades, Pending, Fresh
<1>7. SlotInv'
  <2>1. \A n \in Messages :
          /\ handled'[n] <= 1
          /\ send'[n] # "done" => handled'[n] = 0
          /\ Writing(n)' => slots'[on'[n]].flag = 1
          /\ send'[n] = "len" => slots'[on'[n]].len = Original(n)
    BY <1>0, <1>1, <1>2, <1>3, <1>4 DEF SlotInv, Writing
  <2>2. srv' \notin {"flagged", "copied", "reflag", "relen"}
    BY <1>0, <1>1 DEF Serving
  <2>3. srv' \in {"handled", "reflag", "relen", "answered", "appending"} =>
          /\ served' # 0
          /\ \E n \in Messages : took' = Original(n) /\ handled'[n] = 1
    BY <1>0 DEF SlotInv
  <2>4. \/ current'.data = None
        \/ current'.data[2] # 0
        \/ \E n \in Messages : current'.data = Original(n) /\ send'[n] = "done"
    BY <1>0, <1>2, <1>3 DEF SlotInv
  <2> QED BY <1>4, <2>1, <2>2, <2>3, <2>4 DEF SlotInv
<1>8. LogInv'
  BY <1>0, <1>5, SameLog DEF Fresh
<1>9. DeadInv'
  BY <1>0, <1>1, <1>2 DEF DeadInv, Serving, Reading, InLog
<1>10. SeenInv'
  BY <1>0, <1>6, SeenStays
<1> QED BY <1>7, <1>8, <1>9, <1>10 DEF Calm

\* A write that has begun: nobody else is at any slot.
LEMMA QuietSend ==
  ASSUME Quiet, NEW m \in Messages, Send(m)
  PROVE  Calm'
<1>0. /\ TypeOK /\ SlotInv /\ LogInv /\ DeadInv /\ SeenInv /\ Solo /\ Writing(m)
      /\ UNCHANGED <<on, srv, took, handled, served, host, log, reader, mapped, copied, pos, seen>>
  BY DEF Quiet, Send, SendLen, SendData, server, reading, history, Writing
<1>1. /\ \A n \in Messages : Writing(n) => n = m
      /\ ~Serving
      /\ \A c \in Clients : ~Reading(c)
  BY <1>0 DEF Solo
<1>2. /\ \A n \in Messages : n # m => send'[n] = send[n]
      /\ send'[m] \in {"len", "done"} /\ (send'[m] = "len" <=> SendLen(m))
      /\ (send'[m] = "done" <=> SendData(m))
  BY DEF Send, SendLen, SendData, Quiet, TypeOK
<1>3. \A n \in Messages : Writing(n)' => n = m
  BY <1>1, <1>2 DEF Writing
<1>4. /\ Len(slots') = Len(slots)
      /\ slots'[on[m]].flag = slots[on[m]].flag
      /\ SendLen(m) => slots'[on[m]].len = Original(m) /\ slots'[on[m]].data = slots[on[m]].data
      /\ SendData(m) => slots'[on[m]].data = Original(m) /\ slots'[on[m]].len = slots[on[m]].len
      /\ \A i \in 1..Len(slots) : i # on[m] => slots'[i] = slots[i]
  <2>1. CASE SendLen(m)
    <3>1. slots' = [slots EXCEPT ![on[m]].len = Original(m)] /\ ~SendData(m)
      BY <2>1 DEF SendLen, SendData
    <3> QED BY <1>0, <3>1, QuietTypes, EditFacts, FieldFacts
  <2>2. CASE SendData(m)
    <3>1. slots' = [slots EXCEPT ![on[m]].data = Original(m)] /\ ~SendLen(m)
      BY <2>2 DEF SendLen, SendData
    <3> QED BY <1>0, <3>1, QuietTypes, EditFacts, FieldFacts
  <2> QED BY <2>1, <2>2 DEF Send
<1>5. slots[on[m]].flag = 1 /\ (SendData(m) => slots[on[m]].len = Original(m))
  BY <1>0 DEF SlotInv, SendData
<1>8. /\ \A x : Ahead(x)' => Ahead(x)
      /\ current'.flag # 2 \/ current' = current
      /\ current'.data = current.data \/ (SendData(m) /\ current'.data = Original(m))
      /\ current'.flag = 1 /\ Settled' =>
           \E n \in Messages : /\ current'.len = Original(n) /\ current'.data = Original(n)
                               /\ send'[n] = "done" /\ handled'[n] = 0
      /\ \/ current'.data = None
         \/ current'.data[2] # 0
         \/ \E n \in Messages : current'.data = Original(n) /\ send'[n] = "done"
  <2>1. CASE on[m] = Len(slots)
    <3>1. current.flag = 1 /\ current'.flag = 1 /\ ~Settled
      BY <1>0, <1>4, <1>5, <2>1 DEF current, Settled
    <3>2. CASE SendLen(m)
      <4>1. current'.data = current.data /\ ~Settled' /\ send'[m] = "len"
        BY <1>0, <1>2, <1>4, <2>1, <3>2 DEF current, Settled, Writing
      <4>2. \A x : Ahead(x)' => Ahead(x)
        <5>1. \A n \in Messages : send'[n] # "done" => send[n] # "done"
          BY <1>0, <1>2 DEF Writing
        <5>2. \A n \in Messages : ~Waits(n)'
          BY <4>1 DEF Waits
        <5> QED BY <1>0, <5>1, <5>2 DEF Ahead
      <4>3. \/ current'.data = None
            \/ current'.data[2] # 0
            \/ \E n \in Messages : current'.data = Original(n) /\ send'[n] = "done"
        <5>1. \A n \in Messages : send[n] = "done" => send'[n] = "done"
          BY <1>0, <1>2 DEF Writing
        <5> QED BY <1>0, <4>1, <5>1 DEF SlotInv
      <4> QED BY <3>1, <4>1, <4>2, <4>3
    <3>3. CASE SendData(m)
      <4>1. current'.data = Original(m) /\ current'.len = Original(m) /\ send'[m] = "done"
        BY <1>0, <1>2, <1>4, <1>5, <2>1, <3>3 DEF current
      <4>2. \A x : Ahead(x)' => Ahead(x)
        <5>1. \A n \in Messages : send'[n] # "done" => send[n] # "done"
          BY <1>0, <1>2 DEF Writing
        <5>2. \A n \in Messages : Waits(n)' => n = m
          BY <4>1, IdFacts DEF Waits
        <5>3. Ahead(Original(m))
          BY <1>0 DEF Ahead, Writing
        <5> QED BY <1>0, <5>1, <5>2, <5>3 DEF Ahead
      <4>3. handled'[m] = 0
        BY <1>0 DEF SlotInv, Writing
      <4> QED BY <3>1, <3>3, <4>1, <4>2, <4>3
    <3> QED BY <3>2, <3>3 DEF Send
  <2>2. CASE on[m] # Len(slots)
    <3>1. current' = current /\ (Settled' <=> Settled)
      BY <1>0, <1>1, <1>3, <1>4, <2>2, QuietTypes DEF current, Settled
    <3>2. /\ \A n \in Messages : send'[n] # "done" => send[n] # "done"
          /\ \A n \in Messages : send[n] = "done" => send'[n] = "done"
      BY <1>0, <1>2 DEF Writing
    <3>3. \A n \in Messages : Waits(n)' = Waits(n)
      BY <3>1 DEF Waits
    <3>4. \A x : Ahead(x)' => Ahead(x)
      BY <1>0, <3>2, <3>3 DEF Ahead
    <3> QED BY <1>0, <3>1, <3>2, <3>4 DEF SlotInv
  <2> QED BY <2>1, <2>2
<1>9. \A x : Held(x)' = Held(x) /\ Half(x)' = Half(x)
  BY <1>0 DEF Held, Half, Hosting
<1>10. Fades
  BY <1>0, <1>8, <1>9 DEF Fades, Pending, Fresh
<1>11. SlotInv'
  <2>1. \A n \in Messages :
          /\ handled'[n] <= 1
          /\ send'[n] # "done" => handled'[n] = 0
          /\ Writing(n)' => slots'[on'[n]].flag = 1
          /\ send'[n] = "len" => slots'[on'[n]].len = Original(n)
    BY <1>0, <1>1, <1>2, <1>3, <1>4, <1>5 DEF SlotInv, Writing
  <2>2. srv' \notin {"flagged", "copied", "reflag", "relen"}
    BY <1>0, <1>1 DEF Serving
  <2>3. srv' \in {"handled", "reflag", "relen", "answered", "appending"} =>
          /\ served' # 0
          /\ \E n \in Messages : took' = Original(n) /\ handled'[n] = 1
    BY <1>0 DEF SlotInv
  <2> QED BY <1>8, <2>1, <2>2, <2>3 DEF SlotInv
<1>12. LogInv'
  BY <1>0, <1>8, <1>9, SameLog DEF Fresh
<1>13. DeadInv'
  <2> SUFFICES ASSUME NEW x
               PROVE  /\ srv' = "handled" /\ current'.data = x => ~InLog(x)'
                      /\ current'.flag = 2 /\ current'.data = x => Dead(x)'
    BY <1>0, <1>1 DEF DeadInv, Serving, Reading
  <2>1. current'.flag = 2 /\ current'.data = x => Dead(x)'
    <3>1. current'.flag = 2 /\ current'.data = x => Dead(x)
      BY <1>0, <1>1, <1>8 DEF DeadInv, Serving
    <3> QED BY <1>0, <1>10, <3>1, DeadStays
  <2>2. srv' = "handled" /\ current'.data = x => ~InLog(x)
    <3>1. ASSUME SendData(m) PROVE ~InLog(Original(m))
      BY <1>0, <3>1 DEF LogInv, Fresh, Ahead, Writing
    <3> QED BY <1>0, <1>8, <3>1 DEF DeadInv
  <2> QED BY <1>0, <2>1, <2>2 DEF InLog
<1>14. SeenInv'
  BY <1>0, <1>10, SeenStays
<1> QED BY <1>11, <1>12, <1>13, <1>14 DEF Calm

\* What the server answers is handled, and waits nowhere.
LEMMA TookFacts ==
  ASSUME SlotInv, srv \in {"handled", "reflag", "relen", "answered", "appending"}
  PROVE  /\ \E m \in Messages : took = Original(m) /\ handled[m] = 1
         /\ took[2] = 0 /\ ~Ahead(took)
         /\ \A h \in Hosted : took # Original(h)
<1>1. PICK m \in Messages : took = Original(m) /\ handled[m] = 1
  BY DEF SlotInv
<1>2. send[m] = "done"
  BY <1>1 DEF SlotInv
<1>3. ~Waits(m)
  <2>1. ASSUME Waits(m) PROVE FALSE
    <3>1. PICK n \in Messages : current.data = Original(n) /\ handled[n] = 0
      BY <2>1 DEF SlotInv, Waits
    <3>2. n = m
      BY <2>1, <3>1, IdFacts DEF Waits
    <3> QED BY <1>1, <3>1, <3>2
  <2> QED BY <2>1
<1>4. ~Ahead(took)
  BY <1>1, <1>2, <1>3, IdFacts DEF Ahead
<1> QED BY <1>1, <1>4, IdFacts

\* The request that waits: what the server is about to copy, or has copied.
LEMMA WaitingFacts ==
  ASSUME SlotInv, Solo, srv \in {"flagged", "copied"}
  PROVE  \E m \in Messages :
           /\ current.len = Original(m) /\ current.data = Original(m)
           /\ send[m] = "done" /\ handled[m] = 0 /\ Waits(m)
<1>1. current.flag = 1 /\ Settled
  BY DEF SlotInv, Solo, Serving, Settled
<1> QED BY <1>1 DEF SlotInv, Waits

\* The server looks, copies, gives up answering, or ends.
LEMMA QuietServer ==
  ASSUME Quiet, SeeRequest \/ CopyRequest \/ RespondTooLarge \/ Stop
  PROVE  Calm'
<1>0. /\ TypeOK /\ SlotInv /\ LogInv /\ DeadInv /\ SeenInv /\ Solo
      /\ UNCHANGED <<slots, send, on, handled, served, host, log, reader, mapped, copied, pos, seen>>
  BY DEF Quiet, SeeRequest, CopyRequest, RespondTooLarge, Stop, sending, reading
<1>1. current' = current /\ Settled' = Settled /\ \A n \in Messages : Waits(n)' = Waits(n)
  BY <1>0 DEF current, Settled, Writing, Waits
<1>2. \/ srv = "idle" /\ srv' = "flagged" /\ current.flag = 1 /\ UNCHANGED took
      \/ srv = "flagged" /\ srv' = "copied" /\ took' \in Parse(current)
      \/ srv = "handled" /\ srv' = "answered" /\ UNCHANGED took
      \/ srv = "idle" /\ srv' = "down" /\ UNCHANGED took
  BY DEF SeeRequest, CopyRequest, RespondTooLarge, Stop
<1>3. /\ \A x : Ahead(x)' => Ahead(x)
      /\ \A x : Held(x)' => Held(x)
      /\ \A x : Half(x)' => Half(x)
  BY <1>0, <1>1, <1>2 DEF Ahead, Held, Half, Hosting
<1>4. Fades
  BY <1>0, <1>3 DEF Fades, Pending, Fresh
<1>5. srv' = "copied" => took' = current.data /\ current.flag = 1
  <2>1. ASSUME srv' = "copied" PROVE took' = current.data /\ current.flag = 1
    <3>1. srv = "flagged" /\ took' \in Parse(current)
      BY <1>2, <2>1
    <3>2. current.len = current.data /\ current.flag = 1
      BY <1>0, <3>1, WaitingFacts DEF Waits
    <3> QED BY <3>1, <3>2 DEF Parse
  <2> QED BY <2>1
<1>6. SlotInv'
  BY <1>0, <1>1, <1>2, <1>5 DEF SlotInv, Writing
<1>7. LogInv'
  BY <1>0, <1>3, SameLog DEF Fresh
<1>8. DeadInv'
  <2>1. srv \notin {"reflag", "relen"} /\ srv' \notin {"handled", "reflag", "relen"}
    BY <1>2
  <2> SUFFICES ASSUME NEW x
               PROVE  /\ current.flag = 2 /\ current.data = x => Dead(x)'
                      /\ \A c \in Clients :
                           /\ reader[c] = "flagged" /\ slots[mapped[c]].data = x => Dead(x)'
                           /\ reader[c] = "copied" /\ copied[c] = x /\ x # Garbage => Dead(x)'
    BY <1>0, <1>1, <2>1 DEF DeadInv
  <2>2. Dead(x) => Dead(x)'
    BY <1>0, <1>4, DeadStays
  <2> QED BY <1>0, <2>1, <2>2 DEF DeadInv
<1>9. SeenInv'
  BY <1>0, <1>4, SeenStays
<1> QED BY <1>6, <1>7, <1>8, <1>9 DEF Calm

\* Another server: an empty slot, that nobody has open.
LEMMA QuietStart ==
  ASSUME Quiet, Start
  PROVE  Calm'
<1>0. /\ TypeOK /\ SlotInv /\ LogInv /\ DeadInv /\ SeenInv
      /\ UNCHANGED <<send, on, took, handled, served, host, log, reader, mapped, copied, pos, seen>>
      /\ srv = "down" /\ srv' = "idle" /\ slots' = Append(slots, EmptySlot)
  BY DEF Quiet, Start, sending, reading
<1>1. /\ Len(slots') = Len(slots) + 1 /\ Len(slots) \in Nat
      /\ slots'[Len(slots) + 1] = EmptySlot
      /\ \A i \in 1..Len(slots) : slots'[i] = slots[i]
  BY <1>0, QuietTypes
<1>2. current'.flag = 0 /\ current'.data = None
  BY <1>1 DEF current, EmptySlot
<1>3. /\ \A m \in Messages : slots'[on'[m]] = slots[on[m]]
      /\ \A c \in Clients : slots'[mapped'[c]] = slots[mapped[c]]
  BY <1>0, <1>1, QuietTypes
<1>4. /\ \A x : Ahead(x)' => Ahead(x)
      /\ \A x : Held(x)' => Held(x)
      /\ \A x : Half(x)' => Half(x)
  BY <1>0, <1>2 DEF Ahead, Waits, Held, Half, Hosting
<1>5. Fades
  BY <1>0, <1>4 DEF Fades, Pending, Fresh
<1>6. SlotInv'
  <2>1. \A n \in Messages :
          /\ handled'[n] <= 1
          /\ send'[n] # "done" => handled'[n] = 0
          /\ Writing(n)' => slots'[on'[n]].flag = 1
          /\ send'[n] = "len" => slots'[on'[n]].len = Original(n)
    BY <1>0, <1>3 DEF SlotInv, Writing
  <2>2. srv' = "idle"
    BY <1>0
  <2> QED BY <1>2, <2>1, <2>2 DEF SlotInv
<1>7. LogInv'
  BY <1>0, <1>4, SameLog DEF Fresh
<1>8. DeadInv'
  <2> SUFFICES ASSUME NEW x, NEW c \in Clients
               PROVE  /\ reader[c] = "flagged" /\ slots[mapped[c]].data = x => Dead(x)'
                      /\ reader[c] = "copied" /\ copied[c] = x /\ x # Garbage => Dead(x)'
    <3>1. \A d \in Clients : slots'[mapped'[d]].data = slots[mapped[d]].data
      BY <1>3
    <3>2. current'.flag # 2 /\ srv' \notin {"handled", "reflag", "relen"}
      BY <1>0, <1>2
    <3> QED BY <1>0, <3>1, <3>2 DEF DeadInv
  <2>2. Dead(x) => Dead(x)'
    BY <1>0, <1>5, DeadStays
  <2> QED BY <1>0, <2>2 DEF DeadInv
<1>9. SeenInv'
  BY <1>0, <1>5, SeenStays
<1> QED BY <1>6, <1>7, <1>8, <1>9 DEF Calm

\* A crash while the server was answering leaves what will not be broadcast.
LEMMA QuietCrash ==
  ASSUME Quiet, Crash
  PROVE  Calm'
<1>0. /\ TypeOK /\ SlotInv /\ LogInv /\ DeadInv /\ SeenInv
      /\ UNCHANGED <<slots, send, on, handled, served, log, reader, mapped, copied, pos, seen>>
      /\ srv' = "down" /\ took' = None
      /\ \A h \in Hosted : ~Hosting(h)' /\ (host'[h] = "idle" => host[h] = "idle")
  BY DEF Quiet, Crash, sending, reading, Hosting, TypeOK
<1>1. current' = current /\ Settled' = Settled /\ \A n \in Messages : Waits(n)' = Waits(n)
  BY <1>0 DEF current, Settled, Writing, Waits
<1>2. /\ \A x : Ahead(x)' => Ahead(x)
      /\ \A x : ~Held(x)' /\ ~Half(x)'
  BY <1>0, <1>1 DEF Ahead, Held, Half
<1>3. Fades
  BY <1>0, <1>2 DEF Fades, Pending, Fresh
<1>4. SlotInv'
  BY <1>0, <1>1 DEF SlotInv, Writing
<1>5. LogInv'
  BY <1>0, <1>2, SameLog DEF Fresh
<1>6. DeadInv'
  <2> SUFFICES ASSUME NEW x
               PROVE  /\ current.flag = 2 /\ current.data = x => Dead(x)'
                      /\ \A c \in Clients :
                           /\ reader[c] = "flagged" /\ slots[mapped[c]].data = x => Dead(x)'
                           /\ reader[c] = "copied" /\ copied[c] = x /\ x # Garbage => Dead(x)'
    BY <1>0, <1>1 DEF DeadInv
  <2>1. Dead(x) => Dead(x)'
    BY <1>0, <1>3, DeadStays
  <2>2. CASE srv \in {"reflag", "relen"}
    <3>1. ~InLog(x) /\ ~Ahead(x) => Dead(x)'
      BY <1>0, <1>2 DEF Dead, Pending, Fresh, InLog
    <3> QED BY <1>0, <2>1, <2>2, <3>1 DEF DeadInv
  <2>3. CASE srv \notin {"reflag", "relen"}
    BY <1>0, <2>1, <2>3 DEF DeadInv
  <2> QED BY <2>2, <2>3
<1>7. SeenInv'
  BY <1>0, <1>3, SeenStays
<1> QED BY <1>4, <1>5, <1>6, <1>7 DEF Calm

\* The request leaves the slot, and reaches the handler.
LEMMA QuietTake ==
  ASSUME Quiet, TakeRequest
  PROVE  Calm'
<1>0. /\ TypeOK /\ SlotInv /\ LogInv /\ DeadInv /\ SeenInv /\ Solo
      /\ srv = "copied" /\ slots' = [slots EXCEPT ![Len(slots)].flag = 0] /\ Handle
      /\ UNCHANGED <<send, on, host, log, reader, mapped, copied, pos, seen>>
  BY DEF Quiet, TakeRequest, sending, reading
<1>1. /\ \A n \in Messages : ~Writing(n)
      /\ \A c \in Clients : ~Reading(c)
      /\ \A h \in Hosted : ~Hosting(h)
  BY <1>0 DEF Solo, Serving
<1>2. current'.flag = 0 /\ current'.data = current.data
  BY <1>0, QuietTypes, EditFacts, FieldFacts DEF current
<1>3. PICK m \in Messages : /\ took = Original(m) /\ send[m] = "done"
                            /\ handled[m] = 0 /\ Waits(m) /\ current.data = Original(m)
  BY <1>0, WaitingFacts DEF SlotInv
<1>4. \/ /\ srv' = "idle" /\ handled' = handled
      \/ /\ srv' = "handled" /\ took' = took /\ served' # 0
         /\ handled'[m] = 1 /\ \A n \in Messages : n # m => handled'[n] = handled[n]
  <2>1. \A n \in Messages : n # m => Original(n) # took
    BY <1>3, IdFacts
  <2>2. served \in Nat /\ handled \in [Messages -> Nat]
    BY <1>0 DEF TypeOK
  <2> QED BY <1>0, <1>3, <2>1, <2>2 DEF Handle
<1>5. \A x : Ahead(x)' => Ahead(x)
  BY <1>0, <1>2 DEF Ahead, Waits
<1>6. Ahead(Original(m))
  BY <1>3 DEF Ahead
<1>7. /\ \A x : Fresh(x)' => Fresh(x)
      /\ \A x : ~Half(x)'
  BY <1>0, <1>1, <1>3, <1>4, <1>5, <1>6 DEF Fresh, Held, Half, Hosting
<1>8. Fades
  BY <1>0, <1>7 DEF Fades, Pending
<1>9. SlotInv'
  <2>1. \A n \in Messages :
          /\ handled'[n] <= 1
          /\ send'[n] # "done" => handled'[n] = 0
          /\ ~Writing(n)' /\ send'[n] # "len"
    BY <1>0, <1>1, <1>3, <1>4 DEF SlotInv, Writing
  <2>2. srv' \in {"handled", "reflag", "relen", "answered", "appending"} =>
          /\ served' # 0
          /\ \E n \in Messages : took' = Original(n) /\ handled'[n] = 1
    BY <1>3, <1>4
  <2>3. srv' \in {"idle", "handled"}
    BY <1>4
  <2>4. \/ current'.data = None
        \/ current'.data[2] # 0
        \/ \E n \in Messages : current'.data = Original(n) /\ send'[n] = "done"
    BY <1>0, <1>2 DEF SlotInv
  <2> QED BY <1>2, <2>1, <2>2, <2>3, <2>4 DEF SlotInv
<1>10. LogInv'
  BY <1>0, <1>7, SameLog
<1>11. DeadInv'
  <2>1. ~InLog(Original(m))
    BY <1>0, <1>6 DEF LogInv, Fresh
  <2>2. ~InLog(Original(m))'
    BY <1>0, <2>1 DEF InLog
  <2>3. current'.data = Original(m) /\ srv' \in {"idle", "handled"}
    BY <1>2, <1>3, <1>4
  <2>4. \A c \in Clients : reader'[c] \notin {"flagged", "copied"}
    BY <1>0, <1>1 DEF Reading
  <2> QED BY <1>2, <2>2, <2>3, <2>4 DEF DeadInv
<1>12. SeenInv'
  BY <1>0, <1>8, SeenStays
<1> QED BY <1>9, <1>10, <1>11, <1>12 DEF Calm

\* The first step of an answer: nobody is at the slot.
LEMMA QuietRespondFlag ==
  ASSUME Quiet, RespondFlag
  PROVE  Calm'
<1>0. /\ TypeOK /\ SlotInv /\ LogInv /\ DeadInv /\ SeenInv
      /\ srv = "handled" /\ srv' = "reflag" /\ slots' = [slots EXCEPT ![Len(slots)].flag = 2]
      /\ UNCHANGED <<send, on, took, handled, served, host, log, reader, mapped, copied, pos, seen>>
  BY DEF Quiet, RespondFlag, sending, reading
<1>1. /\ \A n \in Messages : ~Writing(n)
      /\ \A c \in Clients : ~Reading(c)
  BY FreeFacts DEF Quiet, RespondFlag
<1>2. current'.flag = 2 /\ current'.data = current.data
  BY <1>0, QuietTypes, EditFacts, FieldFacts DEF current
<1>3. \A n \in Messages : ~Waits(n)'
  BY <1>2 DEF Waits
<1>4. /\ \A x : Ahead(x)' => Ahead(x)
      /\ \A x : Held(x)' => Held(x)
      /\ \A x : Half(x)' => Half(x)
  BY <1>0, <1>3 DEF Ahead, Held, Half, Hosting
<1>5. Fades
  BY <1>0, <1>4 DEF Fades, Pending, Fresh
<1>6. SlotInv'
  <2>1. \A n \in Messages :
          /\ handled'[n] <= 1
          /\ send'[n] # "done" => handled'[n] = 0
          /\ ~Writing(n)' /\ send'[n] # "len"
    BY <1>0, <1>1 DEF SlotInv, Writing
  <2>2. /\ served' # 0
        /\ \E n \in Messages : took' = Original(n) /\ handled'[n] = 1
    BY <1>0 DEF SlotInv
  <2>3. srv' = "reflag"
    BY <1>0
  <2>4. \/ current'.data = None
        \/ current'.data[2] # 0
        \/ \E n \in Messages : current'.data = Original(n) /\ send'[n] = "done"
    BY <1>0, <1>2 DEF SlotInv
  <2> QED BY <1>2, <2>1, <2>2, <2>3, <2>4 DEF SlotInv
<1>7. LogInv'
  BY <1>0, <1>4, SameLog DEF Fresh
<1>8. DeadInv'
  <2>1. ASSUME NEW x, current.data = x
        PROVE  ~InLog(x)' /\ ~Ahead(x)'
    <3>1. ~InLog(x)'
      BY <1>0, <2>1 DEF DeadInv, InLog
    <3>2. \A m \in Messages : x = Original(m) => send'[m] = "done"
      BY <1>0, <2>1, IdFacts DEF SlotInv
    <3>3. \A h \in Hosted : x # Original(h)
      BY <1>0, <2>1, IdFacts DEF SlotInv
    <3> QED BY <1>3, <3>1, <3>2, <3>3 DEF Ahead
  <2>2. \A c \in Clients : reader'[c] \notin {"flagged", "copied"}
    BY <1>0, <1>1 DEF Reading
  <2>3. srv' = "reflag"
    BY <1>0
  <2> QED BY <1>2, <2>1, <2>2, <2>3 DEF DeadInv
<1>9. SeenInv'
  BY <1>0, <1>5, SeenStays
<1> QED BY <1>6, <1>7, <1>8, <1>9 DEF Calm

\* The rest of an answer, whose id is new.
LEMMA QuietRespond ==
  ASSUME Quiet, RespondLen \/ RespondData
  PROVE  Calm'
<1>0. /\ TypeOK /\ SlotInv /\ LogInv /\ DeadInv /\ SeenInv /\ Solo
      /\ UNCHANGED <<send, on, took, handled, served, host, log, reader, mapped, copied, pos, seen>>
      /\ srv \in {"reflag", "relen"}
      /\ \/ srv' = "relen" /\ slots' = [slots EXCEPT ![Len(slots)].len = Reply]
         \/ srv' = "answered" /\ slots' = [slots EXCEPT ![Len(slots)].data = Reply]
  BY DEF Quiet, RespondLen, RespondData, sending, reading
<1>1. /\ \A n \in Messages : ~Writing(n)
      /\ \A c \in Clients : ~Reading(c)
      /\ \A h \in Hosted : ~Hosting(h)
  BY <1>0 DEF Solo, Serving
<1>2. /\ current'.flag = current.flag /\ current.flag = 2
      /\ \/ srv' = "relen" /\ current'.data = current.data
         \/ srv' = "answered" /\ current'.data = Reply
  <2>1. current.flag = 2 /\ slots \in Seq(Slots) /\ Len(slots) \in 1..Len(slots)
        /\ current \in Slots /\ current = slots[Len(slots)]
    BY <1>0, QuietTypes DEF SlotInv
  <2>2. CASE srv' = "relen" /\ slots' = [slots EXCEPT ![Len(slots)].len = Reply]
    BY <2>1, <2>2, EditFacts, FieldFacts DEF current
  <2>3. CASE srv' = "answered" /\ slots' = [slots EXCEPT ![Len(slots)].data = Reply]
    BY <2>1, <2>3, EditFacts, FieldFacts DEF current
  <2> QED BY <1>0, <2>2, <2>3
<1>3. \A n \in Messages : ~Waits(n)'
  BY <1>2 DEF Waits
<1>4. /\ \A x : Ahead(x)' => Ahead(x)
      /\ \A x : Held(x)' => Held(x)
      /\ \A x : Half(x)' => Half(x)
  BY <1>0, <1>3 DEF Ahead, Held, Half, Hosting
<1>5. Fades
  BY <1>0, <1>4 DEF Fades, Pending, Fresh
<1>6. Reply[2] # 0
  BY <1>0 DEF SlotInv, Reply
<1>7. SlotInv'
  <2>1. \A n \in Messages :
          /\ handled'[n] <= 1
          /\ send'[n] # "done" => handled'[n] = 0
          /\ ~Writing(n)' /\ send'[n] # "len"
    BY <1>0, <1>1 DEF SlotInv, Writing
  <2>2. /\ served' # 0
        /\ \E n \in Messages : took' = Original(n) /\ handled'[n] = 1
    BY <1>0 DEF SlotInv
  <2>3. srv' \in {"relen", "answered"}
    BY <1>0
  <2>4. \/ current'.data = None
        \/ current'.data[2] # 0
        \/ \E n \in Messages : current'.data = Original(n) /\ send'[n] = "done"
    BY <1>0, <1>2, <1>6 DEF SlotInv
  <2> QED BY <1>2, <2>1, <2>2, <2>3, <2>4 DEF SlotInv
<1>8. LogInv'
  BY <1>0, <1>4, SameLog DEF Fresh
<1>9. DeadInv'
  <2>1. ASSUME NEW x, srv' = "relen", current'.data = x
        PROVE  ~InLog(x)' /\ ~Ahead(x)'
    <3>1. ~InLog(x) /\ ~Ahead(x)
      BY <1>0, <1>2, <2>1 DEF DeadInv
    <3> QED BY <1>0, <1>4, <3>1 DEF InLog
  <2>2. ASSUME NEW x, srv' = "answered", current'.data = x
        PROVE  Dead(x)'
    <3>0. x = Reply /\ x[2] # 0
      BY <1>2, <1>6, <2>2
    <3>1. ~Ahead(x)
      BY <3>0, IdFacts DEF Ahead
    <3>2. ~Held(x) /\ ~Half(x)
      BY <1>0, <1>1, <3>0, TookFacts DEF Held, Half
    <3>3. ~InLog(x)
      BY <1>0, <3>0 DEF LogInv, InLog
    <3>4. Dead(x)
      BY <3>1, <3>2, <3>3 DEF Dead, Pending, Fresh
    <3> QED BY <1>0, <1>5, <3>4, DeadStays
  <2>3. \A c \in Clients : reader'[c] \notin {"flagged", "copied"}
    BY <1>0, <1>1 DEF Reading
  <2>4. srv' \in {"relen", "answered"}
    BY <1>0
  <2> QED BY <1>2, <2>1, <2>2, <2>3, <2>4 DEF DeadInv
<1>10. SeenInv'
  BY <1>0, <1>5, SeenStays
<1> QED BY <1>7, <1>8, <1>9, <1>10 DEF Calm

LEMMA StaysOut ==
  ASSUME TypeOK, NEW p, Appends(p), NEW x, x # p.msg, ~InLog(x)
  PROVE  ~InLog(x)'
<1>1. /\ Len(log) \in Nat /\ DOMAIN log = 1..Len(log)
      /\ DOMAIN log' = 1..(Len(log) + 1)
      /\ \A i \in 1..Len(log) : log'[i] = log[i]
      /\ log'[Len(log) + 1] = p
  BY AppendFacts DEF Appends, TypeOK
<1>2. \A i : i \in 1..(Len(log) + 1) <=> i \in 1..Len(log) \/ i = Len(log) + 1
  BY <1>1
<1> QED BY <1>1, <1>2 DEF InLog

\* What remains of the invariant when only the log and who writes to it change.
LEMMA LogFrame ==
  ASSUME Quiet, Fades, NEW p, Appends(p),
         UNCHANGED <<slots, send, on, handled, served, reader, mapped, copied, pos, seen>>,
         srv \notin {"flagged", "copied", "reflag", "relen"},
         srv' \notin {"flagged", "copied", "reflag", "relen"},
         srv' \in {"handled", "answered", "appending"} => srv \in {"handled", "answered"} /\ took' = took,
         srv' = "handled" => srv = "handled" /\ current.data # p.msg
  PROVE  SlotInv' /\ DeadInv' /\ SeenInv'
<1>0. TypeOK /\ SlotInv /\ DeadInv /\ SeenInv
  BY DEF Quiet
<1>1. current' = current /\ Settled' = Settled
  BY DEF current, Settled, Writing
<1>2. SlotInv'
  BY <1>0, <1>1 DEF SlotInv, Writing
<1>3. DeadInv'
  <2> SUFFICES ASSUME NEW x
               PROVE  /\ srv' = "handled" /\ current.data = x => ~InLog(x)'
                      /\ current.flag = 2 /\ current.data = x => Dead(x)'
                      /\ \A c \in Clients :
                           /\ reader[c] = "flagged" /\ slots[mapped[c]].data = x => Dead(x)'
                           /\ reader[c] = "copied" /\ copied[c] = x /\ x # Garbage => Dead(x)'
    BY <1>1 DEF DeadInv
  <2>1. Dead(x) => Dead(x)'
    BY <1>0, DeadStays
  <2>2. srv' = "handled" /\ current.data = x => ~InLog(x)'
    <3> SUFFICES ASSUME srv' = "handled", current.data = x PROVE ~InLog(x)'
      OBVIOUS
    <3>1. ~InLog(x)
      BY <1>0 DEF DeadInv
    <3> QED BY <1>0, <3>1, StaysOut
  <2> QED BY <1>0, <2>1, <2>2 DEF DeadInv
<1> QED BY <1>0, <1>2, <1>3, SeenStays

\* The server broadcasts what it has handled.
LEMMA QuietBroadcast ==
  ASSUME Quiet, BroadcastLen \/ BroadcastData
  PROVE  Calm'
<1>0. /\ TypeOK /\ CopyInv /\ SlotInv /\ LogInv /\ DeadInv /\ SeenInv /\ Solo
      /\ UNCHANGED <<slots, send, on, handled, served, host, reader, mapped, copied, pos, seen>>
  BY DEF Quiet, BroadcastLen, BroadcastData, sending, reading
<1>1. srv \in {"answered", "appending"} /\ took \in Ids
  BY <1>0 DEF CopyInv, BroadcastLen, BroadcastData
<1>2. \A h \in Hosted : ~Hosting(h)
  <2>1. CASE BroadcastLen
    BY <2>1, FreeFacts DEF Quiet, BroadcastLen
  <2>2. CASE BroadcastData
    BY <1>0, <2>2 DEF Solo, Serving, BroadcastData
  <2> QED BY <2>1, <2>2
<1>3. PICK y \in Ids : y = took
  BY <1>1
<1>7. y[2] = 0 /\ ~Ahead(y)
  BY <1>0, <1>1, <1>3, TookFacts
<1>4. \A x : Ahead(x)' = Ahead(x)
  BY <1>0 DEF Ahead, Waits, current, Settled, Writing
<1>5. CASE BroadcastLen
  <2>1. /\ srv = "answered" /\ srv' = "appending" /\ took' = took
        /\ log' = Append(log, LengthOf(y))
    BY <1>3, <1>5 DEF BroadcastLen
  <2>2. Appends(LengthOf(y)) /\ LengthOf(y).msg = y
    BY <2>1, PieceFacts DEF Appends
  <2>3. Held(y) /\ (\A x : ~Held(x)') /\ (\A x : Half(x)' => x = y)
    BY <1>0, <1>2, <1>3, <2>1 DEF Held, Half, Hosting
  <2>4. ~InLog(y) /\ ~Fresh(y)'
    BY <1>0, <1>4, <1>7, <2>3 DEF LogInv, Fresh
  <2>5. \A x : Fresh(x)' => Fresh(x)
    BY <1>4, <2>3 DEF Fresh
  <2>6. LogInv'
    BY <1>0, <1>7, <2>2, <2>3, <2>4, <2>5, NewLog
  <2>7. Fades
    BY <2>2, <2>3, <2>5 DEF Fades, Pending, Fresh
  <2>8. SlotInv' /\ DeadInv' /\ SeenInv'
    BY <1>0, <2>1, <2>2, <2>7, LogFrame
  <2> QED BY <2>6, <2>8 DEF Calm
<1>6. CASE BroadcastData
  <2>1. srv = "appending" /\ srv' = "idle" /\ log' = Append(log, BytesOf(y))
    BY <1>3, <1>6 DEF BroadcastData
  <2>2. Appends(BytesOf(y)) /\ BytesOf(y).msg = y
    BY <2>1, PieceFacts DEF Appends
  <2>3. Half(y) /\ (\A x : ~Held(x)' /\ ~Half(x)')
    BY <1>0, <1>2, <1>3, <2>1 DEF Held, Half, Hosting
  <2>4. ~Fresh(y)' /\ \A x : Fresh(x)' => Fresh(x)
    BY <1>4, <1>7, <2>3 DEF Fresh
  <2>5. LogInv'
    BY <1>0, <1>7, <2>2, <2>3, <2>4, NewLog
  <2>6. Fades
    BY <2>2, <2>3, <2>4 DEF Fades, Pending
  <2>7. SlotInv' /\ DeadInv' /\ SeenInv'
    BY <1>0, <2>1, <2>2, <2>6, LogFrame
  <2> QED BY <2>5, <2>7 DEF Calm
<1> QED BY <1>5, <1>6

\* The primary broadcasts while the server task is between two accesses.
LEMMA QuietHost ==
  ASSUME Quiet, NEW h \in Hosted, HostLen(h) \/ HostData(h)
  PROVE  Calm'
<1> DEFINE y == Original(h)
<1>0. /\ TypeOK /\ SlotInv /\ LogInv /\ DeadInv /\ SeenInv /\ Solo
      /\ UNCHANGED <<slots, send, on, srv, took, handled, served, reader, mapped, copied, pos, seen>>
      /\ \A k \in Hosted : k # h => host'[k] = host[k]
  BY DEF Quiet, HostLen, HostData, sending, server, reading, TypeOK
<1>1. ~Serving /\ \A k \in Hosted : k # h => ~Hosting(k)
  <2>1. CASE HostLen(h)
    BY <2>1, FreeFacts DEF Quiet, HostLen
  <2>2. CASE HostData(h)
    BY <1>0, <2>2 DEF Solo, HostData, Hosting
  <2> QED BY <2>1, <2>2
<1>2. y \in Ids /\ y[2] = 0 /\ (\A k \in Hosted : y = Original(k) => k = h)
      /\ \A m \in Messages : y # Original(m)
  BY IdFacts, PieceFacts
<1>3. \A m \in Messages : Waits(m)' = Waits(m)
  BY <1>0 DEF Waits, current, Settled, Writing
<1>4. /\ host'[h] # "idle"
      /\ \A k \in Hosted : host'[k] = "idle" => host[k] = "idle"
      /\ \A k \in Hosted : k # h => ~Hosting(k)'
  BY <1>0, <1>1 DEF HostLen, HostData, Hosting, TypeOK
<1>5. /\ \A x : Ahead(x)' => Ahead(x)
      /\ \A x : Held(x)' = Held(x)
  BY <1>0, <1>3, <1>4 DEF Ahead, Held
<1>6. ~Fresh(y)'
  <2>1. ~Ahead(y)'
    BY <1>2, <1>4 DEF Ahead
  <2>2. ~Held(y)
    BY <1>0, <1>2, TookFacts DEF Held
  <2> QED BY <1>5, <2>1, <2>2 DEF Fresh
<1>7. \A x : Half(x)' => x = y
  BY <1>0, <1>1, <1>4 DEF Half, Serving
<1>8. current.data # y
  BY <1>0, <1>2, IdFacts DEF SlotInv
<1>9. \A x : Fresh(x)' => Fresh(x)
  BY <1>5 DEF Fresh
<1>10. CASE HostLen(h)
  <2>1. Ahead(y) /\ log' = Append(log, LengthOf(y))
    BY <1>10 DEF HostLen, Ahead
  <2>2. Appends(LengthOf(y)) /\ LengthOf(y).msg = y
    BY <1>2, <2>1, PieceFacts DEF Appends
  <2>3. ~InLog(y)
    BY <1>0, <2>1 DEF LogInv, Fresh
  <2>4. LogInv'
    BY <1>0, <1>2, <1>6, <1>7, <1>9, <2>2, <2>3, NewLog
  <2>5. Fades
    BY <1>7, <1>9, <2>1, <2>2 DEF Fades, Pending, Fresh
  <2>6. SlotInv' /\ DeadInv' /\ SeenInv'
    BY <1>0, <1>1, <1>8, <2>2, <2>5, LogFrame DEF Serving
  <2> QED BY <2>4, <2>6 DEF Calm
<1>11. CASE HostData(h)
  <2>1. Half(y) /\ log' = Append(log, BytesOf(y)) /\ ~Hosting(h)'
    BY <1>11 DEF HostData, Half, Hosting, TypeOK, Quiet
  <2>2. Appends(BytesOf(y)) /\ BytesOf(y).msg = y
    BY <1>2, <2>1, PieceFacts DEF Appends
  <2>3. \A x : ~Half(x)'
    BY <1>0, <1>1, <1>4, <2>1 DEF Half, Serving
  <2>4. LogInv'
    BY <1>0, <1>2, <1>6, <1>9, <2>1, <2>2, <2>3, NewLog
  <2>5. Fades
    BY <1>9, <2>1, <2>2, <2>3 DEF Fades, Pending
  <2>6. SlotInv' /\ DeadInv' /\ SeenInv'
    BY <1>0, <1>1, <1>8, <2>2, <2>5, LogFrame DEF Serving
  <2> QED BY <2>4, <2>6 DEF Calm
<1> QED BY <1>10, <1>11

\* A client that only reads the log, or looks at the slot.
LEMMA QuietLook ==
  ASSUME Quiet, NEW c \in Clients,
         ReturnBroadcast(c) \/ NoBroadcast(c) \/ NoResponse(c) \/ SeeResponse(c) \/ CopyResponse(c)
  PROVE  SlotInv' /\ LogInv' /\ DeadInv'
<1>0. /\ TypeOK /\ SlotInv /\ LogInv /\ DeadInv
      /\ UNCHANGED <<slots, send, on, srv, took, handled, served, host, log>>
  BY DEF Quiet, ReturnBroadcast, NoBroadcast, NoResponse, SeeResponse, CopyResponse, sending, server
<1>1. current' = current /\ Settled' = Settled /\ \A n \in Messages : Waits(n)' = Waits(n)
  BY <1>0 DEF current, Settled, Writing, Waits
<1>2. SlotInv'
  BY <1>0, <1>1 DEF SlotInv, Writing
<1>3. \A x : /\ Ahead(x)' = Ahead(x) /\ Held(x)' = Held(x) /\ Half(x)' = Half(x)
             /\ InLog(x)' = InLog(x)
  BY <1>0, <1>1 DEF Ahead, Held, Half, Hosting, InLog
<1>4. LogInv'
  BY <1>0, <1>3, SameLog DEF Fresh
<1>5. \A x : Dead(x) => Dead(x)'
  BY <1>3 DEF Dead, Pending, Fresh
<1>6. ASSUME NEW d \in Clients, NEW x
      PROVE  /\ reader'[d] = "flagged" /\ slots'[mapped'[d]].data = x => Dead(x)
             /\ reader'[d] = "copied" /\ copied'[d] = x /\ x # Garbage => Dead(x)
  <2>1. CASE reader'[d] = reader[d] /\ mapped'[d] = mapped[d] /\ copied'[d] = copied[d]
    BY <1>0, <2>1 DEF DeadInv
  <2>2. CASE d = c /\ SeeResponse(c)
    <3>1. reader'[d] = "flagged" /\ slots'[mapped'[d]] = current /\ current.flag = 2
      BY <1>0, <2>2 DEF SeeResponse, TypeOK, current
    <3>2. srv \notin {"reflag", "relen"}
      BY <2>2, FreeFacts DEF Quiet, SeeResponse, Serving
    <3> QED BY <1>0, <3>1, <3>2 DEF DeadInv
  <2>3. CASE d = c /\ CopyResponse(c)
    <3>1. /\ reader[d] = "flagged" /\ reader'[d] = "copied"
          /\ copied'[d] \in Parse(slots[mapped[d]])
      BY <1>0, <2>3 DEF CopyResponse, TypeOK
    <3>2. copied'[d] \in {slots[mapped[d]].data, Garbage}
      BY <3>1 DEF Parse
    <3> QED BY <1>0, <3>1, <3>2 DEF DeadInv
  <2>4. CASE d = c /\ (NoBroadcast(c) \/ NoResponse(c))
    BY <1>0, <2>4 DEF NoBroadcast, NoResponse, TypeOK
  <2> QED BY <1>0, <2>1, <2>2, <2>3, <2>4 DEF ReturnBroadcast, NoBroadcast, NoResponse,
          SeeResponse, CopyResponse, TypeOK
<1>7. DeadInv'
  BY <1>0, <1>1, <1>3, <1>5, <1>6 DEF DeadInv
<1> QED BY <1>2, <1>4, <1>7

\* What a client has just returned is nowhere ahead of it.
LEMMA QuietSeen ==
  ASSUME Quiet, NEW c \in Clients,
         ReturnBroadcast(c) \/ NoBroadcast(c) \/ NoResponse(c) \/ SeeResponse(c) \/ CopyResponse(c)
  PROVE  SeenInv'
<1>0. /\ TypeOK /\ SeenInv /\ LogInv
      /\ UNCHANGED <<slots, send, on, srv, took, host, log>>
  BY DEF Quiet, ReturnBroadcast, NoBroadcast, NoResponse, SeeResponse, CopyResponse, sending, server
<1>1. \A x : Pending(x)' = Pending(x)
  BY <1>0 DEF Pending, Fresh, Ahead, Held, Half, Hosting, Waits, current, Settled, Writing
<1>2. CASE UNCHANGED <<seen, pos>>
  BY <1>0, <1>1, <1>2 DEF SeenInv
<1>3. CASE ReturnBroadcast(c)
  <2> DEFINE x == log[pos[c] + 1].msg
  <2>1. /\ seen' = [seen EXCEPT ![c] = @ \cup {x}]
        /\ pos' = [pos EXCEPT ![c] = @ + 2]
        /\ seen \in [Clients -> SUBSET Ids] /\ pos \in [Clients -> Nat]
    BY <1>0, <1>3 DEF ReturnBroadcast, TypeOK
  <2>2. /\ DOMAIN log = 1..Len(log) /\ Len(log) \in Nat /\ pos[c] \in Nat
        /\ pos[c] + 2 <= Len(log) /\ pos[c] + 1 \in DOMAIN log
    BY <1>0, <1>3, <2>1 DEF ReturnBroadcast, News, Whole, TypeOK
  <2>3. ~Pending(x)
    <3>1. InLog(x)
      BY <2>2 DEF InLog
    <3>2. pos[c] + 1 # Len(log)
      BY <2>2
    <3>3. ~Half(x)
      <4> HIDE DEF x
      <4>1. ASSUME NEW y, y = x, Half(y) PROVE FALSE
        <5>1. log[pos[c] + 1].msg = y
          BY <4>1 DEF x
        <5> QED BY <1>0, <2>2, <3>2, <4>1, <5>1 DEF LogInv
      <4> QED BY <4>1
    <3>4. ~Fresh(x)
      <4> HIDE DEF x
      <4> QED BY <1>0, <3>1 DEF LogInv
    <3> QED BY <3>3, <3>4 DEF Pending
  <2>4. ASSUME NEW i \in DOMAIN log, i > pos[c] + 2, log[i].msg = x
        PROVE  FALSE
    <3>1. pos[c] + 1 < i /\ i # (pos[c] + 1) + 1
      BY <2>2, <2>4
    <3> QED BY <1>0, <2>2, <2>4, <3>1 DEF LogInv
  <2>5. pos'[c] = pos[c] + 2 /\ seen'[c] = seen[c] \cup {x}
    BY <2>1
  <2>6. \A d \in Clients : d # c => pos'[d] = pos[d] /\ seen'[d] = seen[d]
    BY <2>1
  <2> HIDE DEF x
  <2>7. ASSUME NEW d \in Clients, NEW y \in seen'[d]
        PROVE  ~Pending(y)' /\ \A i \in DOMAIN log' : i > pos'[d] => log'[i].msg # y
    <3>1. CASE d # c
      BY <1>0, <1>1, <2>6, <2>7, <3>1 DEF SeenInv
    <3>2. CASE d = c /\ y = x
      BY <1>0, <1>1, <2>3, <2>4, <2>5, <3>2
    <3>3. CASE d = c /\ y # x
      <4>1. y \in seen[c] /\ \A i \in DOMAIN log : i > pos[c] + 2 => i > pos[c]
        BY <2>2, <2>5, <2>7, <3>3
      <4> QED BY <1>0, <1>1, <2>5, <3>3, <4>1 DEF SeenInv
    <3> QED BY <3>1, <3>2, <3>3
  <2> QED BY <2>7 DEF SeenInv
<1> QED BY <1>2, <1>3 DEF ReturnBroadcast, NoBroadcast, NoResponse, SeeResponse, CopyResponse

\* What a client takes from the slot will not be broadcast, and was not.
LEMMA QuietTakeResponse ==
  ASSUME Quiet, NEW c \in Clients, TakeResponse(c)
  PROVE  Calm'
<1>0. /\ TypeOK /\ SlotInv /\ LogInv /\ DeadInv /\ SeenInv /\ Solo
      /\ slots' = [slots EXCEPT ![mapped[c]].flag = 0]
      /\ reader[c] = "copied" /\ reader' = [reader EXCEPT ![c] = "poll"]
      /\ seen' = [seen EXCEPT ![c] = @ \cup ({copied[c]} \ {Garbage})]
      /\ UNCHANGED <<send, on, srv, took, handled, served, host, log, mapped, pos>>
  BY DEF Quiet, TakeResponse, sending, server
<1>1. /\ \A n \in Messages : ~Writing(n)
      /\ ~Serving
      /\ \A h \in Hosted : ~Hosting(h)
      /\ \A d \in Clients : d # c => ~Reading(d)
  BY <1>0 DEF Solo, Reading
<1>2. /\ current'.data = current.data /\ current'.len = current.len
      /\ current'.flag \in {0, current.flag}
  <2>1. /\ slots \in Seq(Slots) /\ mapped[c] \in 1..Len(slots) /\ Len(slots) \in 1..Len(slots)
        /\ current \in Slots /\ current = slots[Len(slots)]
    BY <1>0, QuietTypes
  <2> QED BY <1>0, <2>1, EditFacts, FieldFacts DEF current
<1>3. Len(slots') = Len(slots)
  BY <1>0, QuietTypes, EditFacts
<1>4. Settled /\ Settled'
  BY <1>0, <1>1, <1>3 DEF Settled, Writing
<1>5. \A n \in Messages : Waits(n)' => Waits(n)
  BY <1>2, <1>4 DEF Waits
<1>6. /\ \A x : Ahead(x)' => Ahead(x)
      /\ \A x : Held(x)' => Held(x)
      /\ \A x : Half(x)' => Half(x)
  BY <1>0, <1>5 DEF Ahead, Held, Half, Hosting
<1>7. Fades
  BY <1>0, <1>6 DEF Fades, Pending, Fresh
<1>8. \A d \in Clients : ~Reading(d)'
  BY <1>0, <1>1 DEF Reading, TypeOK
<1>9. SlotInv'
  <2>1. \A n \in Messages :
          /\ handled'[n] <= 1
          /\ send'[n] # "done" => handled'[n] = 0
          /\ ~Writing(n)' /\ send'[n] # "len"
    BY <1>0, <1>1 DEF SlotInv, Writing
  <2>2. srv' \in {"handled", "reflag", "relen", "answered", "appending"} =>
          /\ served' # 0
          /\ \E n \in Messages : took' = Original(n) /\ handled'[n] = 1
    BY <1>0 DEF SlotInv
  <2>3. srv' \notin {"flagged", "copied", "reflag", "relen"}
    BY <1>0, <1>1 DEF Serving
  <2>4. \/ current'.data = None
        \/ current'.data[2] # 0
        \/ \E n \in Messages : current'.data = Original(n) /\ send'[n] = "done"
    BY <1>0, <1>2 DEF SlotInv
  <2>5. current'.flag = 1 /\ Settled' =>
          \E n \in Messages : /\ current'.len = Original(n) /\ current'.data = Original(n)
                              /\ send'[n] = "done" /\ handled'[n] = 0
    <3>1. current'.flag = 1 => current.flag = 1
      BY <1>2
    <3> QED BY <1>0, <1>2, <1>4, <3>1 DEF SlotInv
  <2> QED BY <2>1, <2>2, <2>3, <2>4, <2>5 DEF SlotInv
<1>10. LogInv'
  BY <1>0, <1>6, SameLog DEF Fresh
<1>11. DeadInv'
  <2>1. srv' = srv /\ srv \notin {"reflag", "relen"}
    BY <1>0, <1>1 DEF Serving
  <2>2. \A d \in Clients : reader'[d] \notin {"flagged", "copied"}
    BY <1>8 DEF Reading
  <2>3. ASSUME NEW x, current.data = x
        PROVE  /\ srv = "handled" => ~InLog(x)'
               /\ current'.flag = 2 => Dead(x)'
    <3>1. srv = "handled" => ~InLog(x)'
      BY <1>0, <2>3 DEF DeadInv, InLog
    <3>2. current'.flag = 2 => Dead(x)
      <4>1. current'.flag = 2 => current.flag = 2
        BY <1>2
      <4> QED BY <1>0, <2>1, <2>3, <4>1 DEF DeadInv
    <3> QED BY <1>0, <1>7, <3>1, <3>2, DeadStays
  <2> QED BY <1>2, <2>1, <2>2, <2>3 DEF DeadInv
<1>12. SeenInv'
  <2>1. ASSUME NEW d \in Clients, NEW x \in seen'[d]
        PROVE  ~Pending(x)' /\ \A i \in DOMAIN log' : i > pos'[d] => log'[i].msg # x
    <3>1. CASE x \in seen[d]
      BY <1>0, <1>7, <3>1, LogGrows DEF SeenInv
    <3>2. CASE x \notin seen[d]
      <4>1. x = copied[c] /\ x # Garbage
        BY <1>0, <2>1, <3>2 DEF TypeOK
      <4>2. Dead(x)
        BY <1>0, <4>1 DEF DeadInv
      <4>3. Dead(x)'
        BY <1>0, <1>7, <4>2, DeadStays
      <4> QED BY <4>3 DEF Dead, InLog
    <3> QED BY <3>1, <3>2
  <2> QED BY <2>1 DEF SeenInv
<1> QED BY <1>9, <1>10, <1>11, <1>12 DEF Calm

-----------------------------------------------------------------------------
LEMMA QuietInit == Init => QuietInv
<1> SUFFICES ASSUME Init PROVE QuietInv
  OBVIOUS
<1>0. /\ slots = <<EmptySlot>> /\ srv = "idle" /\ log = <<>>
      /\ \A m \in Messages : send[m] = "idle" /\ handled[m] = 0
      /\ \A h \in Hosted : host[h] = "idle"
      /\ \A c \in Clients : reader[c] = "poll" /\ seen[c] = {}
  BY DEF Init
<1>1. current = EmptySlot
  BY <1>0 DEF current
<1>2. Solo
  BY <1>0 DEF Solo, Writing, Serving, Hosting, Reading
<1>3. SlotInv
  BY <1>0, <1>1 DEF SlotInv, Writing, EmptySlot
<1>4. LogInv
  <2>1. DOMAIN log = {}
    BY <1>0
  <2> QED BY <2>1 DEF LogInv, InLog
<1>5. DeadInv
  BY <1>0, <1>1 DEF DeadInv, EmptySlot
<1>6. SeenInv
  BY <1>0 DEF SeenInv
<1> QED BY <1>2, <1>3, <1>4, <1>5, <1>6 DEF QuietInv

LEMMA QuietStep == IInv /\ QuietInv /\ [Next]_vars => QuietInv'
<1> SUFFICES ASSUME IInv, QuietInv, [Next]_vars, "race" \notin faults'
             PROVE  (Solo /\ Calm)'
  BY DEF QuietInv, Calm
<1>1. faults' = faults
  BY DEF Next, SendFlag, Send, SendLen, SendData, Serve, SeeRequest, CopyRequest,
     TakeRequest, RespondFlag, RespondLen, RespondData, RespondTooLarge, BroadcastLen,
     BroadcastData, HostLen, HostData, Stop, Crash, Start, Receive, ReturnBroadcast,
     NoBroadcast, NoResponse, SeeResponse, CopyResponse, TakeResponse, vars
<1>2. Quiet
  BY <1>1 DEF Quiet, QuietInv, IInv
<1>3. TypeOK /\ Solo /\ "race" \notin faults
  BY <1>2 DEF Quiet
<1>4. CASE UNCHANGED vars
  <2>1. /\ UNCHANGED <<slots, send, on, srv, took, handled, served, host, log, reader,
                       mapped, copied, pos, seen>>
    BY <1>4 DEF vars, sending, server, reading, history
  <2>2. Solo'
    BY <1>3, <2>1 DEF Solo, Writing, Serving, Hosting, Reading
  <2>3. SlotInv' /\ LogInv' /\ DeadInv' /\ SeenInv'
    BY <1>2, <2>1 DEF Quiet, SlotInv, LogInv, DeadInv, SeenInv, Dead, Pending, Fresh, Ahead,
       Held, Half, Hosting, InLog, Waits, Settled, Writing, current
  <2> QED BY <2>2, <2>3 DEF Calm
<1>5. ASSUME NEW m \in Messages, SendFlag(m) \/ Send(m) PROVE (Solo /\ Calm)'
  BY <1>2, <1>3, <1>5, SoloSend, QuietSendFlag, QuietSend
<1>6. CASE Serve
  <2>1. Solo'
    BY <1>3, <1>6, SoloServe
  <2>2. Calm'
    BY <1>2, <1>6, QuietServer, QuietTake, QuietRespondFlag, QuietRespond, QuietBroadcast
       DEF Serve
  <2> QED BY <2>1, <2>2
<1>7. ASSUME NEW h \in Hosted, HostLen(h) \/ HostData(h) PROVE (Solo /\ Calm)'
  BY <1>2, <1>3, <1>7, SoloHost, QuietHost
<1>8. CASE Stop \/ Crash \/ Start
  BY <1>2, <1>3, <1>8, SoloLife, QuietServer, QuietCrash, QuietStart
<1>9. ASSUME NEW c \in Clients, Receive(c) PROVE (Solo /\ Calm)'
  <2>1. Solo'
    BY <1>3, <1>9, SoloReceive
  <2>2. Calm'
    BY <1>2, <1>9, QuietLook, QuietSeen, QuietTakeResponse DEF Receive, Calm
  <2> QED BY <2>1, <2>2
<1> QED BY <1>4, <1>5, <1>6, <1>7, <1>8, <1>9 DEF Next

LEMMA QuietInvariant == Spec => [](IInv /\ QuietInv)
<1>1. Init => IInv /\ QuietInv
  BY InitType, QuietInit
<1>2. IInv /\ QuietInv /\ [Next]_vars => (IInv /\ QuietInv)'
  BY StepType, QuietStep
<1> QED BY <1>1, <1>2, PTL DEF Spec

\* Unless accesses race, a request reaches the handler at most once, and nothing
\* but requests does: neither an answer nor what a crash left in the slot is
\* handled (shared_memory.rs:271-300, 439-453, 1189-1227).
THEOREM RequestsHandledOnce == Spec => []HandledOnce
<1>1. QuietInv => HandledOnce
  BY IdFacts DEF QuietInv, SlotInv, HandledOnce
<1> QED BY <1>1, QuietInvariant, PTL

\* Unless accesses race, no client has marked as seen the id of a broadcast that
\* is ahead of it: an answer has an id of its own, and of a broadcast the length
\* and the bytes are passed together (shared_memory.rs:852-934).
THEOREM NoBroadcastHidden == Spec => []NothingHidden
<1>1. QuietInv => NothingHidden
  BY DEF QuietInv, SeenInv, NothingHidden
<1> QED BY <1>1, QuietInvariant, PTL
=============================================================================
