-------------------------- MODULE UnixOrderProofs --------------------------
(***************************************************************************)
(* Theorems about what the clients of UnixChannel get: the order of the    *)
(* answers and the broadcasts, and the gaps between broadcasts.  They are  *)
(* about the stream to a client, from what it has heard to what the task   *)
(* has still to write, and about where a message is: on its way to the     *)
(* server or, once, in the log.                                            *)
(***************************************************************************)
EXTENDS UnixChannelProofs

-----------------------------------------------------------------------------
(* The inductive invariant.                                                *)

\* What is on its way to the client of a connection, from the piece its pending
\* read consumed first to the last one the task has to write.
Feed(c) == rdpart[c] \o (down[c] \o out[c])

\* What the client has received, as ends of lines, and, while it listens, what is
\* on its way: all it can ever get of what was written so far.
Heard(s) == [k \in 1..Len(s) |-> [item |-> s[k], end |-> TRUE]]
Listens(c) == client[c] \in {"open", "garbled"}
Stream(c) == IF Listens(c) THEN Heard(got[c]) \o Feed(c) ELSE Heard(got[c])

\* The k-th piece of g ends item i.
Shows(g, k, i) == k \in DOMAIN g /\ g[k] = [item |-> i, end |-> TRUE]

\* The reply to m ends before the k-th piece.
Told(g, m, k) == \E j \in DOMAIN g : j < k /\ Shows(g, j, <<"reply", m>>)

\* The broadcasts of g rise, and none is beyond place p.
Rising(g, p) ==
  /\ \A k \in DOMAIN g, x \in Nat : Shows(g, k, <<"cast", x>>) => x \in 1..p
  /\ \A j, k \in DOMAIN g, x, y \in Nat :
       j < k /\ Shows(g, j, <<"cast", x>>) /\ Shows(g, k, <<"cast", y>>) => x < y

\* In g the replies to the requests v come in their order and once, and before
\* the broadcast of the request.
Orderly(g, v, l) ==
  /\ \A k \in DOMAIN g, m \in Messages :
       Shows(g, k, <<"reply", m>>) =>
         \E n \in 1..Len(v) : /\ m = v[n] /\ ~Told(g, m, k)
                              /\ \A i \in 1..(n - 1) : Told(g, v[i], k)
  /\ \A k \in DOMAIN g, x \in 1..Len(l), i \in 1..Len(v) :
       Shows(g, k, <<"cast", x>>) /\ l[x] = v[i] => Told(g, v[i], k)

\* Every request of v has its reply in g.
AllTold(g, v) == \A i \in 1..Len(v) : \E k \in DOMAIN g : Shows(g, k, <<"reply", v[i]>>)

\* From a broadcast of g to another one, or to place p, none is missing.
Reaches(g, x, y) == \A z \in x..y : \E l \in DOMAIN g : Shows(g, l, <<"cast", z>>)
Solid(g) ==
  \A j, k \in DOMAIN g, x, y \in Nat :
    Shows(g, j, <<"cast", x>>) /\ Shows(g, k, <<"cast", y>>) => Reaches(g, x, y)
SolidTo(g, p) == \A k \in DOMAIN g, x \in Nat : Shows(g, k, <<"cast", x>>) => Reaches(g, x, p)

\* The connection is served, and its client listens.
Lively(c) == client[c] = "open" /\ task[c] # "ended"

\* What a client gets that finishes its reads.
Unbroken(c) ==
  /\ client[c] # "garbled"
  /\ client[c] = "open" => Alternates(Feed(c))
  /\ Orderly(Stream(c), served[c], log)
  /\ c \notin lagged => Solid(Stream(c))
  /\ Lively(c) => /\ LastEnds(Feed(c))
                  /\ AllTold(Stream(c), served[c])
                  /\ c \notin lagged => SolidTo(Stream(c), pos[c])

Flow(c) ==
  /\ NoEnd(rdpart[c])
  /\ task[c] = "none" => Feed(c) = <<>> /\ served[c] = <<>> /\ got[c] = <<>>
  /\ pos[c] <= Len(log)
  /\ Rising(Stream(c), pos[c])
  /\ Whole(c) => Unbroken(c)

\* The lines that have an end still to be read by the server.
Pending(c) == up[c] \o wr[c]
IsSent(m) == \E c \in Conns : \E i \in DOMAIN sent[c] : sent[c][i] = m
InLog(x) == \E i \in DOMAIN log : log[i] = x

\* A message is in one place: pending, or, once handled, in the log.
Unique ==
  /\ \A i, j \in DOMAIN log : log[i] = log[j] => i = j
  /\ \A i \in DOMAIN log : log[i] \in Messages => IsSent(log[i])
  /\ \A c \in Conns : \A i \in DOMAIN served[c] : InLog(served[c][i])
  /\ \A c \in Conns : \A i \in DOMAIN Pending(c) :
       Pending(c)[i].end => ~InLog(Pending(c)[i].item[2])
  /\ \A c, d \in Conns : \A i \in DOMAIN Pending(c), j \in DOMAIN Pending(d) :
       /\ Pending(c)[i].end /\ Pending(d)[j].end
       /\ Pending(c)[i].item[2] = Pending(d)[j].item[2]
       => c = d /\ i = j
  /\ \A c \in Conns : \A i \in DOMAIN up[c] : up[c][i].end => IsSent(up[c][i].item[2])
  /\ \A c \in Conns : wr[c] # <<>> /\ wr[c][1].end => IsSent(wr[c][1].item[2])

OrderInv == Unique /\ \A c \in Conns : Flow(c)

-----------------------------------------------------------------------------
(* Streams, and what they show.                                            *)

\* What is moved from one stream to the end of another stays where it was.
LEMMA Regroup ==
  ASSUME NEW S, NEW u \in Seq(S), NEW w \in Seq(S), NEW n \in 0..Len(w)
  PROVE  (u \o Taken(w, n)) \o Left(w, n) = u \o w
<1> DEFINE t == Taken(w, n)
           l == Left(w, n)
           a == u \o t
           g == a \o l
           h == u \o w
<1>1. /\ t \in Seq(S) /\ Len(t) = n /\ \A i \in 1..n : t[i] = w[i]
      /\ l \in Seq(S) /\ Len(l) = Len(w) - n /\ \A i \in 1..(Len(w) - n) : l[i] = w[n + i]
  BY SplitFacts
<1> HIDE DEF t, l
<1>2. /\ a \in Seq(S) /\ Len(a) = Len(u) + Len(t)
      /\ \A i \in 1..Len(u) : a[i] = u[i]
      /\ \A i \in 1..Len(t) : a[Len(u) + i] = t[i]
  <2>1. t \in Seq(S)
    BY <1>1
  <2> QED BY ONLY <2>1, u \in Seq(S), JoinFacts
<1> HIDE DEF a
<1>3. /\ g \in Seq(S) /\ Len(g) = Len(a) + Len(l)
      /\ \A i \in 1..Len(a) : g[i] = a[i]
      /\ \A i \in 1..Len(l) : g[Len(a) + i] = l[i]
  <2>1. l \in Seq(S) /\ a \in Seq(S)
    BY <1>1, <1>2
  <2> QED BY ONLY <2>1, JoinFacts
<1>4. /\ h \in Seq(S) /\ Len(h) = Len(u) + Len(w)
      /\ \A i \in 1..Len(u) : h[i] = u[i]
      /\ \A i \in 1..Len(w) : h[Len(u) + i] = w[i]
  BY JoinFacts
<1> HIDE DEF g, h
<1>5. Len(u) \in Nat /\ Len(w) \in Nat /\ n \in Nat /\ n <= Len(w)
  OBVIOUS
<1>6. Len(g) = Len(h)
  BY <1>1, <1>2, <1>3, <1>4, <1>5
<1>7. ASSUME NEW i \in 1..Len(g) PROVE g[i] = h[i]
  <2>1. CASE i <= Len(u)
    <3>1. i \in 1..Len(u) /\ i \in 1..Len(a)
      BY <1>1, <1>2, <1>5, <2>1
    <3> QED BY <1>2, <1>3, <1>4, <3>1
  <2>2. CASE i > Len(u) /\ i <= Len(u) + n
    <3>1. /\ i - Len(u) \in 1..n /\ i - Len(u) \in 1..Len(t) /\ i - Len(u) \in 1..Len(w)
          /\ Len(u) + (i - Len(u)) = i /\ i \in 1..Len(a)
      BY <1>1, <1>2, <1>5, <2>2
    <3>2. g[i] = t[i - Len(u)]
      BY <1>2, <1>3, <3>1
    <3>3. h[i] = w[i - Len(u)]
      BY <1>4, <3>1
    <3> QED BY <1>1, <3>1, <3>2, <3>3
  <2>3. CASE i > Len(u) + n
    <3>1. /\ i - (Len(u) + n) \in 1..Len(l) /\ Len(a) + (i - (Len(u) + n)) = i
          /\ i - (Len(u) + n) \in 1..(Len(w) - n)
          /\ n + (i - (Len(u) + n)) = i - Len(u) /\ i - Len(u) \in 1..Len(w)
          /\ Len(u) + (i - Len(u)) = i
      BY <1>1, <1>2, <1>3, <1>5, <2>3
    <3>2. g[i] = l[i - (Len(u) + n)]
      BY <1>3, <3>1
    <3>3. l[i - (Len(u) + n)] = w[n + (i - (Len(u) + n))]
      BY <1>1, <3>1
    <3>4. h[i] = w[i - Len(u)]
      BY <1>4, <3>1
    <3> QED BY <3>1, <3>2, <3>3, <3>4
  <2> QED BY <1>5, <2>1, <2>2, <2>3
<1>8. g = h
  BY <1>3, <1>4, <1>6, <1>7, SeqEqual
<1> QED BY <1>8 DEF g, h, a, t, l

LEMMA Associative ==
  ASSUME NEW S, NEW x \in Seq(S), NEW y \in Seq(S), NEW z \in Seq(S)
  PROVE  (x \o y) \o z = x \o (y \o z)
OBVIOUS

\* h is g without n pieces after the first q.
To(k, q, n) == IF k <= q THEN k ELSE k + n
Without(h, g, q, n) ==
  /\ h \in Seq(Pieces) /\ g \in Seq(Pieces) /\ q \in Nat /\ n \in Nat
  /\ q <= Len(h) /\ Len(g) = Len(h) + n
  /\ \A k \in 1..Len(h) : h[k] = g[To(k, q, n)]

LEMMA WithoutFacts ==
  ASSUME NEW h, NEW g, NEW q, NEW n, Without(h, g, q, n)
  PROVE  /\ DOMAIN h = 1..Len(h) /\ DOMAIN g = 1..Len(g)
         /\ \A k \in 1..Len(h) : To(k, q, n) \in 1..Len(g)
         /\ \A j, k \in 1..Len(h) : j < k <=> To(j, q, n) < To(k, q, n)
         /\ \A k \in 1..Len(h) : \A i : Shows(h, k, i) <=> Shows(g, To(k, q, n), i)
         /\ \A k \in 1..Len(g) : k \in (q + 1)..(q + n) \/ \E j \in 1..Len(h) : To(j, q, n) = k
<1>1. /\ DOMAIN h = 1..Len(h) /\ DOMAIN g = 1..Len(g) /\ Len(h) \in Nat
      /\ q \in Nat /\ n \in Nat /\ q <= Len(h) /\ Len(g) = Len(h) + n
      /\ \A k \in 1..Len(h) : h[k] = g[To(k, q, n)]
  BY DEF Without
<1>2. \A k \in 1..Len(h) : To(k, q, n) \in 1..Len(g)
  BY <1>1 DEF To
<1>3. \A j, k \in 1..Len(h) : j < k <=> To(j, q, n) < To(k, q, n)
  BY <1>1 DEF To
<1>4. \A k \in 1..Len(h) : \A i : Shows(h, k, i) <=> Shows(g, To(k, q, n), i)
  BY <1>1, <1>2 DEF Shows
<1>5. ASSUME NEW k \in 1..Len(g), k \notin (q + 1)..(q + n)
      PROVE  \E j \in 1..Len(h) : To(j, q, n) = k
  <2>1. CASE k <= q
    <3>1. k \in 1..Len(h) /\ To(k, q, n) = k
      BY <1>1, <2>1 DEF To
    <3> QED BY <3>1
  <2>2. CASE k > q + n
    <3>1. k - n \in 1..Len(h) /\ To(k - n, q, n) = k
      BY <1>1, <2>2 DEF To
    <3> QED BY <3>1
  <2> QED BY <1>1, <1>5, <2>1, <2>2
<1> QED BY <1>1, <1>2, <1>3, <1>4, <1>5

\* Whatever is lost, the broadcasts that are left rise.
LEMMA RisingWithout ==
  ASSUME NEW h, NEW g, NEW q, NEW n, Without(h, g, q, n), NEW p, Rising(g, p)
  PROVE  Rising(h, p)
<1>1. ASSUME NEW k \in DOMAIN h, NEW x \in Nat, Shows(h, k, <<"cast", x>>)
      PROVE  x \in 1..p
  <2>1. To(k, q, n) \in DOMAIN g /\ Shows(g, To(k, q, n), <<"cast", x>>)
    BY <1>1, WithoutFacts
  <2> QED BY <2>1 DEF Rising
<1>2. ASSUME NEW j \in DOMAIN h, NEW k \in DOMAIN h, NEW x \in Nat, NEW y \in Nat,
             j < k, Shows(h, j, <<"cast", x>>), Shows(h, k, <<"cast", y>>)
      PROVE  x < y
  <2>1. /\ To(j, q, n) \in DOMAIN g /\ Shows(g, To(j, q, n), <<"cast", x>>)
        /\ To(k, q, n) \in DOMAIN g /\ Shows(g, To(k, q, n), <<"cast", y>>)
        /\ To(j, q, n) < To(k, q, n)
    BY <1>2, WithoutFacts
  <2> QED BY <2>1 DEF Rising
<1> QED BY <1>1, <1>2 DEF Rising

LEMMA RisingFarther ==
  ASSUME NEW g, NEW p \in Nat, NEW r \in Nat, p <= r, Rising(g, p)
  PROVE  Rising(g, r)
BY DEF Rising

\* h is the beginning of g.
Front(h, g) ==
  /\ h \in Seq(Pieces) /\ g \in Seq(Pieces) /\ Len(h) <= Len(g)
  /\ \A k \in 1..Len(h) : h[k] = g[k]

LEMMA FrontFacts ==
  ASSUME NEW h, NEW g, Front(h, g)
  PROVE  /\ DOMAIN h = 1..Len(h) /\ DOMAIN g = 1..Len(g) /\ DOMAIN h \subseteq DOMAIN g
         /\ Len(h) \in Nat /\ Len(g) \in Nat
         /\ \A k \in DOMAIN h : \A i : Shows(h, k, i) <=> Shows(g, k, i)
         /\ \A m : \A k \in DOMAIN h : Told(h, m, k) <=> Told(g, m, k)
         /\ Without(h, g, Len(h), Len(g) - Len(h))
<1>1. /\ DOMAIN h = 1..Len(h) /\ DOMAIN g = 1..Len(g) /\ DOMAIN h \subseteq DOMAIN g
      /\ Len(h) \in Nat /\ Len(g) \in Nat /\ Len(h) <= Len(g)
  BY DEF Front
<1>2. \A k \in DOMAIN h : \A i : Shows(h, k, i) <=> Shows(g, k, i)
  BY <1>1 DEF Front, Shows
<1>3. ASSUME NEW m, NEW k \in DOMAIN h PROVE Told(h, m, k) <=> Told(g, m, k)
  <2>1. \A j \in DOMAIN g : j < k => j \in DOMAIN h
    BY <1>1
  <2> QED BY <1>1, <1>2, <2>1 DEF Told
<1>4. Without(h, g, Len(h), Len(g) - Len(h))
  BY <1>1 DEF Front, Without, To
<1> QED BY <1>1, <1>2, <1>3, <1>4

LEMMA OrderlyFront ==
  ASSUME NEW h, NEW g, Front(h, g), NEW v \in Seq(Messages),
         NEW l \in Seq(Messages \cup Hosted), Orderly(g, v, l)
  PROVE  Orderly(h, v, l)
<1>1. ASSUME NEW k \in DOMAIN h, NEW m \in Messages, Shows(h, k, <<"reply", m>>)
      PROVE  \E n \in 1..Len(v) : /\ m = v[n] /\ ~Told(h, m, k)
                                  /\ \A i \in 1..(n - 1) : Told(h, v[i], k)
  <2>1. k \in DOMAIN g /\ Shows(g, k, <<"reply", m>>)
    BY <1>1, FrontFacts
  <2>2. PICK n \in 1..Len(v) : /\ m = v[n] /\ ~Told(g, m, k)
                               /\ \A i \in 1..(n - 1) : Told(g, v[i], k)
    BY <2>1 DEF Orderly
  <2> QED BY <2>2, FrontFacts
<1>2. ASSUME NEW k \in DOMAIN h, NEW x \in 1..Len(l), NEW i \in 1..Len(v),
             Shows(h, k, <<"cast", x>>), l[x] = v[i]
      PROVE  Told(h, v[i], k)
  <2>1. k \in DOMAIN g /\ Shows(g, k, <<"cast", x>>)
    BY <1>2, FrontFacts
  <2>2. Told(g, v[i], k)
    BY <1>2, <2>1 DEF Orderly
  <2> QED BY <2>2, FrontFacts
<1> QED BY <1>1, <1>2 DEF Orderly

LEMMA SolidFront ==
  ASSUME NEW h, NEW g, Front(h, g), NEW p, Rising(g, p), Solid(g)
  PROVE  Solid(h)
<1> SUFFICES ASSUME NEW j \in DOMAIN h, NEW k \in DOMAIN h, NEW x \in Nat, NEW y \in Nat,
                    Shows(h, j, <<"cast", x>>), Shows(h, k, <<"cast", y>>),
                    NEW z \in x..y
             PROVE  \E l \in DOMAIN h : Shows(h, l, <<"cast", z>>)
  BY DEF Solid, Reaches
<1>1. /\ j \in DOMAIN g /\ k \in DOMAIN g
      /\ Shows(g, j, <<"cast", x>>) /\ Shows(g, k, <<"cast", y>>)
  BY FrontFacts
<1>2. PICK l \in DOMAIN g : Shows(g, l, <<"cast", z>>)
  BY <1>1 DEF Solid, Reaches
<1>3. ~(k < l)
  <2>1. z \in Nat /\ ~(y < z)
    OBVIOUS
  <2> QED BY <1>1, <1>2, <2>1 DEF Rising
<1>4. l \in DOMAIN h
  BY <1>3, FrontFacts
<1> QED BY <1>2, <1>4, FrontFacts

\* h is g without the beginning of a line after the first q pieces.
Unbegun(h, g, q) == Without(h, g, q, 1) /\ ~g[q + 1].end

LEMMA UnbegunFacts ==
  ASSUME NEW h, NEW g, NEW q, Unbegun(h, g, q)
  PROVE  /\ \A k \in DOMAIN h : /\ To(k, q, 1) \in DOMAIN g
                                /\ \A i : Shows(h, k, i) <=> Shows(g, To(k, q, 1), i)
                                /\ \A m : Told(h, m, k) <=> Told(g, m, To(k, q, 1))
         /\ \A k \in DOMAIN g : \A i : Shows(g, k, i) => \E j \in DOMAIN h : To(j, q, 1) = k /\ Shows(h, j, i)
<1>1. /\ DOMAIN h = 1..Len(h) /\ DOMAIN g = 1..Len(g)
      /\ \A k \in 1..Len(h) : To(k, q, 1) \in 1..Len(g)
      /\ \A j, k \in 1..Len(h) : j < k <=> To(j, q, 1) < To(k, q, 1)
      /\ \A k \in 1..Len(h) : \A i : Shows(h, k, i) <=> Shows(g, To(k, q, 1), i)
      /\ \A k \in 1..Len(g) : k \in (q + 1)..(q + 1) \/ \E j \in 1..Len(h) : To(j, q, 1) = k
  <2>1. Without(h, g, q, 1)
    BY DEF Unbegun
  <2>2. ASSUME NEW n, n = 1 PROVE Without(h, g, q, n)
    BY <2>1, <2>2
  <2>3. PICK n : n = 1
    OBVIOUS
  <2>4. Without(h, g, q, n)
    BY <2>2, <2>3
  <2>5. /\ DOMAIN h = 1..Len(h) /\ DOMAIN g = 1..Len(g)
        /\ \A k \in 1..Len(h) : To(k, q, n) \in 1..Len(g)
        /\ \A j, k \in 1..Len(h) : j < k <=> To(j, q, n) < To(k, q, n)
        /\ \A k \in 1..Len(h) : \A i : Shows(h, k, i) <=> Shows(g, To(k, q, n), i)
        /\ \A k \in 1..Len(g) : k \in (q + 1)..(q + n) \/ \E j \in 1..Len(h) : To(j, q, n) = k
    BY <2>4, WithoutFacts
  <2> QED BY <2>3, <2>5
<1>2. q \in Nat
  BY DEF Unbegun, Without
<1>3. ASSUME NEW k \in DOMAIN g, NEW i, Shows(g, k, i)
      PROVE  \E j \in DOMAIN h : To(j, q, 1) = k /\ Shows(h, j, i)
  <2>1. k # q + 1
    BY <1>3 DEF Shows, Unbegun
  <2>2. PICK j \in DOMAIN h : To(j, q, 1) = k
    BY <1>1, <1>2, <2>1
  <2> QED BY <1>1, <1>3, <2>2
<1>4. ASSUME NEW k \in DOMAIN h, NEW m PROVE Told(h, m, k) <=> Told(g, m, To(k, q, 1))
  <2>1. ASSUME Told(h, m, k) PROVE Told(g, m, To(k, q, 1))
    <3>1. PICK j \in DOMAIN h : j < k /\ Shows(h, j, <<"reply", m>>)
      BY <2>1 DEF Told
    <3>2. To(j, q, 1) \in DOMAIN g /\ To(j, q, 1) < To(k, q, 1) /\ Shows(g, To(j, q, 1), <<"reply", m>>)
      BY <1>1, <3>1
    <3> QED BY <3>2 DEF Told
  <2>2. ASSUME Told(g, m, To(k, q, 1)) PROVE Told(h, m, k)
    <3>1. PICK l \in DOMAIN g : l < To(k, q, 1) /\ Shows(g, l, <<"reply", m>>)
      BY <2>2 DEF Told
    <3>2. PICK j \in DOMAIN h : To(j, q, 1) = l /\ Shows(h, j, <<"reply", m>>)
      BY <1>3, <3>1
    <3>3. j < k
      BY <1>1, <3>1, <3>2
    <3> QED BY <3>2, <3>3 DEF Told
  <2> QED BY <2>1, <2>2
<1> QED BY <1>1, <1>3, <1>4

LEMMA OrderlyUnbegun ==
  ASSUME NEW h, NEW g, NEW q, Unbegun(h, g, q), NEW v \in Seq(Messages),
         NEW l \in Seq(Messages \cup Hosted), Orderly(g, v, l)
  PROVE  Orderly(h, v, l)
<1>1. ASSUME NEW k \in DOMAIN h, NEW m \in Messages, Shows(h, k, <<"reply", m>>)
      PROVE  \E n \in 1..Len(v) : /\ m = v[n] /\ ~Told(h, m, k)
                                  /\ \A i \in 1..(n - 1) : Told(h, v[i], k)
  <2>1. To(k, q, 1) \in DOMAIN g /\ Shows(g, To(k, q, 1), <<"reply", m>>)
    BY <1>1, UnbegunFacts
  <2>2. PICK n \in 1..Len(v) : /\ m = v[n] /\ ~Told(g, m, To(k, q, 1))
                               /\ \A i \in 1..(n - 1) : Told(g, v[i], To(k, q, 1))
    BY <2>1 DEF Orderly
  <2> QED BY <2>2, UnbegunFacts
<1>2. ASSUME NEW k \in DOMAIN h, NEW x \in 1..Len(l), NEW i \in 1..Len(v),
             Shows(h, k, <<"cast", x>>), l[x] = v[i]
      PROVE  Told(h, v[i], k)
  <2>1. To(k, q, 1) \in DOMAIN g /\ Shows(g, To(k, q, 1), <<"cast", x>>)
    BY <1>2, UnbegunFacts
  <2>2. Told(g, v[i], To(k, q, 1))
    BY <1>2, <2>1 DEF Orderly
  <2> QED BY <2>2, UnbegunFacts
<1> QED BY <1>1, <1>2 DEF Orderly

LEMMA TalkUnbegun ==
  ASSUME NEW h, NEW g, NEW q, Unbegun(h, g, q)
  PROVE  /\ \A v \in Seq(Messages) : AllTold(g, v) => AllTold(h, v)
         /\ Solid(g) => Solid(h)
         /\ \A p : SolidTo(g, p) => SolidTo(h, p)
<1>1. \A v \in Seq(Messages) : AllTold(g, v) => AllTold(h, v)
  BY UnbegunFacts DEF AllTold
<1>2. \A x, y : Reaches(g, x, y) => Reaches(h, x, y)
  BY UnbegunFacts DEF Reaches
<1>3. Solid(g) => Solid(h)
  BY <1>2, UnbegunFacts DEF Solid
<1>4. \A p : SolidTo(g, p) => SolidTo(h, p)
  BY <1>2, UnbegunFacts DEF SolidTo
<1> QED BY <1>1, <1>3, <1>4

\* h is g and then the line of i.
Plus(h, g, i) ==
  /\ h \in Seq(Pieces) /\ g \in Seq(Pieces) /\ Len(h) = Len(g) + 2
  /\ \A k \in 1..Len(g) : h[k] = g[k]
  /\ h[Len(g) + 1] = [item |-> i, end |-> FALSE]
  /\ h[Len(g) + 2] = [item |-> i, end |-> TRUE]

LEMMA PlusFacts ==
  ASSUME NEW h, NEW g, NEW i, Plus(h, g, i)
  PROVE  /\ Len(g) \in Nat /\ DOMAIN g = 1..Len(g) /\ DOMAIN h = 1..(Len(g) + 2)
         /\ \A k \in DOMAIN g : k \in DOMAIN h /\ k < Len(g) + 2
         /\ \A k \in DOMAIN g : \A x : Shows(h, k, x) <=> Shows(g, k, x)
         /\ \A k \in DOMAIN h : \A x : Shows(h, k, x) =>
              k \in DOMAIN g \/ (k = Len(g) + 2 /\ x = i)
         /\ Shows(h, Len(g) + 2, i)
         /\ \A m : \A k \in DOMAIN g : Told(h, m, k) <=> Told(g, m, k)
         /\ \A m : Told(h, m, Len(g) + 2) <=> \E k \in DOMAIN g : Shows(g, k, <<"reply", m>>)
<1>1. /\ Len(g) \in Nat /\ DOMAIN g = 1..Len(g) /\ DOMAIN h = 1..(Len(g) + 2)
      /\ \A k \in DOMAIN g : k \in DOMAIN h /\ k < Len(g) + 2
  BY DEF Plus
<1>2. \A k \in DOMAIN g : \A x : Shows(h, k, x) <=> Shows(g, k, x)
  BY <1>1 DEF Plus, Shows
<1>3. ASSUME NEW k \in DOMAIN h, NEW x, Shows(h, k, x)
      PROVE  k \in DOMAIN g \/ (k = Len(g) + 2 /\ x = i)
  <2>1. h[k].end /\ h[k].item = x
    BY <1>3 DEF Shows
  <2>2. k # Len(g) + 1
    BY <2>1 DEF Plus
  <2>3. k = Len(g) + 2 => x = i
    BY <2>1 DEF Plus
  <2> QED BY <1>1, <2>2, <2>3
<1>4. Shows(h, Len(g) + 2, i)
  BY <1>1 DEF Plus, Shows
<1>5. ASSUME NEW m, NEW k \in DOMAIN g PROVE Told(h, m, k) <=> Told(g, m, k)
  <2>1. \A j \in DOMAIN h : j < k => j \in DOMAIN g
    BY <1>1
  <2> QED BY <1>1, <1>2, <2>1 DEF Told
<1>6. ASSUME NEW m
      PROVE  Told(h, m, Len(g) + 2) <=> \E k \in DOMAIN g : Shows(g, k, <<"reply", m>>)
  <2>1. \A j \in DOMAIN h : j < Len(g) + 2 /\ Shows(h, j, <<"reply", m>>) => j \in DOMAIN g
    BY <1>1, <1>3
  <2> QED BY <1>1, <1>2, <2>1 DEF Told
<1> QED BY <1>1, <1>2, <1>3, <1>4, <1>5, <1>6

LEMMA RisingReply ==
  ASSUME NEW h, NEW g, NEW m, Plus(h, g, <<"reply", m>>), NEW p, Rising(g, p)
  PROVE  Rising(h, p)
<1>1. \A k \in DOMAIN h, x \in Nat :
        Shows(h, k, <<"cast", x>>) => k \in DOMAIN g /\ Shows(g, k, <<"cast", x>>)
  <2>1. \A x : <<"cast", x>> # <<"reply", m>>
    OBVIOUS
  <2> QED BY <2>1, PlusFacts
<1> QED BY <1>1 DEF Rising

\* The next broadcast is written.
LEMMA RisingCast ==
  ASSUME NEW p \in Nat, NEW h, NEW g, Plus(h, g, <<"cast", p + 1>>), Rising(g, p)
  PROVE  Rising(h, p + 1)
<1>1. \A k \in DOMAIN h, x \in Nat :
        Shows(h, k, <<"cast", x>>) =>
          \/ k \in DOMAIN g /\ Shows(g, k, <<"cast", x>>) /\ x \in 1..p
          \/ k = Len(g) + 2 /\ x = p + 1
  <2>1. \A x : <<"cast", x>> = <<"cast", p + 1>> => x = p + 1
    OBVIOUS
  <2>2. \A k \in DOMAIN h, x \in Nat :
          Shows(h, k, <<"cast", x>>) =>
            \/ k \in DOMAIN g /\ Shows(g, k, <<"cast", x>>)
            \/ k = Len(g) + 2 /\ x = p + 1
    BY <2>1, PlusFacts
  <2> QED BY <2>2 DEF Rising
<1>2. \A k \in DOMAIN g : k < Len(g) + 2 /\ ~(Len(g) + 2 < k)
  BY PlusFacts
<1>3. Len(g) \in Nat
  BY PlusFacts
<1>4. ASSUME NEW j \in DOMAIN h, NEW k \in DOMAIN h, NEW x \in Nat, NEW y \in Nat,
             j < k, Shows(h, j, <<"cast", x>>), Shows(h, k, <<"cast", y>>)
      PROVE  x < y
  <2>1. j \in DOMAIN g /\ Shows(g, j, <<"cast", x>>) /\ x \in 1..p
    BY <1>1, <1>2, <1>3, <1>4, PlusFacts
  <2>2. CASE k \in DOMAIN g /\ Shows(g, k, <<"cast", y>>)
    BY <1>4, <2>1, <2>2 DEF Rising
  <2>3. CASE y = p + 1
    BY <2>1, <2>3
  <2> QED BY <1>1, <1>4, <2>2, <2>3
<1>5. ASSUME NEW k \in DOMAIN h, NEW x \in Nat, Shows(h, k, <<"cast", x>>)
      PROVE  x \in 1..(p + 1)
  BY <1>1, <1>5
<1> QED BY <1>4, <1>5 DEF Rising

\* The log grows: nothing of g was beyond its end.
LEMMA OrderlyLogged ==
  ASSUME NEW g, NEW v \in Seq(Messages), NEW l \in Seq(Messages \cup Hosted),
         NEW x \in Messages \cup Hosted, NEW p \in Nat, p <= Len(l),
         Rising(g, p), Orderly(g, v, l)
  PROVE  Orderly(g, v, Append(l, x))
<1> DEFINE b == Append(l, x)
<1>1. Len(b) = Len(l) + 1 /\ Len(l) \in Nat /\ \A y \in 1..Len(l) : b[y] = l[y]
  OBVIOUS
<1> HIDE DEF b
<1>2. ASSUME NEW k \in DOMAIN g, NEW y \in 1..Len(b), NEW i \in 1..Len(v),
             Shows(g, k, <<"cast", y>>), b[y] = v[i]
      PROVE  Told(g, v[i], k)
  <2>1. y \in Nat /\ y \in 1..p
    BY <1>1, <1>2 DEF Rising
  <2>2. y \in 1..Len(l)
    BY <1>1, <2>1
  <2> QED BY <1>1, <1>2, <2>2 DEF Orderly
<1>3. Orderly(g, v, b)
  BY <1>2 DEF Orderly
<1> QED BY <1>3 DEF b

\* A request is handled that was not in the log.
LEMMA OrderlyServed ==
  ASSUME NEW g, NEW v \in Seq(Messages), NEW l \in Seq(Messages \cup Hosted),
         NEW m \in Messages, NEW p \in Nat, p <= Len(l),
         Rising(g, p), Orderly(g, v, l), \A y \in 1..Len(l) : l[y] # m
  PROVE  Orderly(g, Append(v, m), Append(l, m))
<1> DEFINE b == Append(l, m)
           w == Append(v, m)
<1>1. /\ Len(b) = Len(l) + 1 /\ Len(l) \in Nat /\ \A y \in 1..Len(l) : b[y] = l[y]
      /\ Len(w) = Len(v) + 1 /\ Len(v) \in Nat /\ w[Len(v) + 1] = m
      /\ \A i \in 1..Len(v) : w[i] = v[i]
  OBVIOUS
<1> HIDE DEF b, w
<1>2. ASSUME NEW k \in DOMAIN g, NEW y \in 1..Len(b), NEW i \in 1..Len(w),
             Shows(g, k, <<"cast", y>>), b[y] = w[i]
      PROVE  Told(g, w[i], k)
  <2>1. y \in Nat /\ y \in 1..p
    BY <1>1, <1>2 DEF Rising
  <2>2. y \in 1..Len(l)
    BY <1>1, <2>1
  <2>3. i \in 1..Len(v)
    BY <1>1, <1>2, <2>2
  <2> QED BY <1>1, <1>2, <2>2, <2>3 DEF Orderly
<1>3. ASSUME NEW k \in DOMAIN g, NEW o \in Messages, Shows(g, k, <<"reply", o>>)
      PROVE  \E n \in 1..Len(w) : /\ o = w[n] /\ ~Told(g, o, k)
                                  /\ \A i \in 1..(n - 1) : Told(g, w[i], k)
  <2>1. PICK n \in 1..Len(v) : /\ o = v[n] /\ ~Told(g, o, k)
                               /\ \A i \in 1..(n - 1) : Told(g, v[i], k)
    BY <1>3 DEF Orderly
  <2>2. n \in 1..Len(w) /\ \A i \in 1..(n - 1) : i \in 1..Len(v)
    BY <1>1
  <2> QED BY <1>1, <2>1, <2>2
<1>4. Orderly(g, w, b)
  BY <1>2, <1>3 DEF Orderly
<1> QED BY <1>4 DEF b, w

\* Its reply is written.
LEMMA OrderlyReply ==
  ASSUME NEW h, NEW g, NEW m \in Messages, Plus(h, g, <<"reply", m>>),
         NEW v \in Seq(Messages), NEW l,
         Orderly(g, Append(v, m), l), AllTold(g, v),
         \A k \in DOMAIN g : ~Shows(g, k, <<"reply", m>>)
  PROVE  Orderly(h, Append(v, m), l) /\ AllTold(h, Append(v, m))
<1> DEFINE w == Append(v, m)
           e == Len(g) + 2
<1>1. /\ Len(w) = Len(v) + 1 /\ Len(v) \in Nat /\ w[Len(v) + 1] = m
      /\ \A i \in 1..Len(v) : w[i] = v[i]
  OBVIOUS
<1>2. Orderly(g, w, l)
  OBVIOUS
<1>a. \A x, o : /\ <<"cast", x>> # <<"reply", m>>
                /\ <<"reply", o>> = <<"reply", m>> => o = m
  OBVIOUS
<1>3. /\ \A k \in DOMAIN g : k \in DOMAIN h
      /\ \A k \in DOMAIN g : \A x : Shows(h, k, x) <=> Shows(g, k, x)
      /\ \A k \in DOMAIN h : \A x : Shows(h, k, <<"cast", x>>) => k \in DOMAIN g
      /\ \A k \in DOMAIN h : \A o : Shows(h, k, <<"reply", o>>) => k \in DOMAIN g \/ (k = e /\ o = m)
      /\ Shows(h, e, <<"reply", m>>) /\ e \in DOMAIN h
      /\ \A o : \A k \in DOMAIN g : Told(h, o, k) <=> Told(g, o, k)
      /\ \A o : Told(h, o, e) <=> \E k \in DOMAIN g : Shows(g, k, <<"reply", o>>)
  BY <1>a, PlusFacts DEF Shows
<1> HIDE DEF w, e
<1>4. ASSUME NEW k \in DOMAIN h, NEW o \in Messages, Shows(h, k, <<"reply", o>>)
      PROVE  \E n \in 1..Len(w) : /\ o = w[n] /\ ~Told(h, o, k)
                                  /\ \A i \in 1..(n - 1) : Told(h, w[i], k)
  <2>1. CASE k \in DOMAIN g
    <3>1. Shows(g, k, <<"reply", o>>)
      BY <1>3, <1>4, <2>1
    <3>2. PICK n \in 1..Len(w) : /\ o = w[n] /\ ~Told(g, o, k)
                                 /\ \A i \in 1..(n - 1) : Told(g, w[i], k)
      BY <1>2, <2>1, <3>1 DEF Orderly
    <3> QED BY <1>3, <2>1, <3>2
  <2>2. CASE k = e /\ o = m
    <3>1. ~Told(h, m, e)
      BY <1>3
    <3>2. ASSUME NEW i \in 1..Len(v) PROVE Told(h, w[i], e)
      BY <1>1, <1>3 DEF AllTold
    <3>3. Len(v) + 1 \in 1..Len(w) /\ (Len(v) + 1) - 1 = Len(v)
      BY <1>1
    <3> QED BY <1>1, <2>2, <3>1, <3>2, <3>3
  <2> QED BY <1>3, <1>4, <2>1, <2>2
<1>5. ASSUME NEW k \in DOMAIN h, NEW y \in 1..Len(l), NEW i \in 1..Len(w),
             Shows(h, k, <<"cast", y>>), l[y] = w[i]
      PROVE  Told(h, w[i], k)
  <2>1. k \in DOMAIN g /\ Shows(g, k, <<"cast", y>>)
    BY <1>3, <1>5
  <2>2. Told(g, w[i], k)
    BY <1>2, <1>5, <2>1 DEF Orderly
  <2> QED BY <1>3, <2>1, <2>2
<1>6. AllTold(h, w)
  <2>1. ASSUME NEW i \in 1..Len(w) PROVE \E k \in DOMAIN h : Shows(h, k, <<"reply", w[i]>>)
    <3>0. i \in 1..Len(v) \/ i = Len(v) + 1
      BY <1>1
    <3>1. CASE i \in 1..Len(v)
      BY <1>1, <1>3, <3>1 DEF AllTold
    <3>2. CASE i = Len(v) + 1
      <4>1. w[i] = m
        BY <1>1, <3>2
      <4>2. e \in DOMAIN h /\ Shows(h, e, <<"reply", m>>)
        BY <1>3
      <4> QED BY <4>1, <4>2
    <3> QED BY <3>0, <3>1, <3>2
  <2> QED BY <2>1 DEF AllTold
<1>7. Orderly(h, w, l)
  BY <1>4, <1>5 DEF Orderly
<1> QED BY <1>6, <1>7 DEF w

\* A broadcast is written when every request that was handled has its reply.
LEMMA OrderlyCast ==
  ASSUME NEW h, NEW g, NEW p \in Nat, Plus(h, g, <<"cast", p>>),
         NEW v \in Seq(Messages), NEW l, Orderly(g, v, l), AllTold(g, v)
  PROVE  Orderly(h, v, l) /\ AllTold(h, v)
<1> DEFINE e == Len(g) + 2
<1>a. \A x, o : <<"reply", o>> # <<"cast", p>>
  OBVIOUS
<1>3. /\ \A k \in DOMAIN g : k \in DOMAIN h
      /\ \A k \in DOMAIN g : \A x : Shows(h, k, x) <=> Shows(g, k, x)
      /\ \A k \in DOMAIN h : \A o : Shows(h, k, <<"reply", o>>) => k \in DOMAIN g
      /\ \A k \in DOMAIN h : \A x : Shows(h, k, x) => k \in DOMAIN g \/ k = e
      /\ \A o : \A k \in DOMAIN g : Told(h, o, k) <=> Told(g, o, k)
      /\ \A o : Told(h, o, e) <=> \E k \in DOMAIN g : Shows(g, k, <<"reply", o>>)
  BY <1>a, PlusFacts
<1> HIDE DEF e
<1>4. ASSUME NEW k \in DOMAIN h, NEW o \in Messages, Shows(h, k, <<"reply", o>>)
      PROVE  \E n \in 1..Len(v) : /\ o = v[n] /\ ~Told(h, o, k)
                                  /\ \A i \in 1..(n - 1) : Told(h, v[i], k)
  <2>1. k \in DOMAIN g /\ Shows(g, k, <<"reply", o>>)
    BY <1>3, <1>4
  <2>2. PICK n \in 1..Len(v) : /\ o = v[n] /\ ~Told(g, o, k)
                               /\ \A i \in 1..(n - 1) : Told(g, v[i], k)
    BY <2>1 DEF Orderly
  <2> QED BY <1>3, <2>1, <2>2
<1>5. ASSUME NEW k \in DOMAIN h, NEW y \in 1..Len(l), NEW i \in 1..Len(v),
             Shows(h, k, <<"cast", y>>), l[y] = v[i]
      PROVE  Told(h, v[i], k)
  <2>1. CASE k \in DOMAIN g
    <3>1. Shows(g, k, <<"cast", y>>)
      BY <1>3, <1>5, <2>1
    <3>2. Told(g, v[i], k)
      BY <1>5, <2>1, <3>1 DEF Orderly
    <3> QED BY <1>3, <2>1, <3>2
  <2>2. CASE k = e
    BY <1>3, <2>2 DEF AllTold
  <2> QED BY <1>3, <1>5, <2>1, <2>2
<1>6. AllTold(h, v)
  BY <1>3 DEF AllTold
<1> QED BY <1>4, <1>5, <1>6 DEF Orderly

LEMMA SolidReply ==
  ASSUME NEW h, NEW g, NEW m, Plus(h, g, <<"reply", m>>), NEW p, SolidTo(g, p)
  PROVE  SolidTo(h, p)
<1>1. \A x : <<"cast", x>> # <<"reply", m>>
  OBVIOUS
<1>2. /\ \A k \in DOMAIN h : \A x : Shows(h, k, <<"cast", x>>) => k \in DOMAIN g /\ Shows(g, k, <<"cast", x>>)
      /\ \A k \in DOMAIN g : \A x : Shows(g, k, x) => k \in DOMAIN h /\ Shows(h, k, x)
  BY <1>1, PlusFacts
<1> QED BY <1>2 DEF SolidTo, Reaches

LEMMA SolidCast ==
  ASSUME NEW p \in Nat, NEW h, NEW g, Plus(h, g, <<"cast", p + 1>>), SolidTo(g, p)
  PROVE  SolidTo(h, p + 1)
<1>1. \A x : <<"cast", x>> = <<"cast", p + 1>> => x = p + 1
  OBVIOUS
<1>2. /\ \A k \in DOMAIN h : \A x : Shows(h, k, <<"cast", x>>) =>
           (k \in DOMAIN g /\ Shows(g, k, <<"cast", x>>)) \/ x = p + 1
      /\ \A k \in DOMAIN g : \A x : Shows(g, k, x) => k \in DOMAIN h /\ Shows(h, k, x)
      /\ Shows(h, Len(g) + 2, <<"cast", p + 1>>)
  BY <1>1, PlusFacts
<1>3. Len(g) + 2 \in DOMAIN h
  BY <1>2 DEF Shows
<1>4. ASSUME NEW k \in DOMAIN h, NEW x \in Nat, Shows(h, k, <<"cast", x>>), NEW z \in x..(p + 1)
      PROVE  \E j \in DOMAIN h : Shows(h, j, <<"cast", z>>)
  <2>1. CASE z = p + 1
    BY <1>2, <1>3, <2>1
  <2>2. CASE z # p + 1
    <3>1. z \in x..p /\ x # p + 1
      BY <2>2
    <3>2. k \in DOMAIN g /\ Shows(g, k, <<"cast", x>>)
      BY <1>2, <1>4, <3>1
    <3>3. PICK j \in DOMAIN g : Shows(g, j, <<"cast", z>>)
      BY <3>1, <3>2 DEF SolidTo, Reaches
    <3> QED BY <1>2, <3>3
  <2> QED BY <2>1, <2>2
<1> QED BY <1>4 DEF SolidTo, Reaches

LEMMA SolidFromTo ==
  ASSUME NEW g, NEW p \in Nat, Rising(g, p), SolidTo(g, p)
  PROVE  Solid(g)
<1> SUFFICES ASSUME NEW j \in DOMAIN g, NEW k \in DOMAIN g, NEW x \in Nat, NEW y \in Nat,
                    Shows(g, j, <<"cast", x>>), Shows(g, k, <<"cast", y>>),
                    NEW z \in x..y
             PROVE  \E i \in DOMAIN g : Shows(g, i, <<"cast", z>>)
  BY DEF Solid, Reaches
<1>1. y \in 1..p
  BY DEF Rising
<1>2. z \in x..p
  BY <1>1
<1> QED BY <1>2 DEF SolidTo, Reaches

-----------------------------------------------------------------------------
(* Lines on their way to a client.                                         *)

LEMMA AlternatesPlus ==
  ASSUME NEW h, NEW f, NEW i, Plus(h, f, i), Alternates(f), LastEnds(f)
  PROVE  Alternates(h) /\ LastEnds(h)
<1> DEFINE n == Len(f)
<1>1. /\ n \in Nat /\ Len(h) = n + 2 /\ h \in Seq(Pieces) /\ f \in Seq(Pieces)
      /\ \A k \in 1..n : h[k] = f[k]
      /\ h[n + 1] = [item |-> i, end |-> FALSE] /\ h[n + 2] = [item |-> i, end |-> TRUE]
  BY DEF Plus
<1>2. f = <<>> <=> n = 0
  BY <1>1
<1>3. n = 0 \/ f[n].end
  BY <1>2 DEF LastEnds
<1>4. n = 0 \/ ~f[1].end
  BY <1>2 DEF Alternates
<1>5. \A k \in 1..(n - 1) : IF f[k].end THEN ~f[k + 1].end
                            ELSE f[k + 1] = [item |-> f[k].item, end |-> TRUE]
  BY DEF Alternates
<1> HIDE DEF n
<1>6. ~h[1].end
  <2>1. CASE n = 0
    BY <1>1, <2>1
  <2>2. CASE n # 0
    <3>1. 1 \in 1..n
      BY <1>1, <2>2
    <3> QED BY <1>1, <1>4, <2>2, <3>1
  <2> QED BY <2>1, <2>2
<1>7. ASSUME NEW k \in 1..(Len(h) - 1)
      PROVE  IF h[k].end THEN ~h[k + 1].end ELSE h[k + 1] = [item |-> h[k].item, end |-> TRUE]
  <2>1. CASE k \in 1..(n - 1)
    <3>1. k \in 1..n /\ k + 1 \in 1..n
      BY <1>1, <2>1
    <3>2. h[k] = f[k] /\ h[k + 1] = f[k + 1]
      BY <1>1, <3>1
    <3> QED BY <1>5, <2>1, <3>2
  <2>2. CASE k = n
    <3>1. k \in 1..n /\ n # 0
      BY <1>1, <2>2
    <3>2. h[k].end /\ ~h[k + 1].end
      BY <1>1, <1>3, <2>2, <3>1
    <3> QED BY <3>2
  <2>3. CASE k = n + 1
    <3>1. k + 1 = n + 2
      BY <1>1, <2>3
    <3>2. ~h[k].end /\ h[k].item = i /\ h[k + 1] = [item |-> i, end |-> TRUE]
      BY <1>1, <2>3, <3>1
    <3> QED BY <3>2
  <2> QED BY <1>1, <2>1, <2>2, <2>3
<1>8. h[Len(h)].end
  BY <1>1
<1> QED BY <1>6, <1>7, <1>8 DEF Alternates, LastEnds

LEMMA AlternatesFront ==
  ASSUME NEW h, NEW f, Front(h, f), Alternates(f)
  PROVE  Alternates(h)
<1>1. /\ Len(h) \in Nat /\ Len(f) \in Nat /\ Len(h) <= Len(f)
      /\ \A k \in 1..Len(h) : h[k] = f[k]
  BY DEF Front
<1>2. (h = <<>> <=> Len(h) = 0) /\ (f = <<>> <=> Len(f) = 0)
  BY DEF Front
<1>3. h # <<>> => ~h[1].end
  BY <1>1, <1>2 DEF Alternates
<1>4. \A k \in 1..(Len(h) - 1) : IF h[k].end THEN ~h[k + 1].end
                                 ELSE h[k + 1] = [item |-> h[k].item, end |-> TRUE]
  <2>1. \A k \in 1..(Len(h) - 1) : /\ k \in 1..(Len(f) - 1)
                                   /\ h[k] = f[k] /\ h[k + 1] = f[k + 1]
    BY <1>1
  <2>2. \A k \in 1..(Len(f) - 1) : IF f[k].end THEN ~f[k + 1].end
                                   ELSE f[k + 1] = [item |-> f[k].item, end |-> TRUE]
    BY DEF Alternates
  <2> QED BY <2>1, <2>2
<1> QED BY <1>3, <1>4 DEF Alternates

\* f is the n pieces of one read, of which only the last ends a line, and then r.
OneRead(f, n, r) ==
  /\ f \in Seq(Pieces) /\ r \in Seq(Pieces) /\ n \in Nat \ {0} /\ Len(f) = n + Len(r)
  /\ \A k \in 1..(n - 1) : ~f[k].end
  /\ f[n].end
  /\ \A k \in 1..Len(r) : r[k] = f[n + k]

\* Where beginnings and ends take turns it is a whole line.
LEMMA AlternatesOne ==
  ASSUME NEW f, NEW n, NEW r, OneRead(f, n, r), Alternates(f)
  PROVE  /\ n = 2 /\ f[1] = [item |-> f[2].item, end |-> FALSE]
         /\ f[2] = [item |-> f[2].item, end |-> TRUE]
<1>1. /\ f \in Seq(Pieces) /\ Len(f) \in Nat /\ n \in Nat \ {0} /\ n <= Len(f)
      /\ \A k \in 1..(n - 1) : ~f[k].end
      /\ f[n].end
  BY DEF OneRead
<1>2. f # <<>>
  BY <1>1
<1>3. ~f[1].end /\ n # 1
  BY <1>1, <1>2 DEF Alternates
<1>4. 1 \in 1..(Len(f) - 1) /\ 1 \in 1..Len(f) /\ 2 \in 1..Len(f) /\ 1 + 1 = 2
  BY <1>1, <1>3
<1>5. f[2] = [item |-> f[1].item, end |-> TRUE]
  <2>1. IF f[1].end THEN ~f[1 + 1].end ELSE f[1 + 1] = [item |-> f[1].item, end |-> TRUE]
    BY <1>4 DEF Alternates
  <2> QED BY <1>3, <1>4, <2>1
<1>6. n = 2
  <2>1. ~(2 \in 1..(n - 1))
    BY <1>1, <1>5
  <2> QED BY <1>1, <1>3, <2>1
<1>7. f[1] \in Pieces
  BY <1>1, <1>4
<1>8. f[1] = [item |-> f[1].item, end |-> FALSE]
  BY <1>3, <1>7 DEF Pieces
<1> QED BY <1>5, <1>6, <1>8

LEMMA AlternatesRest ==
  ASSUME NEW f, NEW r, OneRead(f, 2, r), Alternates(f)
  PROVE  Alternates(r) /\ (LastEnds(f) => LastEnds(r))
<1>1. /\ f \in Seq(Pieces) /\ r \in Seq(Pieces) /\ Len(r) \in Nat /\ Len(f) = 2 + Len(r)
      /\ f[2].end
      /\ \A k \in 1..Len(r) : r[k] = f[2 + k]
  BY DEF OneRead
<1>2. \A k \in 1..(Len(f) - 1) : IF f[k].end THEN ~f[k + 1].end
                                 ELSE f[k + 1] = [item |-> f[k].item, end |-> TRUE]
  BY DEF Alternates
<1>3. ASSUME r # <<>> PROVE ~r[1].end
  <2>1. 1 \in 1..Len(r) /\ 2 \in 1..(Len(f) - 1) /\ 2 + 1 = 3
    BY <1>1, <1>3
  <2>2. ~f[3].end
    BY <1>1, <1>2, <2>1
  <2> QED BY <1>1, <2>1, <2>2
<1>4. ASSUME NEW k \in 1..(Len(r) - 1)
      PROVE  IF r[k].end THEN ~r[k + 1].end ELSE r[k + 1] = [item |-> r[k].item, end |-> TRUE]
  <2>1. /\ k \in 1..Len(r) /\ k + 1 \in 1..Len(r) /\ 2 + k \in 1..(Len(f) - 1)
        /\ (2 + k) + 1 = 2 + (k + 1)
    BY <1>1
  <2>2. r[k] = f[2 + k] /\ r[k + 1] = f[2 + (k + 1)]
    BY <1>1, <2>1
  <2>3. IF f[2 + k].end THEN ~f[(2 + k) + 1].end
        ELSE f[(2 + k) + 1] = [item |-> f[2 + k].item, end |-> TRUE]
    BY <1>2, <2>1
  <2> QED BY <2>1, <2>2, <2>3
<1>5. ASSUME LastEnds(f), r # <<>> PROVE r[Len(r)].end
  <2>1. f # <<>> /\ Len(r) \in 1..Len(r)
    BY <1>1, <1>5
  <2> QED BY <1>1, <1>5, <2>1 DEF LastEnds
<1> QED BY <1>3, <1>4, <1>5 DEF Alternates, LastEnds

LEMMA HeardFacts ==
  ASSUME NEW s \in Seq(Items)
  PROVE  /\ Heard(s) \in Seq(Pieces) /\ Len(Heard(s)) = Len(s) /\ Len(s) \in Nat
         /\ \A k \in 1..Len(s) : Heard(s)[k] = [item |-> s[k], end |-> TRUE] /\ s[k] \in Items
<1>1. \A k \in 1..Len(s) : s[k] \in Items /\ [item |-> s[k], end |-> TRUE] \in Pieces
  BY DEF Pieces
<1>2. Len(s) \in Nat
  OBVIOUS
<1>3. Heard(s) \in [1..Len(s) -> Pieces]
  BY <1>1 DEF Heard
<1>4. Heard(s) \in Seq(Pieces)
  BY <1>2, <1>3
<1>5. DOMAIN Heard(s) = 1..Len(s)
  BY DEF Heard
<1>6. Len(Heard(s)) = Len(s)
  BY <1>2, <1>4, <1>5
<1> QED BY <1>1, <1>2, <1>4, <1>6 DEF Heard

LEMMA ViewTypes ==
  ASSUME Typing, NEW c \in Conns
  PROVE  /\ rdpart[c] \in Seq(Pieces) /\ down[c] \in Seq(Pieces) /\ out[c] \in Seq(Pieces)
         /\ Feed(c) \in Seq(Pieces) /\ Heard(got[c]) \in Seq(Pieces)
         /\ Stream(c) \in Seq(Pieces)
         /\ got[c] \in Seq(Items) /\ served[c] \in Seq(Messages)
         /\ log \in Seq(Messages \cup Hosted) /\ pos[c] \in Nat /\ Len(log) \in Nat
<1>1. /\ rdpart[c] \in Seq(Pieces) /\ down[c] \in Seq(Pieces) /\ out[c] \in Seq(Pieces)
      /\ got[c] \in Seq(Items) /\ served[c] \in Seq(Messages)
      /\ log \in Seq(Messages \cup Hosted) /\ pos[c] \in Nat
  BY DEF Typing
<1>2. Feed(c) \in Seq(Pieces)
  BY <1>1 DEF Feed
<1>3. Heard(got[c]) \in Seq(Pieces)
  BY <1>1, HeardFacts
<1>4. Stream(c) \in Seq(Pieces)
  BY <1>2, <1>3 DEF Stream
<1>5. Len(log) \in Nat
  BY <1>1
<1> QED BY <1>1, <1>2, <1>3, <1>4, <1>5

-----------------------------------------------------------------------------
(* What a step does to the flow to one client.                             *)

\* Nothing flows at the start.
LEMMA FlowInit == Init => \A c \in Conns : Flow(c)
<1> SUFFICES ASSUME Init, NEW c \in Conns PROVE Flow(c)
  OBVIOUS
<1>1. /\ rdpart[c] = <<>> /\ down[c] = <<>> /\ out[c] = <<>> /\ got[c] = <<>>
      /\ served[c] = <<>> /\ client[c] = "none" /\ pos[c] = 0 /\ Len(log) = 0
  BY DEF Init
<1>2. Feed(c) = <<>> /\ NoEnd(rdpart[c])
  BY <1>1 DEF Feed, NoEnd
<1>3. Stream(c) = Heard(<<>>) /\ DOMAIN Heard(<<>>) = {}
  BY <1>1 DEF Stream, Listens, Heard
<1>4. Rising(Stream(c), pos[c]) /\ Solid(Stream(c))
  BY <1>3 DEF Rising, Solid
<1>5. Orderly(Stream(c), served[c], log)
  BY <1>3 DEF Orderly
<1> QED BY <1>1, <1>2, <1>4, <1>5 DEF Flow, Unbroken, Lively

\* Nothing of the flow to d changes, although its connection may end.
Calm(d) ==
  /\ client'[d] = client[d] /\ got'[d] = got[d] /\ served'[d] = served[d]
  /\ pos'[d] = pos[d] /\ NoEnd(rdpart'[d])
  /\ Listens(d) \/ task[d] = "none" => (Feed(d))' = Feed(d)
  /\ task'[d] = "none" => task[d] = "none"
  /\ task'[d] # "ended" => task[d] # "ended"
  /\ <<d, "receive">> \in cut' <=> <<d, "receive">> \in cut
  /\ d \in lagged' <=> d \in lagged

LogGrows == log' = log \/ \E x \in Messages \cup Hosted : log' = Append(log, x)

LEMMA CalmFlow ==
  ASSUME Typing, NEW d \in Conns, Flow(d), Calm(d), LogGrows
  PROVE  Flow(d)'
<1>0. /\ Feed(d) \in Seq(Pieces) /\ Stream(d) \in Seq(Pieces)
      /\ served[d] \in Seq(Messages) /\ log \in Seq(Messages \cup Hosted)
      /\ pos[d] \in Nat /\ Len(log) \in Nat
  BY ViewTypes
<1>1. /\ client'[d] = client[d] /\ got'[d] = got[d] /\ served'[d] = served[d]
      /\ pos'[d] = pos[d] /\ NoEnd(rdpart'[d])
      /\ Listens(d) \/ task[d] = "none" => (Feed(d))' = Feed(d)
      /\ task'[d] = "none" => task[d] = "none"
      /\ task'[d] # "ended" => task[d] # "ended"
      /\ <<d, "receive">> \in cut' <=> <<d, "receive">> \in cut
      /\ d \in lagged' <=> d \in lagged
  BY DEF Calm
<1>2. (Stream(d))' = Stream(d)
  BY <1>1 DEF Stream, Listens
<1>3. (task'[d] = "none") => (Feed(d))' = <<>> /\ served'[d] = <<>> /\ got'[d] = <<>>
  BY <1>1 DEF Flow
<1>4. Len(log') \in Nat /\ Len(log) <= Len(log')
  <2>1. CASE log' = log
    BY <1>0, <2>1
  <2>2. CASE \E x \in Messages \cup Hosted : log' = Append(log, x)
    BY <1>0, <2>2
  <2> QED BY <2>1, <2>2 DEF LogGrows
<1>5. pos'[d] <= Len(log') /\ pos[d] <= Len(log)
  BY <1>0, <1>1, <1>4 DEF Flow
<1>6. Rising(Stream(d), pos[d])
  BY DEF Flow
<1>7. ASSUME Whole(d) PROVE Orderly(Stream(d), served[d], log')
  <2>1. Orderly(Stream(d), served[d], log)
    BY <1>7 DEF Flow, Unbroken
  <2>2. CASE log' = log
    BY <2>1, <2>2
  <2>3. ASSUME NEW x \in Messages \cup Hosted, log' = Append(log, x)
        PROVE  Orderly(Stream(d), served[d], log')
    <3>1. Orderly(Stream(d), served[d], Append(log, x))
      BY <1>0, <1>5, <1>6, <2>1, OrderlyLogged
    <3> QED BY <2>3, <3>1
  <2> QED BY <2>2, <2>3 DEF LogGrows
<1>8. Whole(d)' <=> Whole(d)
  BY <1>1 DEF Whole
<1>9. Lively(d)' => Lively(d)
  BY <1>1 DEF Lively
<1>10. ASSUME Whole(d) PROVE Unbroken(d)'
  <2>1. /\ client[d] # "garbled"
        /\ client[d] = "open" => Alternates(Feed(d))
        /\ d \notin lagged => Solid(Stream(d))
        /\ Lively(d) => /\ LastEnds(Feed(d))
                        /\ AllTold(Stream(d), served[d])
                        /\ d \notin lagged => SolidTo(Stream(d), pos[d])
    BY <1>10 DEF Flow, Unbroken
  <2>2. client'[d] = "open" => Alternates(Feed(d))'
    BY <1>1, <2>1 DEF Listens
  <2>3. d \notin lagged' => Solid((Stream(d))')
    BY <1>1, <1>2, <2>1
  <2>4. ASSUME Lively(d)'
        PROVE  /\ LastEnds(Feed(d))'
               /\ AllTold((Stream(d))', served'[d])
               /\ d \notin lagged' => SolidTo((Stream(d))', pos'[d])
    <3>1. (Feed(d))' = Feed(d) /\ Lively(d)
      BY <1>1, <1>9, <2>4 DEF Lively, Listens
    <3> QED BY <1>1, <1>2, <2>1, <3>1
  <2>5. Orderly((Stream(d))', served'[d], log')
    BY <1>1, <1>2, <1>7, <1>10
  <2> QED BY <1>1, <2>1, <2>2, <2>3, <2>4, <2>5 DEF Unbroken
<1>11. Rising((Stream(d))', pos'[d])
  BY <1>1, <1>2, <1>6
<1> QED BY <1>1, <1>3, <1>5, <1>8, <1>10, <1>11 DEF Flow

\* The end of the flow is lost, with its reader or its writer.
Loses(d) ==
  /\ got'[d] = got[d] /\ served'[d] = served[d] /\ pos'[d] = pos[d]
  /\ NoEnd(rdpart'[d])
  /\ Front((Stream(d))', Stream(d))
  /\ client'[d] = "open" => client[d] = "open" /\ Front((Feed(d))', Feed(d))
  /\ task'[d] = "none" => task[d] = "none" /\ (Feed(d))' = <<>>
  /\ ~Lively(d)'
  /\ Whole(d)' => Whole(d) /\ client'[d] # "garbled"
  /\ d \in lagged' <=> d \in lagged
  /\ log' = log

LEMMA LosesFlow ==
  ASSUME Typing, NEW d \in Conns, Flow(d), Loses(d)
  PROVE  Flow(d)'
<1>0. /\ Feed(d) \in Seq(Pieces) /\ Stream(d) \in Seq(Pieces)
      /\ served[d] \in Seq(Messages) /\ log \in Seq(Messages \cup Hosted)
      /\ pos[d] \in Nat /\ Len(log) \in Nat
  BY ViewTypes
<1>1. /\ got'[d] = got[d] /\ served'[d] = served[d] /\ pos'[d] = pos[d]
      /\ NoEnd(rdpart'[d]) /\ log' = log /\ ~Lively(d)'
      /\ client'[d] = "open" => client[d] = "open" /\ Front((Feed(d))', Feed(d))
      /\ task'[d] = "none" => task[d] = "none" /\ (Feed(d))' = <<>>
      /\ Whole(d)' => Whole(d) /\ client'[d] # "garbled"
      /\ d \in lagged' <=> d \in lagged
  BY DEF Loses
<1>2. PICK h : h = (Stream(d))'
  OBVIOUS
<1>3. Front(h, Stream(d))
  BY <1>2 DEF Loses
<1>4. Rising(Stream(d), pos[d]) /\ pos[d] <= Len(log)
  BY DEF Flow
<1>5. Rising(h, pos[d])
  BY <1>3, <1>4, FrontFacts, RisingWithout
<1>6. task'[d] = "none" => (Feed(d))' = <<>> /\ served'[d] = <<>> /\ got'[d] = <<>>
  BY <1>1 DEF Flow
<1>7. ASSUME Whole(d)' PROVE Unbroken(d)'
  <2>1. /\ client'[d] # "garbled"
        /\ client[d] = "open" => Alternates(Feed(d))
        /\ d \notin lagged => Solid(Stream(d))
        /\ Orderly(Stream(d), served[d], log)
    BY <1>1, <1>7 DEF Flow, Unbroken
  <2>2. client'[d] = "open" => Alternates((Feed(d))')
    BY <1>1, <2>1, AlternatesFront
  <2>3. d \notin lagged' => Solid(h)
    BY <1>1, <1>3, <1>4, <2>1, SolidFront
  <2>4. Orderly(h, served[d], log)
    BY <1>0, <1>3, <2>1, OrderlyFront
  <2> QED BY <1>1, <1>2, <2>1, <2>2, <2>3, <2>4 DEF Unbroken
<1>8. Rising((Stream(d))', pos'[d]) /\ pos'[d] <= Len(log')
  BY <1>1, <1>2, <1>4, <1>5
<1> QED BY <1>1, <1>6, <1>7, <1>8 DEF Flow

\* The reader loses some of it: only the order of the broadcasts is kept.
Spoils(d) ==
  /\ served'[d] = served[d] /\ pos'[d] = pos[d] /\ task'[d] = task[d]
  /\ task[d] = "none" => (Feed(d))' = <<>> /\ got'[d] = got[d]
  /\ NoEnd(rdpart'[d])
  /\ \E q, n : Without((Stream(d))', Stream(d), q, n)
  /\ ~Whole(d)'
  /\ log' = log

LEMMA SpoilsFlow ==
  ASSUME NEW d \in Conns, Flow(d), Spoils(d)
  PROVE  Flow(d)'
<1>1. /\ pos'[d] = pos[d] /\ task'[d] = task[d] /\ served'[d] = served[d]
      /\ task[d] = "none" => (Feed(d))' = <<>> /\ got'[d] = got[d]
      /\ NoEnd(rdpart'[d]) /\ ~Whole(d)' /\ log' = log
  BY DEF Spoils
<1>2. PICK h : h = (Stream(d))'
  OBVIOUS
<1>3. PICK q, n : Without(h, Stream(d), q, n)
  BY <1>2 DEF Spoils
<1>4. Rising(Stream(d), pos[d]) /\ pos[d] <= Len(log)
  BY DEF Flow
<1>5. Rising(h, pos[d])
  BY <1>3, <1>4, RisingWithout
<1> QED BY <1>1, <1>2, <1>4, <1>5 DEF Flow

\* The reader gets a line and keeps its item.
Hears(d) ==
  /\ client'[d] = client[d] /\ client[d] = "open"
  /\ served'[d] = served[d] /\ pos'[d] = pos[d] /\ task'[d] = task[d]
  /\ task[d] # "none"
  /\ NoEnd(rdpart'[d])
  /\ \E q : Unbegun((Stream(d))', Stream(d), q)
  /\ OneRead(Feed(d), 2, (Feed(d))')
  /\ UNCHANGED <<log, lagged, cut>>

LEMMA HearsFlow ==
  ASSUME Typing, NEW d \in Conns, Flow(d), Hears(d)
  PROVE  Flow(d)'
<1>0. served[d] \in Seq(Messages) /\ log \in Seq(Messages \cup Hosted)
  BY ViewTypes
<1>1. /\ client'[d] = client[d] /\ client[d] = "open"
      /\ served'[d] = served[d] /\ pos'[d] = pos[d] /\ task'[d] = task[d] /\ task[d] # "none"
      /\ NoEnd(rdpart'[d]) /\ log' = log /\ lagged' = lagged /\ cut' = cut
  BY DEF Hears
<1>2. PICK h : h = (Stream(d))'
  OBVIOUS
<1>3. PICK q : Unbegun(h, Stream(d), q)
  BY <1>2 DEF Hears
<1>4. Rising(Stream(d), pos[d]) /\ pos[d] <= Len(log)
  BY DEF Flow
<1>5. Rising(h, pos[d])
  BY <1>3, <1>4, RisingWithout DEF Unbegun
<1>6. PICK r : r = (Feed(d))'
  OBVIOUS
<1>7. OneRead(Feed(d), 2, r)
  BY <1>6 DEF Hears
<1>8. ASSUME Whole(d) PROVE Unbroken(d)'
  <2>1. /\ client[d] # "garbled" /\ Alternates(Feed(d))
        /\ Orderly(Stream(d), served[d], log)
        /\ d \notin lagged => Solid(Stream(d))
        /\ Lively(d) => /\ LastEnds(Feed(d))
                        /\ AllTold(Stream(d), served[d])
                        /\ d \notin lagged => SolidTo(Stream(d), pos[d])
    BY <1>1, <1>8 DEF Flow, Unbroken
  <2>2. Alternates(r) /\ (LastEnds(Feed(d)) => LastEnds(r))
    BY <1>7, <2>1, AlternatesRest
  <2>3. Orderly(h, served[d], log)
    BY <1>0, <1>3, <2>1, OrderlyUnbegun
  <2>4. /\ AllTold(Stream(d), served[d]) => AllTold(h, served[d])
        /\ Solid(Stream(d)) => Solid(h)
        /\ SolidTo(Stream(d), pos[d]) => SolidTo(h, pos[d])
    BY <1>0, <1>3, TalkUnbegun
  <2>5. Lively(d)' <=> Lively(d)
    BY <1>1 DEF Lively
  <2>6. /\ client'[d] # "garbled" /\ Alternates(r) /\ Orderly(h, served'[d], log')
        /\ d \notin lagged' => Solid(h)
        /\ Lively(d)' => /\ LastEnds(r) /\ AllTold(h, served'[d])
                         /\ d \notin lagged' => SolidTo(h, pos'[d])
    BY <1>1, <2>1, <2>2, <2>3, <2>4, <2>5
  <2> QED BY <1>2, <1>6, <2>6 DEF Unbroken
<1>9. Whole(d)' <=> Whole(d)
  BY <1>1 DEF Whole
<1>10. Rising((Stream(d))', pos'[d]) /\ pos'[d] <= Len(log')
  BY <1>1, <1>2, <1>4, <1>5
<1> QED BY <1>1, <1>8, <1>9, <1>10 DEF Flow

\* Nothing has flowed yet.
LEMMA EmptyFlow ==
  ASSUME NEW d \in Conns, Feed(d)' = <<>>, served'[d] = <<>>, got'[d] = <<>>,
         NoEnd(rdpart'[d]), pos'[d] <= Len(log'), Whole(d)' => client'[d] # "garbled"
  PROVE  Flow(d)'
<1>1. PICK h : h = (Stream(d))'
  OBVIOUS
<1>2. DOMAIN h = {}
  <2>1. Heard(<<>>) = <<>>
    BY DEF Heard
  <2>2. (Stream(d))' = <<>>
    BY <2>1 DEF Stream
  <2> QED BY <1>1, <2>2
<1>3. \A p : Rising(h, p) /\ Solid(h) /\ SolidTo(h, p)
  BY <1>2 DEF Rising, Solid, SolidTo
<1>4. PICK v, l : v = served'[d] /\ l = log'
  OBVIOUS
<1>5. Orderly(h, v, l)
  BY <1>2 DEF Orderly
<1>6. AllTold(h, v)
  BY <1>4 DEF AllTold
<1>7. Alternates(<<>>) /\ LastEnds(<<>>)
  BY DEF Alternates, LastEnds
<1>8. Whole(d)' => Unbroken(d)'
  BY <1>1, <1>3, <1>4, <1>5, <1>6, <1>7 DEF Unbroken
<1>9. Rising((Stream(d))', pos'[d])
  BY <1>1, <1>3
<1> QED BY <1>8, <1>9 DEF Flow

LEMMA PlusLine ==
  ASSUME NEW g \in Seq(Pieces), NEW i \in Items
  PROVE  Plus(g \o Line(i), g, i)
<1>1. Line(i) \in Seq(Pieces)
  BY DEF Line, Pieces
<1>2. Len(Line(i)) = 2 /\ Line(i)[1] = [item |-> i, end |-> FALSE] /\ Line(i)[2] = [item |-> i, end |-> TRUE]
  BY LineFacts
<1>3. PICK l : l = Line(i)
  OBVIOUS
<1>4. l \in Seq(Pieces) /\ Len(l) = 2 /\ 1 \in 1..Len(l) /\ 2 \in 1..Len(l)
  <2>1. Len(l) = 2
    BY <1>2, <1>3
  <2> QED BY <1>1, <1>3, <2>1
<1>5. /\ g \o l \in Seq(Pieces) /\ Len(g \o l) = Len(g) + Len(l)
      /\ \A k \in 1..Len(g) : (g \o l)[k] = g[k]
      /\ \A k \in 1..Len(l) : (g \o l)[Len(g) + k] = l[k]
  BY <1>4, JoinFacts
<1>6. Plus(g \o l, g, i)
  BY <1>2, <1>3, <1>4, <1>5 DEF Plus
<1> QED BY <1>3, <1>6

\* The task of d begins to write the line of i.
Writes(d, i) ==
  /\ out[d] = <<>> /\ out'[d] = Line(i)
  /\ rdpart'[d] = rdpart[d] /\ down'[d] = down[d] /\ got'[d] = got[d]
  /\ client'[d] = client[d] /\ Running(d) /\ Running(d)'
  /\ <<d, "receive">> \in cut' <=> <<d, "receive">> \in cut
  /\ d \in lagged' <=> d \in lagged

LEMMA WritesLine ==
  ASSUME Typing, NEW d \in Conns, NEW i \in Items, Writes(d, i)
  PROVE  /\ Plus((Feed(d))', Feed(d), i)
         /\ Listens(d) => Plus((Stream(d))', Stream(d), i)
         /\ ~Listens(d) => (Stream(d))' = Stream(d)
<1>1. PICK a, b, l : a = rdpart[d] /\ b = down[d] /\ l = Line(i)
  OBVIOUS
<1>2. PICK x : x = Heard(got[d])
  OBVIOUS
<1>3. a \in Seq(Pieces) /\ b \in Seq(Pieces) /\ l \in Seq(Pieces) /\ x \in Seq(Pieces)
  <2>1. l \in Seq(Pieces)
    BY <1>1 DEF Line, Pieces
  <2> QED BY <1>1, <1>2, <2>1, ViewTypes
<1>4. Feed(d) = a \o b
  <2>1. Feed(d) = a \o (b \o <<>>)
    BY <1>1 DEF Feed, Writes
  <2> QED BY <1>3, <2>1, NothingBefore
<1>5. (Feed(d))' = (a \o b) \o l
  <2>1. (Feed(d))' = a \o (b \o l)
    BY <1>1 DEF Feed, Writes
  <2> QED BY <1>3, <2>1, Associative
<1>6. a \o b \in Seq(Pieces) /\ x \o (a \o b) \in Seq(Pieces)
  BY <1>3
<1>7. Plus((Feed(d))', Feed(d), i)
  BY <1>1, <1>4, <1>5, <1>6, PlusLine
<1>8. ASSUME Listens(d)
      PROVE  Plus((Stream(d))', Stream(d), i)
  <2>1. Stream(d) = x \o (a \o b)
    BY <1>2, <1>4, <1>8 DEF Stream
  <2>2. (Stream(d))' = x \o ((a \o b) \o l)
    BY <1>2, <1>5, <1>8 DEF Stream, Listens, Writes
  <2>3. x \o ((a \o b) \o l) = (x \o (a \o b)) \o l
    BY <1>3, <1>6, Associative
  <2> QED BY <1>1, <1>6, <2>1, <2>2, <2>3, PlusLine
<1>9. ~Listens(d) => (Stream(d))' = Stream(d)
  BY DEF Stream, Listens, Writes
<1> QED BY <1>7, <1>8, <1>9

\* A request is handled: it was not in the log.
LEMMA AnswersFlow ==
  ASSUME Typing, NEW d \in Conns, Flow(d), NEW m \in Messages, Writes(d, <<"reply", m>>),
         log' = Append(log, m), \A y \in DOMAIN log : log[y] # m,
         served'[d] = Append(served[d], m), \A i \in DOMAIN served[d] : served[d][i] # m,
         pos'[d] = pos[d]
  PROVE  Flow(d)'
<1>0. /\ served[d] \in Seq(Messages) /\ log \in Seq(Messages \cup Hosted)
      /\ pos[d] \in Nat /\ Len(log) \in Nat
  BY ViewTypes
<1>1. PICK v, l, p : v = served[d] /\ l = log /\ p = pos[d]
  OBVIOUS
<1>2. PICK g, f : g = Stream(d) /\ f = Feed(d)
  OBVIOUS
<1>3. PICK h, e : h = (Stream(d))' /\ e = (Feed(d))'
  OBVIOUS
<1>4. /\ v \in Seq(Messages) /\ l \in Seq(Messages \cup Hosted) /\ p \in Nat
      /\ served'[d] = Append(v, m) /\ log' = Append(l, m) /\ pos'[d] = p
      /\ \A y \in 1..Len(l) : l[y] # m
      /\ \A i \in 1..Len(v) : v[i] # m
  BY <1>0, <1>1
<1>5. p <= Len(l) /\ Rising(g, p)
  BY <1>1, <1>2 DEF Flow
<1>6. <<"reply", m>> \in Items
  BY DEF Items
<1>7. /\ Plus(e, f, <<"reply", m>>)
      /\ Listens(d) => Plus(h, g, <<"reply", m>>)
      /\ ~Listens(d) => h = g
  BY <1>2, <1>3, <1>6, WritesLine
<1>8. /\ client'[d] = client[d] /\ Running(d) /\ Running(d)'
      /\ Whole(d)' <=> Whole(d)
      /\ d \in lagged' <=> d \in lagged
      /\ NoEnd(rdpart'[d])
  BY DEF Writes, Whole, Flow
<1>9. Rising(h, p)
  BY <1>5, <1>7, RisingReply
<1>10. p <= Len(Append(l, m))
  BY <1>4, <1>5
<1>11. ASSUME Whole(d) PROVE Unbroken(d)'
  <2>1. /\ client[d] # "garbled"
        /\ client[d] = "open" => Alternates(f)
        /\ Orderly(g, v, l)
        /\ d \notin lagged => Solid(g)
        /\ client[d] = "open" => /\ LastEnds(f)
                                 /\ AllTold(g, v)
                                 /\ d \notin lagged => SolidTo(g, p)
    BY <1>1, <1>2, <1>8, <1>11 DEF Flow, Unbroken, Lively, Running
  <2>2. Orderly(g, Append(v, m), Append(l, m))
    BY <1>4, <1>5, <2>1, OrderlyServed
  <2>3. ASSUME NEW k \in DOMAIN g PROVE ~Shows(g, k, <<"reply", m>>)
    BY <1>4, <2>1 DEF Orderly
  <2>4. ASSUME client[d] = "open"
        PROVE  /\ Alternates(e) /\ LastEnds(e)
               /\ Orderly(h, Append(v, m), Append(l, m)) /\ AllTold(h, Append(v, m))
               /\ d \notin lagged => SolidTo(h, p) /\ Solid(h)
    <3>1. Plus(h, g, <<"reply", m>>)
      BY <1>7, <2>4 DEF Listens
    <3>2. Alternates(e) /\ LastEnds(e)
      BY <1>7, <2>1, <2>4, AlternatesPlus
    <3>3. Orderly(h, Append(v, m), Append(l, m)) /\ AllTold(h, Append(v, m))
      BY <1>4, <2>1, <2>2, <2>3, <2>4, <3>1, OrderlyReply
    <3>4. d \notin lagged => SolidTo(h, p)
      BY <2>1, <2>4, <3>1, SolidReply
    <3>5. d \notin lagged => Solid(h)
      BY <1>4, <1>9, <3>4, SolidFromTo
    <3> QED BY <3>2, <3>3, <3>4, <3>5
  <2>5. /\ client[d] = "open" => Alternates(e)
        /\ Orderly(h, Append(v, m), Append(l, m))
        /\ d \notin lagged => Solid(h)
        /\ client[d] = "open" => /\ LastEnds(e) /\ AllTold(h, Append(v, m))
                                 /\ d \notin lagged => SolidTo(h, p)
    BY <1>7, <2>1, <2>2, <2>4 DEF Listens
  <2> QED BY <1>3, <1>4, <1>8, <2>1, <2>5 DEF Unbroken, Lively, Running
<1>12. Rising((Stream(d))', pos'[d]) /\ pos'[d] <= Len(log')
  BY <1>3, <1>4, <1>9, <1>10
<1> QED BY <1>8, <1>11, <1>12 DEF Flow, Running

\* The next broadcast is written.
LEMMA DeliversFlow ==
  ASSUME Typing, NEW d \in Conns, Flow(d), Writes(d, <<"cast", pos[d] + 1>>),
         pos'[d] = pos[d] + 1, pos[d] + 1 <= Len(log), log' = log, served'[d] = served[d]
  PROVE  Flow(d)'
<1>0. served[d] \in Seq(Messages) /\ pos[d] \in Nat /\ Len(log) \in Nat
  BY ViewTypes
<1>1. PICK v, l, p : v = served[d] /\ l = log /\ p = pos[d]
  OBVIOUS
<1>2. PICK g, f : g = Stream(d) /\ f = Feed(d)
  OBVIOUS
<1>3. PICK h, e : h = (Stream(d))' /\ e = (Feed(d))'
  OBVIOUS
<1>4. /\ v \in Seq(Messages) /\ p \in Nat /\ served'[d] = v /\ log' = l
      /\ pos'[d] = p + 1 /\ p + 1 <= Len(l) /\ p + 1 \in Nat
      /\ Writes(d, <<"cast", p + 1>>)
  BY <1>0, <1>1
<1>5. Rising(g, p)
  BY <1>1, <1>2 DEF Flow
<1>6. <<"cast", p + 1>> \in Items
  BY <1>4 DEF Items
<1>7. /\ Plus(e, f, <<"cast", p + 1>>)
      /\ Listens(d) => Plus(h, g, <<"cast", p + 1>>)
      /\ ~Listens(d) => h = g
  BY <1>2, <1>3, <1>4, <1>6, WritesLine
<1>8. /\ client'[d] = client[d] /\ Running(d) /\ Running(d)'
      /\ Whole(d)' <=> Whole(d)
      /\ d \in lagged' <=> d \in lagged
      /\ NoEnd(rdpart'[d])
  BY DEF Writes, Whole, Flow
<1>9. Rising(h, p + 1)
  <2>1. CASE Listens(d)
    BY <1>4, <1>5, <1>7, <2>1, RisingCast
  <2>2. CASE ~Listens(d)
    BY <1>4, <1>5, <1>7, <2>2, RisingFarther
  <2> QED BY <2>1, <2>2
<1>10. ASSUME Whole(d) PROVE Unbroken(d)'
  <2>1. /\ client[d] # "garbled"
        /\ client[d] = "open" => Alternates(f)
        /\ Orderly(g, v, l)
        /\ d \notin lagged => Solid(g)
        /\ client[d] = "open" => /\ LastEnds(f)
                                 /\ AllTold(g, v)
                                 /\ d \notin lagged => SolidTo(g, p)
    BY <1>1, <1>2, <1>8, <1>10 DEF Flow, Unbroken, Lively, Running
  <2>2. ASSUME client[d] = "open"
        PROVE  /\ Alternates(e) /\ LastEnds(e)
               /\ Orderly(h, v, l) /\ AllTold(h, v)
               /\ d \notin lagged => SolidTo(h, p + 1) /\ Solid(h)
    <3>1. Plus(h, g, <<"cast", p + 1>>)
      BY <1>7, <2>2 DEF Listens
    <3>2. Alternates(e) /\ LastEnds(e)
      BY <1>7, <2>1, <2>2, AlternatesPlus
    <3>3. Orderly(h, v, l) /\ AllTold(h, v)
      BY <1>4, <2>1, <2>2, <3>1, OrderlyCast
    <3>4. d \notin lagged => SolidTo(h, p + 1)
      BY <1>4, <2>1, <2>2, <3>1, SolidCast
    <3>5. d \notin lagged => Solid(h)
      BY <1>4, <1>9, <3>4, SolidFromTo
    <3> QED BY <3>2, <3>3, <3>4, <3>5
  <2>3. /\ client[d] = "open" => Alternates(e)
        /\ Orderly(h, v, l)
        /\ d \notin lagged => Solid(h)
        /\ client[d] = "open" => /\ LastEnds(e) /\ AllTold(h, v)
                                 /\ d \notin lagged => SolidTo(h, p + 1)
    BY <1>7, <2>1, <2>2 DEF Listens
  <2> QED BY <1>3, <1>4, <1>8, <2>1, <2>3 DEF Unbroken, Lively, Running
<1>11. Rising((Stream(d))', pos'[d]) /\ pos'[d] <= Len(log')
  BY <1>3, <1>4, <1>9
<1> QED BY <1>8, <1>10, <1>11 DEF Flow, Running

\* The receiver of d jumps over broadcasts.
LEMMA LagsFlow ==
  ASSUME Typing, NEW d \in Conns, Flow(d),
         client'[d] = client[d], got'[d] = got[d], served'[d] = served[d],
         Running(d), Running(d)', NoEnd(rdpart'[d]), (Feed(d))' = Feed(d),
         <<d, "receive">> \in cut' <=> <<d, "receive">> \in cut,
         log' = log, d \in lagged', pos'[d] \in Nat, pos[d] <= pos'[d], pos'[d] <= Len(log)
  PROVE  Flow(d)'
<1>0. pos[d] \in Nat
  BY ViewTypes
<1>1. (Stream(d))' = Stream(d)
  BY DEF Stream, Listens
<1>2. PICK g, p : g = Stream(d) /\ p = pos'[d]
  OBVIOUS
<1>3. Rising(g, p)
  BY <1>0, <1>2, RisingFarther DEF Flow
<1>4. Whole(d)' <=> Whole(d)
  BY DEF Whole
<1>5. Lively(d)' <=> Lively(d)
  BY DEF Lively, Running
<1>6. ASSUME Whole(d) PROVE Unbroken(d)'
  <2>1. Unbroken(d)
    BY <1>6 DEF Flow
  <2>2. Orderly((Stream(d))', served'[d], log') /\ (Lively(d)' => AllTold((Stream(d))', served'[d]))
    BY <1>1, <1>5, <2>1 DEF Unbroken
  <2> QED BY <1>5, <2>1, <2>2 DEF Unbroken
<1>7. Rising((Stream(d))', pos'[d])
  BY <1>1, <1>2, <1>3
<1> QED BY <1>4, <1>6, <1>7 DEF Flow, Running

-----------------------------------------------------------------------------
(* A message is in one place.                                              *)

LEMMA PendingTypes ==
  ASSUME Typing, NEW c \in Conns
  PROVE  /\ up[c] \in Seq(Sends) /\ wr[c] \in Seq(Sends) /\ Pending(c) \in Seq(Sends)
         /\ Len(up[c]) \in Nat /\ Len(wr[c]) \in Nat
         /\ Len(Pending(c)) = Len(up[c]) + Len(wr[c])
         /\ \A i \in 1..Len(up[c]) : Pending(c)[i] = up[c][i]
         /\ \A i \in 1..Len(wr[c]) : Pending(c)[Len(up[c]) + i] = wr[c][i]
         /\ \A i \in DOMAIN Pending(c) :
              \/ i \in DOMAIN up[c] /\ Pending(c)[i] = up[c][i]
              \/ \E j \in DOMAIN wr[c] : i = Len(up[c]) + j /\ Pending(c)[i] = wr[c][j]
         /\ \A i \in DOMAIN Pending(c) : Pending(c)[i] \in Sends /\ Pending(c)[i].item[2] \in Messages
<1>1. PICK u, w : u = up[c] /\ w = wr[c]
  OBVIOUS
<1>2. u \in Seq(Sends) /\ w \in Seq(Sends)
  BY <1>1 DEF Typing
<1>3. PICK t : t = u \o w
  OBVIOUS
<1>4. /\ t \in Seq(Sends) /\ Len(t) = Len(u) + Len(w)
      /\ \A i \in 1..Len(u) : t[i] = u[i]
      /\ \A i \in 1..Len(w) : t[Len(u) + i] = w[i]
  BY <1>2, <1>3, JoinFacts
<1>5. Len(u) \in Nat /\ Len(w) \in Nat
  BY <1>2
<1>6. ASSUME NEW i \in DOMAIN t
      PROVE  \/ i \in DOMAIN u /\ t[i] = u[i]
             \/ \E j \in DOMAIN w : i = Len(u) + j /\ t[i] = w[j]
  <2>1. CASE i <= Len(u)
    BY <1>2, <1>4, <1>5, <2>1
  <2>2. CASE i > Len(u)
    <3>1. i - Len(u) \in 1..Len(w) /\ i = Len(u) + (i - Len(u))
      BY <1>4, <1>5, <2>2
    <3>2. i - Len(u) \in DOMAIN w /\ t[i] = w[i - Len(u)]
      BY <1>2, <1>4, <3>1
    <3> QED BY <3>1, <3>2
  <2> QED BY <1>4, <1>5, <2>1, <2>2
<1>7. \A i \in DOMAIN t : t[i] \in Sends /\ t[i].item[2] \in Messages
  BY <1>4, PieceFacts
<1> QED BY <1>1, <1>2, <1>3, <1>4, <1>5, <1>6, <1>7 DEF Pending

\* The conjuncts of Unique.
LogOnce == \A i, j \in DOMAIN log : log[i] = log[j] => i = j
LogSent == \A i \in DOMAIN log : log[i] \in Messages => IsSent(log[i])
ServedLogged == \A c \in Conns : \A i \in DOMAIN served[c] : InLog(served[c][i])
PendingUnlogged ==
  \A c \in Conns : \A i \in DOMAIN Pending(c) :
    Pending(c)[i].end => ~InLog(Pending(c)[i].item[2])
PendingOnce ==
  \A c, d \in Conns : \A i \in DOMAIN Pending(c), j \in DOMAIN Pending(d) :
    /\ Pending(c)[i].end /\ Pending(d)[j].end
    /\ Pending(c)[i].item[2] = Pending(d)[j].item[2]
    => c = d /\ i = j
PendingSent ==
  /\ \A c \in Conns : \A i \in DOMAIN up[c] : up[c][i].end => IsSent(up[c][i].item[2])
  /\ \A c \in Conns : wr[c] # <<>> /\ wr[c][1].end => IsSent(wr[c][1].item[2])

LEMMA UniqueParts ==
  Unique <=> /\ LogOnce /\ LogSent /\ ServedLogged
             /\ PendingUnlogged /\ PendingOnce /\ PendingSent
BY DEF Unique, LogOnce, LogSent, ServedLogged, PendingUnlogged, PendingOnce, PendingSent

LEMMA UniqueInit == Init => Unique
<1> SUFFICES ASSUME Init PROVE Unique
  OBVIOUS
<1>1. /\ DOMAIN log = {}
      /\ \A c \in Conns : /\ DOMAIN served[c] = {} /\ up[c] = <<>> /\ wr[c] = <<>>
  BY DEF Init
<1>2. \A c \in Conns : DOMAIN up[c] = {} /\ DOMAIN Pending(c) = {}
  <2>1. <<>> \o <<>> = <<>> /\ DOMAIN <<>> = {}
    OBVIOUS
  <2> QED BY <1>1, <2>1 DEF Pending
<1> QED BY <1>1, <1>2 DEF Unique

\* t is a stretch of s, after its first k pieces.
Within(t, s, k) ==
  /\ k \in Nat /\ DOMAIN t = 1..Len(t) /\ DOMAIN s = 1..Len(s)
  /\ Len(t) \in Nat /\ Len(s) \in Nat /\ Len(t) + k <= Len(s)
  /\ \A i \in 1..Len(t) : t[i] = s[i + k]
Fewer == \A d \in Conns : \E k \in Nat : Within((Pending(d))', Pending(d), k)

\* What is left of the pending lines is still in one place.
LEMMA FewerOnce ==
  ASSUME PendingOnce, Fewer
  PROVE  PendingOnce'
<1> SUFFICES ASSUME NEW c \in Conns, NEW d \in Conns,
                    NEW i \in DOMAIN Pending(c)', NEW j \in DOMAIN Pending(d)',
                    Pending(c)'[i].end, Pending(d)'[j].end,
                    Pending(c)'[i].item[2] = Pending(d)'[j].item[2]
             PROVE  c = d /\ i = j
  BY DEF PendingOnce
<1>1. PICK s, t, u, v : /\ s = Pending(c) /\ t = Pending(d)
                        /\ u = Pending(c)' /\ v = Pending(d)'
  OBVIOUS
<1>2. \A k : Within(u, s, k) => k \in Nat /\ i \in 1..Len(u) /\ i + k \in DOMAIN s /\ u[i] = s[i + k]
  BY <1>1 DEF Within
<1>3. \A k : Within(v, t, k) => k \in Nat /\ j \in 1..Len(v) /\ j + k \in DOMAIN t /\ v[j] = t[j + k]
  BY <1>1 DEF Within
<1>4. PICK k \in Nat : Within(u, s, k)
  BY <1>1 DEF Fewer
<1>5. PICK l \in Nat : Within(v, t, l) /\ (c = d => l = k)
  <2>1. CASE c = d
    <3>1. u = v /\ s = t
      BY <1>1, <2>1
    <3> QED BY <1>4, <3>1
  <2>2. CASE c # d
    BY <1>1, <2>2 DEF Fewer
  <2> QED BY <2>1, <2>2
<1>6. /\ i + k \in DOMAIN Pending(c) /\ Pending(c)[i + k] = Pending(c)'[i]
      /\ j + l \in DOMAIN Pending(d) /\ Pending(d)[j + l] = Pending(d)'[j]
  BY <1>1, <1>2, <1>3, <1>4, <1>5
<1>7. c = d /\ i + k = j + l
  BY <1>6 DEF PendingOnce
<1>8. i \in Nat /\ j \in Nat /\ k \in Nat /\ l \in Nat
  BY <1>2, <1>3, <1>4, <1>5
<1> QED BY <1>5, <1>7, <1>8

LEMMA FewerUnlogged ==
  ASSUME PendingUnlogged, Fewer, NEW d \in Conns, NEW j \in DOMAIN Pending(d)',
         Pending(d)'[j].end
  PROVE  /\ ~InLog(Pending(d)'[j].item[2])
         /\ \E i \in DOMAIN Pending(d) : Pending(d)[i] = Pending(d)'[j]
<1>1. PICK t, v : t = Pending(d) /\ v = Pending(d)'
  OBVIOUS
<1>2. PICK k \in Nat : Within(v, t, k)
  BY <1>1 DEF Fewer
<1>3. j + k \in DOMAIN t /\ v[j] = t[j + k]
  BY <1>1, <1>2 DEF Within
<1> QED BY <1>1, <1>3 DEF PendingUnlogged

\* Nothing is sent or handled: pending lines may be cut off.
LEMMA UniqueKept ==
  ASSUME Unique, Fewer, UNCHANGED <<log, served, sent>>,
         \A c \in Conns : \A i \in DOMAIN up'[c] : up'[c][i].end =>
           \E j \in DOMAIN up[c] : up'[c][i] = up[c][j],
         \A c \in Conns : wr'[c] = wr[c] \/ wr'[c] = <<>>
  PROVE  Unique'
<1>1. LogOnce' /\ LogSent' /\ ServedLogged'
  BY UniqueParts DEF LogOnce, LogSent, ServedLogged, IsSent, InLog
<1>2. PendingOnce'
  BY UniqueParts, FewerOnce
<1>3. PendingUnlogged'
  BY UniqueParts, FewerUnlogged DEF PendingUnlogged, InLog
<1>4. \A m : IsSent(m) => IsSent(m)'
  BY DEF IsSent
<1>5. PendingSent
  BY UniqueParts
<1>6. PendingSent'
  BY <1>4, <1>5 DEF PendingSent
<1>7. (LogOnce /\ LogSent /\ ServedLogged /\ PendingUnlogged /\ PendingOnce /\ PendingSent)'
  BY <1>1, <1>2, <1>3, <1>6
<1> QED BY <1>7 DEF Unique, LogOnce, LogSent, ServedLogged, PendingUnlogged, PendingOnce, PendingSent

\* A step of c: the lines of all others stay as they are.
LEMMA OthersFewer ==
  ASSUME Typing, NEW c \in Conns,
         \A d \in Conns \ {c} : up'[d] = up[d] /\ wr'[d] = wr[d],
         \E k \in Nat : Within((Pending(c))', Pending(c), k)
  PROVE  Fewer
<1>1. ASSUME NEW d \in Conns, d # c PROVE \E k \in Nat : Within((Pending(d))', Pending(d), k)
  <2>1. (Pending(d))' = Pending(d)
    BY <1>1 DEF Pending
  <2>2. PICK s : s = Pending(d)
    OBVIOUS
  <2>3. s \in Seq(Sends)
    BY <2>2, PendingTypes
  <2>4. Within(s, s, 0)
    BY <2>3 DEF Within
  <2> QED BY <2>1, <2>2, <2>4
<1> QED BY <1>1 DEF Fewer

\* The client gives up what it had to write.
LEMMA GiveUpFewer ==
  ASSUME Typing, NEW c \in Conns, wr' = [wr EXCEPT ![c] = <<>>], up' = up
  PROVE  Fewer
<1>1. wr'[c] = <<>> /\ \A d \in Conns \ {c} : up'[d] = up[d] /\ wr'[d] = wr[d]
  BY DEF Typing
<1>2. PICK s, u : s = Pending(c) /\ u = up[c]
  OBVIOUS
<1>3. (Pending(c))' = u
  <2>1. (Pending(c))' = u \o <<>>
    BY <1>1, <1>2 DEF Pending
  <2>2. u \in Seq(Sends)
    BY <1>2, PendingTypes
  <2> QED BY <2>1, <2>2, NothingBefore
<1>4. /\ u \in Seq(Sends) /\ s \in Seq(Sends) /\ Len(u) <= Len(s)
      /\ \A i \in 1..Len(u) : s[i] = u[i]
  <2>1. /\ u \in Seq(Sends) /\ s \in Seq(Sends) /\ \A i \in 1..Len(u) : s[i] = u[i]
        /\ Len(u) \in Nat /\ Len(wr[c]) \in Nat /\ Len(s) = Len(u) + Len(wr[c])
    BY <1>2, PendingTypes
  <2> QED BY <2>1
<1>5. Within(u, s, 0)
  BY <1>4 DEF Within
<1> QED BY <1>1, <1>2, <1>3, <1>5, OthersFewer

\* The task reads the first k pieces.
LEMMA ReadFewer ==
  ASSUME Typing, NEW c \in Conns, NEW k \in 0..Len(up[c]),
         up' = [up EXCEPT ![c] = Left(up[c], k)], wr' = wr
  PROVE  /\ Within((Pending(c))', Pending(c), k) /\ Fewer
         /\ \A d \in Conns : \A i \in DOMAIN up'[d] : \E j \in DOMAIN up[d] : up'[d][i] = up[d][j]
<1>1. up'[c] = Left(up[c], k) /\ \A d \in Conns \ {c} : up'[d] = up[d] /\ wr'[d] = wr[d]
  BY DEF Typing
<1>2. PICK s, u, w, r : s = Pending(c) /\ u = up[c] /\ w = wr[c] /\ r = Left(up[c], k)
  OBVIOUS
<1>3. /\ u \in Seq(Sends) /\ w \in Seq(Sends) /\ s \in Seq(Sends)
      /\ Len(s) = Len(u) + Len(w)
      /\ \A i \in 1..Len(u) : s[i] = u[i]
      /\ \A i \in 1..Len(w) : s[Len(u) + i] = w[i]
  BY <1>2, PendingTypes
<1>4. k \in 0..Len(u) /\ r = Left(u, k)
  BY <1>2
<1>5. /\ r \in Seq(Sends) /\ Len(r) = Len(u) - k
      /\ \A i \in 1..(Len(u) - k) : r[i] = u[k + i]
  BY <1>3, <1>4, SplitFacts
<1>6. PICK t : t = r \o w
  OBVIOUS
<1>7. /\ t \in Seq(Sends) /\ Len(t) = Len(r) + Len(w)
      /\ \A i \in 1..Len(r) : t[i] = r[i]
      /\ \A i \in 1..Len(w) : t[Len(r) + i] = w[i]
  <2>1. r \in Seq(Sends) /\ w \in Seq(Sends)
    BY <1>3, <1>5
  <2> QED BY <1>6, <2>1, JoinFacts
<1>8. (Pending(c))' = t
  BY <1>1, <1>2, <1>6 DEF Pending
<1>9. Len(u) \in Nat /\ Len(w) \in Nat /\ k \in Nat /\ k <= Len(u)
  BY <1>3, <1>4
<1>10. ASSUME NEW i \in 1..Len(t) PROVE t[i] = s[i + k]
  <2>1. CASE i <= Len(r)
    <3>1. i \in 1..Len(r) /\ i \in 1..(Len(u) - k) /\ k + i \in 1..Len(u) /\ k + i = i + k
      BY <1>5, <1>9, <2>1
    <3> QED BY <1>3, <1>5, <1>7, <3>1
  <2>2. CASE i > Len(r)
    <3>1. /\ i - Len(r) \in 1..Len(w) /\ Len(r) + (i - Len(r)) = i
          /\ Len(u) + (i - Len(r)) = i + k
      BY <1>5, <1>7, <1>9, <2>2
    <3>2. t[Len(r) + (i - Len(r))] = w[i - Len(r)]
      BY <1>7, <3>1
    <3>3. s[Len(u) + (i - Len(r))] = w[i - Len(r)]
      BY <1>3, <3>1
    <3> QED BY <3>1, <3>2, <3>3
  <2> QED BY <1>5, <1>9, <2>1, <2>2
<1>11. Within(t, s, k)
  <2>1. DOMAIN t = 1..Len(t) /\ DOMAIN s = 1..Len(s) /\ Len(t) \in Nat /\ Len(s) \in Nat
    BY <1>3, <1>7
  <2>2. Len(t) + k <= Len(s)
    BY <1>3, <1>5, <1>7, <1>9
  <2> QED BY <1>9, <1>10, <2>1, <2>2 DEF Within
<1>12. Within((Pending(c))', Pending(c), k)
  BY <1>2, <1>8, <1>11
<1>13. ASSUME NEW d \in Conns, NEW i \in DOMAIN up'[d]
       PROVE  \E j \in DOMAIN up[d] : up'[d][i] = up[d][j]
  <2>1. CASE d = c
    <3>1. i \in 1..(Len(u) - k) /\ k + i \in DOMAIN u
      BY <1>1, <1>2, <1>3, <1>5, <1>9, <1>13, <2>1
    <3>2. r[i] = u[k + i]
      BY <1>5, <3>1
    <3> QED BY <1>1, <1>2, <2>1, <3>1, <3>2
  <2>2. CASE d # c
    BY <1>1, <1>13, <2>2
  <2> QED BY <2>1, <2>2
<1>14. Fewer
  BY <1>1, <1>9, <1>12, OthersFewer
<1> QED BY <1>12, <1>13, <1>14

\* A message that was not sent is nowhere.
LEMMA UnsentNowhere ==
  ASSUME Typing, Unique, NEW m \in Messages, ~WasSent(m)
  PROVE  /\ ~IsSent(m) /\ ~InLog(m)
         /\ \A d \in Conns : \A i \in DOMAIN Pending(d) :
              Pending(d)[i].end => Pending(d)[i].item[2] # m
<1>1. ~IsSent(m) /\ \A d \in Conns : \A i \in DOMAIN wr[d] : wr[d][i].item[2] # m
  BY DEF WasSent, IsSent
<1>2. ~InLog(m)
  BY <1>1 DEF InLog, Unique
<1>3. ASSUME NEW d \in Conns, NEW i \in DOMAIN Pending(d), Pending(d)[i].end
      PROVE  Pending(d)[i].item[2] # m
  <2>1. CASE i \in DOMAIN up[d] /\ Pending(d)[i] = up[d][i]
    BY <1>1, <1>3, <2>1 DEF Unique
  <2>2. ASSUME NEW j \in DOMAIN wr[d], Pending(d)[i] = wr[d][j]
        PROVE  Pending(d)[i].item[2] # m
    BY <1>1, <2>2
  <2> QED BY <2>1, <2>2, PendingTypes
<1> QED BY <1>1, <1>2, <1>3

\* A client begins to write a message that was not sent.
LEMMA BeginUnique ==
  ASSUME Typing, Unique, NEW c \in Conns, NEW m \in Messages, ~WasSent(m), wr[c] = <<>>,
         wr' = [wr EXCEPT ![c] = Line(<<"request", m>>)],
         UNCHANGED <<up, log, served, sent>>
  PROVE  Unique'
<1>1. /\ wr'[c] = Line(<<"request", m>>)
      /\ \A d \in Conns \ {c} : up'[d] = up[d] /\ wr'[d] = wr[d]
      /\ up'[c] = up[c]
  BY DEF Typing
<1>2. PICK u, w : u = up[c] /\ w = Line(<<"request", m>>)
  OBVIOUS
<1>3. /\ u \in Seq(Sends) /\ w \in Seq(Sends)
      /\ Len(w) = 2 /\ w[1] = [item |-> <<"request", m>>, end |-> FALSE]
      /\ w[2] = [item |-> <<"request", m>>, end |-> TRUE]
  <2>1. w \in Seq(Sends)
    BY <1>2, LineTypes
  <2>2. Len(w) = 2 /\ w[1] = [item |-> <<"request", m>>, end |-> FALSE]
        /\ w[2] = [item |-> <<"request", m>>, end |-> TRUE]
    BY <1>2, LineFacts
  <2> QED BY <1>2, <2>1, <2>2, PendingTypes
<1>4. PICK t : t = u \o w
  OBVIOUS
<1>5. /\ t \in Seq(Sends) /\ Len(t) = Len(u) + Len(w)
      /\ \A i \in 1..Len(u) : t[i] = u[i]
      /\ \A i \in 1..Len(w) : t[Len(u) + i] = w[i]
  <2>1. u \in Seq(Sends) /\ w \in Seq(Sends)
    BY <1>3
  <2> QED BY <1>4, <2>1, JoinFacts
<1>6. Len(u) \in Nat
  BY <1>3
<1>7. (Pending(c))' = t
  BY <1>1, <1>2, <1>4 DEF Pending
<1>8. Pending(c) = u
  <2>1. Pending(c) = u \o <<>>
    BY <1>2 DEF Pending
  <2> QED BY <1>3, <2>1, NothingBefore
<1>9. \A d \in Conns \ {c} : (Pending(d))' = Pending(d)
  BY <1>1 DEF Pending
<1>10. ASSUME NEW d \in Conns, NEW i \in DOMAIN (Pending(d))', (Pending(d))'[i].end
       PROVE  \/ i \in DOMAIN Pending(d) /\ Pending(d)[i] = (Pending(d))'[i]
              \/ d = c /\ i = Len(u) + 2 /\ (Pending(d))'[i].item[2] = m
  <2>1. CASE d # c
    BY <1>9, <1>10, <2>1
  <2>2. CASE d = c
    <3>1. i \in DOMAIN t /\ t[i].end
      BY <1>7, <1>10, <2>2
    <3>2. i \in 1..Len(u) \/ i = Len(u) + 1 \/ i = Len(u) + 2
      BY <1>3, <1>5, <1>6, <3>1
    <3>3. CASE i \in 1..Len(u)
      BY <1>3, <1>5, <1>7, <1>8, <2>2, <3>3
    <3>4. CASE i = Len(u) + 1
      <4>0. 1 \in 1..Len(w)
        BY <1>3
      <4>1. t[i] = w[1]
        BY <1>5, <3>4, <4>0
      <4> QED BY <1>3, <3>1, <4>1
    <3>5. CASE i = Len(u) + 2
      <4>0. 2 \in 1..Len(w)
        BY <1>3
      <4>1. t[i] = w[2]
        BY <1>5, <3>5, <4>0
      <4>2. w[2].item[2] = m
        BY <1>3
      <4> QED BY <1>7, <2>2, <3>5, <4>1, <4>2
    <3> QED BY <3>2, <3>3, <3>4, <3>5
  <2> QED BY <2>1, <2>2
<1>11. /\ ~IsSent(m) /\ ~InLog(m)
       /\ \A d \in Conns : \A i \in DOMAIN Pending(d) :
            Pending(d)[i].end => Pending(d)[i].item[2] # m
  BY UnsentNowhere
<1>12. PendingUnlogged'
  <2>1. \A x : InLog(x)' <=> InLog(x)
    BY DEF InLog
  <2>2. ASSUME NEW d \in Conns, NEW i \in DOMAIN (Pending(d))', (Pending(d))'[i].end
        PROVE  ~InLog((Pending(d))'[i].item[2])
    BY <1>10, <1>11, <2>2 DEF Unique
  <2> QED BY <2>1, <2>2 DEF PendingUnlogged, InLog
<1>13. PendingOnce'
  <2> SUFFICES ASSUME NEW d \in Conns, NEW e \in Conns,
                      NEW i \in DOMAIN (Pending(d))', NEW j \in DOMAIN (Pending(e))',
                      (Pending(d))'[i].end, (Pending(e))'[j].end,
                      (Pending(d))'[i].item[2] = (Pending(e))'[j].item[2]
               PROVE  d = e /\ i = j
    BY DEF PendingOnce
  <2>1. CASE /\ i \in DOMAIN Pending(d) /\ Pending(d)[i] = (Pending(d))'[i]
             /\ j \in DOMAIN Pending(e) /\ Pending(e)[j] = (Pending(e))'[j]
    BY <2>1 DEF Unique
  <2>2. CASE i \in DOMAIN Pending(d) /\ Pending(d)[i] = (Pending(d))'[i] /\ (Pending(e))'[j].item[2] = m
    BY <1>11, <2>2
  <2>3. CASE j \in DOMAIN Pending(e) /\ Pending(e)[j] = (Pending(e))'[j] /\ (Pending(d))'[i].item[2] = m
    BY <1>11, <2>3
  <2>4. CASE d = c /\ i = Len(u) + 2 /\ e = c /\ j = Len(u) + 2
    BY <2>4
  <2> QED BY <1>10, <2>1, <2>2, <2>3, <2>4
<1>14. LogOnce' /\ LogSent' /\ ServedLogged'
  BY UniqueParts DEF LogOnce, LogSent, ServedLogged, IsSent, InLog
<1>15. PendingSent'
  <2>1. \A x : IsSent(x) => IsSent(x)'
    BY DEF IsSent
  <2>2. PendingSent
    BY UniqueParts
  <2>3. ~wr'[c][1].end
    BY <1>1, <1>2, <1>3
  <2>4. \A d \in Conns : d = c \/ wr'[d] = wr[d]
    BY <1>1
  <2> QED BY <1>1, <2>1, <2>2, <2>3, <2>4 DEF PendingSent
<1> QED BY <1>12, <1>13, <1>14, <1>15
    DEF Unique, LogOnce, LogSent, ServedLogged, PendingUnlogged, PendingOnce, PendingSent

LEMMA UniqueSame ==
  ASSUME Unique, UNCHANGED <<up, wr, log, served, sent>>
  PROVE  Unique'
<1>1. /\ \A d \in Conns : (Pending(d))' = Pending(d)
      /\ \A x : IsSent(x)' <=> IsSent(x)
      /\ \A x : InLog(x)' <=> InLog(x)
  BY DEF Pending, IsSent, InLog
<1>2. LogOnce' /\ LogSent' /\ ServedLogged'
  BY <1>1, UniqueParts DEF LogOnce, LogSent, ServedLogged, IsSent, InLog
<1>3. PendingUnlogged' /\ PendingOnce'
  BY <1>1, UniqueParts DEF PendingUnlogged, PendingOnce, InLog
<1>4. PendingSent'
  BY <1>1, UniqueParts DEF PendingSent, IsSent
<1> QED BY <1>2, <1>3, <1>4
    DEF Unique, LogOnce, LogSent, ServedLogged, PendingUnlogged, PendingOnce, PendingSent

LEMMA WriteUnique ==
  ASSUME Typing, Unique, NEW c \in Conns, Shape(c), Write(c)
  PROVE  Unique'
<1>1. PICK n \in Fits(wr[c], up[c]) :
        /\ up' = [up EXCEPT ![c] = @ \o Taken(wr[c], n)]
        /\ wr' = [wr EXCEPT ![c] = Left(@, n)]
  BY DEF Write
<1>2. PICK u, w : u = up[c] /\ w = wr[c]
  OBVIOUS
<1>3. u \in Seq(Sends) /\ w \in Seq(Sends) /\ Len(u) \in Nat /\ Len(w) \in Nat
  BY <1>2, PendingTypes
<1>4. n \in 1..Len(w) /\ n \in 0..Len(w)
  BY <1>1, <1>2, <1>3, FitsFacts
<1>5. PICK t, l : t = Taken(w, n) /\ l = Left(w, n)
  OBVIOUS
<1>6. /\ t \in Seq(Sends) /\ Len(t) = n /\ \A i \in 1..n : t[i] = w[i]
      /\ l \in Seq(Sends) /\ Len(l) = Len(w) - n
      /\ \A i \in 1..(Len(w) - n) : l[i] = w[n + i]
  BY <1>3, <1>4, <1>5, SplitFacts
<1>7. /\ up'[c] = u \o t /\ wr'[c] = l
      /\ \A d \in Conns \ {c} : up'[d] = up[d] /\ wr'[d] = wr[d]
  BY <1>1, <1>2, <1>5 DEF Typing
<1>8. (Pending(c))' = Pending(c)
  <2>1. (Pending(c))' = (u \o t) \o l
    BY <1>7 DEF Pending
  <2> QED BY <1>2, <1>3, <1>4, <1>5, <2>1, Regroup DEF Pending
<1>9. \A d \in Conns : (Pending(d))' = Pending(d)
  BY <1>7, <1>8 DEF Pending
<1>10. log' = log /\ served' = served
  BY DEF Write
<1>11. \A i \in DOMAIN w : w[i].item[2] = w[1].item[2]
  <2>1. CASE w = <<>>
    BY <1>4, <2>1
  <2>2. ASSUME NEW q, w = <<q>> PROVE \A i \in DOMAIN w : w[i].item[2] = w[1].item[2]
    BY <2>2
  <2>3. ASSUME NEW m, w = Line(<<"request", m>>) PROVE \A i \in DOMAIN w : w[i].item[2] = w[1].item[2]
    <3>1. DOMAIN w = 1..2 /\ w[1].item = <<"request", m>> /\ w[2].item = <<"request", m>>
      BY <2>3 DEF Line
    <3> QED BY <3>1
  <2> QED BY <1>2, <2>1, <2>2, <2>3 DEF Shape
<1>12. sent[c] \in Seq(Messages) /\ sent \in [Conns -> Seq(Messages)]
  BY DEF Typing
<1>13. \A m : IsSent(m) => IsSent(m)'
  <2>1. ASSUME NEW m, NEW d \in Conns, NEW i \in DOMAIN sent[d], sent[d][i] = m
        PROVE  i \in DOMAIN sent'[d] /\ sent'[d][i] = m
    <3>1. CASE sent' = sent
      BY <2>1, <3>1
    <3>2. ASSUME NEW x, sent' = [sent EXCEPT ![c] = Append(@, x)]
          PROVE  i \in DOMAIN sent'[d] /\ sent'[d][i] = m
      <4>1. CASE d = c
        <5>1. sent'[d] = Append(sent[d], x)
          BY <1>12, <3>2, <4>1
        <5> QED BY <1>12, <2>1, <4>1, <5>1
      <4>2. CASE d # c
        BY <1>12, <2>1, <3>2, <4>2
      <4> QED BY <4>1, <4>2
    <3> QED BY <3>1, <3>2 DEF Write
  <2> QED BY <2>1 DEF IsSent
<1>14. PICK y : y = w[1].item[2] /\ IsSent(y)'
  <2> SUFFICES ASSUME NEW y, y = w[1].item[2] PROVE IsSent(y)'
    OBVIOUS
  <2>1. CASE w[1].end
    <3>1. w # <<>>
      BY <1>3, <1>4
    <3>2. IsSent(y)
      BY <1>2, <2>1, <3>1 DEF Unique
    <3> QED BY <1>13, <3>2
  <2>2. CASE ~w[1].end
    <3>1. sent' = [sent EXCEPT ![c] = Append(@, w[1].item[2])]
      BY <1>2, <2>2 DEF Write
    <3>2. sent'[c] = Append(sent[c], w[1].item[2])
      BY <1>12, <3>1
    <3>3. Len(sent[c]) + 1 \in DOMAIN sent'[c] /\ sent'[c][Len(sent[c]) + 1] = w[1].item[2]
      BY <1>12, <3>2
    <3> QED BY <3>3 DEF IsSent
  <2> QED BY <2>1, <2>2
<1>15. PendingSent'
  <2>1. ASSUME NEW d \in Conns, NEW i \in DOMAIN up'[d], up'[d][i].end,
               NEW x, x = up'[d][i].item[2]
        PROVE  IsSent(x)'
    <3>1. CASE d # c
      <4>1. IsSent(up[d][i].item[2])
        BY <1>7, <2>1, <3>1 DEF Unique
      <4>2. x = up[d][i].item[2]
        BY <1>7, <2>1, <3>1
      <4> QED BY <1>13, <4>1, <4>2
    <3>2. CASE d = c
      <4>1. i \in 1..Len(u \o t)
        BY <1>3, <1>6, <1>7, <2>1, <3>2
      <4>2. /\ Len(u \o t) = Len(u) + Len(t)
            /\ \A j \in 1..Len(u) : (u \o t)[j] = u[j]
            /\ \A j \in 1..Len(t) : (u \o t)[Len(u) + j] = t[j]
        <5>1. t \in Seq(Sends)
          BY <1>6
        <5> QED BY <1>3, <5>1, JoinFacts
      <4>3. CASE i <= Len(u)
        <5>1. i \in DOMAIN up[c] /\ up'[d][i] = up[c][i]
          BY <1>2, <1>3, <1>7, <3>2, <4>1, <4>2, <4>3
        <5>2. IsSent(up[c][i].item[2])
          BY <2>1, <5>1 DEF Unique
        <5>3. x = up[c][i].item[2]
          BY <2>1, <5>1
        <5> QED BY <1>13, <5>2, <5>3
      <4>4. CASE i > Len(u)
        <5>1. i - Len(u) \in 1..n /\ Len(u) + (i - Len(u)) = i /\ i - Len(u) \in 1..Len(t)
          BY <1>3, <1>4, <1>6, <4>1, <4>2, <4>4
        <5>2. up'[d][i] = w[i - Len(u)]
          BY <1>6, <1>7, <3>2, <4>2, <5>1
        <5>3. i - Len(u) \in DOMAIN w
          BY <1>3, <1>4, <5>1
        <5>4. x = y
          BY <1>11, <1>14, <2>1, <5>2, <5>3
        <5> QED BY <1>14, <5>4
      <4> QED BY <1>3, <4>1, <4>3, <4>4
    <3> QED BY <3>1, <3>2
  <2>2. ASSUME NEW d \in Conns, wr'[d] # <<>>, wr'[d][1].end, NEW x, x = wr'[d][1].item[2]
        PROVE  IsSent(x)'
    <3>1. CASE d # c
      <4>1. IsSent(wr[d][1].item[2])
        BY <1>7, <2>2, <3>1 DEF Unique
      <4>2. x = wr[d][1].item[2]
        BY <1>7, <2>2, <3>1
      <4> QED BY <1>13, <4>1, <4>2
    <3>2. CASE d = c
      <4>1. 1 \in 1..(Len(w) - n)
        BY <1>3, <1>4, <1>6, <1>7, <2>2, <3>2
      <4>2. wr'[d][1] = w[n + 1] /\ n + 1 \in DOMAIN w
        BY <1>3, <1>4, <1>6, <1>7, <3>2, <4>1
      <4>3. x = y
        BY <1>11, <1>14, <2>2, <4>2
      <4> QED BY <1>14, <4>3
    <3> QED BY <3>1, <3>2
  <2> QED BY <2>1, <2>2 DEF PendingSent, IsSent
<1>16. LogOnce' /\ ServedLogged' /\ LogSent'
  BY <1>10, <1>13, UniqueParts DEF LogOnce, ServedLogged, LogSent, InLog
<1>17. PendingUnlogged' /\ PendingOnce'
  BY <1>9, <1>10, UniqueParts DEF PendingUnlogged, PendingOnce, InLog
<1> QED BY <1>15, <1>16, <1>17
    DEF Unique, LogOnce, LogSent, ServedLogged, PendingUnlogged, PendingOnce, PendingSent

LEMMA WithinJoin ==
  ASSUME NEW s \in Seq(Sends), NEW p \in Nat, NEW n \in Nat, Len(s) = p + n, NEW k \in 1..p
  PROVE  k \in DOMAIN s
OBVIOUS

\* What is in the stream to the server is pending.
LEMMA UpPending ==
  ASSUME Typing, NEW c \in Conns, NEW k \in DOMAIN up[c]
  PROVE  k \in DOMAIN Pending(c) /\ Pending(c)[k] = up[c][k]
<1>1. /\ Pending(c) \in Seq(Sends) /\ up[c] \in Seq(Sends)
      /\ Len(up[c]) \in Nat /\ Len(wr[c]) \in Nat
      /\ Len(Pending(c)) = Len(up[c]) + Len(wr[c])
      /\ \A i \in 1..Len(up[c]) : Pending(c)[i] = up[c][i]
  BY PendingTypes
<1>2. PICK s, u : s = Pending(c) /\ u = up[c]
  OBVIOUS
<1>3. k \in 1..Len(u) /\ k \in Nat
  BY <1>1, <1>2
<1>4. Len(s) = Len(u) + Len(wr[c]) /\ Len(wr[c]) \in Nat /\ Len(u) \in Nat
  BY <1>1, <1>2
<1>5. s \in Seq(Sends)
  BY <1>1, <1>2
<1>6. k \in DOMAIN s
  BY <1>3, <1>4, <1>5, WithinJoin
<1>7. s[k] = u[k]
  BY <1>1, <1>2, <1>3
<1> QED BY <1>2, <1>6, <1>7

\* A request goes from the stream to the log.
LEMMA HandleUnique ==
  ASSUME Typing, Unique, NEW c \in Conns, NEW k \in DOMAIN up[c], up[c][k].end,
         NEW m, m = up[c][k].item[2],
         up' = [up EXCEPT ![c] = Left(@, k)], UNCHANGED <<wr, sent>>,
         served' = [served EXCEPT ![c] = Append(@, m)], log' = Append(log, m)
  PROVE  /\ Unique'
         /\ \A y \in DOMAIN log : log[y] # m
         /\ \A d \in Conns : \A i \in DOMAIN served[d] : served[d][i] # m
<1>0. /\ served \in [Conns -> Seq(Messages)] /\ log \in Seq(Messages \cup Hosted)
      /\ up \in [Conns -> Seq(Sends)] /\ Len(log) \in Nat
  BY DEF Typing
<1>1. k \in 0..Len(up[c]) /\ up' = [up EXCEPT ![c] = Left(up[c], k)]
  BY <1>0
<1>2. /\ Within((Pending(c))', Pending(c), k) /\ Fewer
      /\ \A d \in Conns : \A i \in DOMAIN up'[d] : \E j \in DOMAIN up[d] : up'[d][i] = up[d][j]
  BY <1>1, ReadFewer
<1>3. k \in DOMAIN Pending(c) /\ Pending(c)[k] = up[c][k]
  BY UpPending
<1>4. ~InLog(m) /\ IsSent(m)
  BY <1>3 DEF Unique
<1>5. \A y \in DOMAIN log : log[y] # m
  BY <1>4 DEF InLog
<1>6. \A d \in Conns : \A i \in DOMAIN served[d] : served[d][i] # m
  BY <1>4 DEF Unique
<1>7. PICK l, b : l = log /\ b = Append(log, m)
  OBVIOUS
<1>8. /\ DOMAIN l = 1..Len(l) /\ DOMAIN b = 1..(Len(l) + 1) /\ Len(l) \in Nat
      /\ b[Len(l) + 1] = m /\ \A y \in DOMAIN l : b[y] = l[y]
  BY <1>0, <1>7
<1>9. log' = b
  BY <1>7
<1>10. \A x : InLog(x)' <=> InLog(x) \/ x = m
  <2>1. \A x : InLog(x)' <=> \E y \in DOMAIN b : b[y] = x
    BY <1>9 DEF InLog
  <2>2. \A x : InLog(x) <=> \E y \in DOMAIN l : l[y] = x
    BY <1>7 DEF InLog
  <2> QED BY <1>8, <2>1, <2>2
<1>11. \A x : IsSent(x)' <=> IsSent(x)
  BY DEF IsSent
<1>12. LogOnce'
  <2>1. \A i, j \in DOMAIN l : l[i] = l[j] => i = j
    BY <1>7 DEF Unique
  <2>2. \A i \in DOMAIN l : l[i] # m
    BY <1>5, <1>7
  <2>3. \A i, j \in DOMAIN b : b[i] = b[j] => i = j
    BY <1>8, <2>1, <2>2
  <2> QED BY <1>9, <2>3 DEF LogOnce
<1>13. LogSent'
  <2>1. \A i \in DOMAIN b : b[i] \in Messages => IsSent(b[i])
    <3>1. \A i \in DOMAIN l : l[i] \in Messages => IsSent(l[i])
      BY <1>7 DEF Unique
    <3> QED BY <1>4, <1>8, <3>1
  <2> QED BY <1>9, <1>11, <2>1 DEF LogSent
<1>14. ServedLogged'
  <2>1. ASSUME NEW d \in Conns, NEW i \in DOMAIN served'[d], NEW x, x = served'[d][i]
        PROVE  InLog(x)'
    <3>1. CASE d # c
      <4>1. InLog(served[d][i])
        BY <1>0, <2>1, <3>1 DEF Unique
      <4>2. x = served[d][i]
        BY <1>0, <2>1, <3>1
      <4> QED BY <1>10, <4>1, <4>2
    <3>2. CASE d = c
      <4>1. served'[c] = Append(served[c], m) /\ served[c] \in Seq(Messages)
        BY <1>0
      <4>2. (i \in DOMAIN served[c] /\ served'[c][i] = served[c][i]) \/ served'[c][i] = m
        BY <2>1, <3>2, <4>1
      <4>3. InLog(x) \/ x = m
        BY <2>1, <3>2, <4>2 DEF Unique
      <4> QED BY <1>10, <4>3
    <3> QED BY <3>1, <3>2
  <2> QED BY <2>1, SMTT(20) DEF ServedLogged, InLog
<1>15. PendingOnce'
  BY <1>2, UniqueParts, FewerOnce
<1>16. ASSUME NEW d \in Conns, NEW j \in DOMAIN (Pending(d))', (Pending(d))'[j].end,
              NEW x, x = (Pending(d))'[j].item[2]
       PROVE  ~InLog(x)'
  <2>1. ~InLog(x)
    BY <1>2, <1>16, UniqueParts, FewerUnlogged
  <2>2. x # m
    <3>1. CASE d # c
      <4>1. up'[d] = up[d] /\ wr'[d] = wr[d]
        BY <1>0, <3>1
      <4>2. (Pending(d))' = Pending(d)
        BY <4>1 DEF Pending
      <4> QED BY <1>3, <1>16, <3>1, <4>2 DEF Unique
    <3>2. CASE d = c
      <4>1. PICK s, v : s = Pending(c) /\ v = (Pending(c))'
        OBVIOUS
      <4>2. k \in Nat /\ j \in 1..Len(v) /\ Len(v) \in Nat /\ j + k \in DOMAIN s /\ v[j] = s[j + k]
        BY <1>2, <1>16, <3>2, <4>1 DEF Within
      <4>3. j + k # k
        BY <4>2
      <4> QED BY <1>3, <1>16, <3>2, <4>1, <4>2, <4>3 DEF Unique
    <3> QED BY <3>1, <3>2
  <2> QED BY <1>10, <2>1, <2>2
<1>17. PendingUnlogged'
  BY <1>16 DEF PendingUnlogged, InLog
<1>18. PendingSent'
  <2>1. PendingSent
    BY UniqueParts
  <2> QED BY <1>2, <1>11, <2>1 DEF PendingSent
<1>19. Unique'
  BY <1>12, <1>13, <1>14, <1>15, <1>17, <1>18
  DEF Unique, LogOnce, LogSent, ServedLogged, PendingUnlogged, PendingOnce, PendingSent
<1> QED BY <1>5, <1>6, <1>19

LEMMA HostUnique ==
  ASSUME Typing, Unique, NEW h \in Hosted, HostBroadcast(h)
  PROVE  Unique'
<1>0. log \in Seq(Messages \cup Hosted) /\ Len(log) \in Nat
  BY DEF Typing
<1>1. PICK l, b : l = log /\ b = Append(log, h)
  OBVIOUS
<1>2. log' = b /\ (\A i \in DOMAIN l : l[i] # h) /\ UNCHANGED <<up, wr, served, sent>>
  BY <1>1 DEF HostBroadcast, calling, streams, history
<1>3. /\ DOMAIN l = 1..Len(l) /\ DOMAIN b = 1..(Len(l) + 1) /\ Len(l) \in Nat
      /\ b[Len(l) + 1] = h /\ \A y \in DOMAIN l : b[y] = l[y]
  BY <1>0, <1>1
<1>4. \A x : InLog(x)' <=> InLog(x) \/ x = h
  <2>1. \A x : InLog(x)' <=> \E y \in DOMAIN b : b[y] = x
    BY <1>2 DEF InLog
  <2>2. \A x : InLog(x) <=> \E y \in DOMAIN l : l[y] = x
    BY <1>1 DEF InLog
  <2> QED BY <1>3, <2>1, <2>2
<1>5. h \notin Messages
  BY NamesAssumption
<1>6. /\ \A x : IsSent(x)' <=> IsSent(x)
      /\ \A d \in Conns : (Pending(d))' = Pending(d)
  BY <1>2 DEF IsSent, Pending
<1>7. LogOnce'
  <2>1. \A i, j \in DOMAIN l : l[i] = l[j] => i = j
    BY <1>1 DEF Unique
  <2>2. \A i, j \in DOMAIN b : b[i] = b[j] => i = j
    BY <1>2, <1>3, <2>1
  <2> QED BY <1>2, <2>2 DEF LogOnce
<1>8. LogSent'
  <2>1. \A i \in DOMAIN l : l[i] \in Messages => IsSent(l[i])
    BY <1>1 DEF Unique
  <2>2. \A i \in DOMAIN b : b[i] \in Messages => IsSent(b[i])
    BY <1>3, <1>5, <2>1
  <2> QED BY <1>2, <1>6, <2>2 DEF LogSent
<1>9. ServedLogged' /\ PendingSent'
  BY <1>2, <1>4, <1>6, UniqueParts DEF ServedLogged, PendingSent
<1>10. PendingUnlogged'
  <2>1. ASSUME NEW d \in Conns, NEW i \in DOMAIN Pending(d), Pending(d)[i].end,
               NEW x, x = Pending(d)[i].item[2]
        PROVE  ~InLog(x)'
    <3>1. Pending(d) \in Seq(Sends)
      BY PendingTypes
    <3>2. Pending(d)[i] \in Sends
      BY <2>1, <3>1
    <3>3. x \in Messages
      BY <2>1, <3>2 DEF Sends, Requests
    <3>4. ~InLog(x)
      BY <2>1 DEF Unique
    <3> QED BY <1>4, <1>5, <3>3, <3>4
  <2> QED BY <1>6, <2>1 DEF PendingUnlogged, InLog
<1>11. PendingOnce'
  BY <1>6, UniqueParts DEF PendingOnce
<1> QED BY <1>7, <1>8, <1>9, <1>10, <1>11
    DEF Unique, LogOnce, LogSent, ServedLogged, PendingUnlogged, PendingOnce, PendingSent

-----------------------------------------------------------------------------
(* The invariant is inductive.                                             *)

USE DEF accepting, serving, calling, streams, history

LEMMA LeftAll ==
  ASSUME NEW S, NEW s \in Seq(S)
  PROVE  Left(s, Len(s)) = <<>> /\ Len(s) \in 0..Len(s)
BY DEF Left

\* The client's steps, and the connection that is made.
LEMMA ClientUnique ==
  ASSUME Typing, Unique, NEW c \in Conns, Shape(c),
         \/ Connect(c) \/ Close(c)
         \/ \E m \in Messages : BeginSend(c, m)
         \/ Sending(c) \/ DropSend(c)
         \/ Receiving(c) \/ DropReceive(c)
  PROVE  Unique'
<1>1. CASE Connect(c)
  <2>1. client[c] = "none" /\ wr' = [wr EXCEPT ![c] = <<>>] /\ UNCHANGED <<up, log, served, sent>>
    BY <1>1 DEF Connect, ConnectToSend
  <2>2. wr[c] = <<>>
    BY <2>1 DEF Shape
  <2>3. wr' = wr
    BY <2>1, <2>2 DEF Typing
  <2> QED BY <2>1, <2>3, UniqueSame
<1>2. CASE Close(c) \/ WriteFails(c) \/ DropSend(c)
  <2>1. wr' = [wr EXCEPT ![c] = <<>>] /\ UNCHANGED <<up, log, served, sent>>
    BY <1>2 DEF Close, WriteFails, DropSend
  <2>2. Fewer
    BY <2>1, GiveUpFewer
  <2>3. \A d \in Conns : wr'[d] = wr[d] \/ wr'[d] = <<>>
    BY <2>1 DEF Typing
  <2>4. \A d \in Conns : \A i \in DOMAIN up'[d] : up'[d][i].end =>
          \E j \in DOMAIN up[d] : up'[d][i] = up[d][j]
    BY <2>1
  <2> QED BY <2>1, <2>2, <2>3, <2>4, UniqueKept
<1>3. ASSUME NEW m \in Messages, BeginSend(c, m) PROVE Unique'
  BY <1>3, BeginUnique DEF BeginSend
<1>4. CASE Write(c)
  BY <1>4, WriteUnique
<1>5. CASE Receiving(c) \/ DropReceive(c)
  <2>1. UNCHANGED <<up, wr, log, served, sent>>
    BY <1>5 DEF Receiving, ReceivePart, Receive, ReceiveLine, ReceiveGarbled, DropReceive
  <2> QED BY <2>1, UniqueSame
<1> QED BY <1>1, <1>2, <1>3, <1>4, <1>5 DEF Sending

\* The steps of the task.
LEMMA TaskUnique ==
  ASSUME Typing, Unique, NEW c \in Conns, Serve(c)
  PROVE  Unique'
<1>1. CASE HandleRequest(c)
  <2>1. PICK k \in DOMAIN up[c] : EndsAt(up[c], k) /\ Handle(c, k, Answer(c, k))
    BY <1>1 DEF HandleRequest, LineRead
  <2>2. PICK m : m = up[c][k].item[2]
    OBVIOUS
  <2>3. /\ up' = [up EXCEPT ![c] = Left(@, k)] /\ UNCHANGED <<wr, sent>>
        /\ served' = [served EXCEPT ![c] = Append(@, m)] /\ log' = Append(log, m)
    BY <2>1, <2>2 DEF Handle
  <2>4. up[c][k].end
    BY <2>1 DEF EndsAt
  <2> QED BY <2>2, <2>3, <2>4, HandleUnique
<1>2. CASE ReadPart(c) \/ ReadGarbage(c) \/ ReadGarbled(c)
  <2>1. UNCHANGED <<wr, log, served, sent>>
    BY <1>2 DEF ReadPart, ReadGarbage, ReadGarbled
  <2>2. \E k \in 0..Len(up[c]) : up' = [up EXCEPT ![c] = Left(up[c], k)]
    <3>1. CASE ReadGarbage(c)
      <4>1. PICK k \in DOMAIN up[c] : up' = [up EXCEPT ![c] = Left(@, k)]
        BY <3>1 DEF ReadGarbage
      <4>2. PICK u : u = up[c] /\ u \in Seq(Sends)
        BY ConnTypes
      <4>3. k \in 0..Len(u)
        BY <4>2
      <4> QED BY <4>1, <4>2, <4>3
    <3>2. CASE ReadPart(c) \/ ReadGarbled(c)
      <4>1. up' = [up EXCEPT ![c] = <<>>]
        BY <3>2 DEF ReadPart, ReadGarbled
      <4>2. Left(up[c], Len(up[c])) = <<>> /\ Len(up[c]) \in 0..Len(up[c])
        BY ConnTypes, LeftAll
      <4> QED BY <4>1, <4>2
    <3> QED BY <1>2, <3>1, <3>2
  <2>3. PICK k \in 0..Len(up[c]) : up' = [up EXCEPT ![c] = Left(up[c], k)]
    BY <2>2
  <2>4. /\ Fewer
        /\ \A d \in Conns : \A i \in DOMAIN up'[d] : \E j \in DOMAIN up[d] : up'[d][i] = up[d][j]
    BY <2>1, <2>3, ReadFewer
  <2> QED BY <2>1, <2>4, UniqueKept
<1>3. CASE ReadEnd(c) \/ TakeBroadcast(c) \/ Lag(c) \/ Respond(c) \/ RespondFails(c)
  <2>1. UNCHANGED <<up, wr, log, served, sent>>
    BY <1>3 DEF ReadEnd, EndTask, TakeBroadcast, Deliver, Lag, LagTo, Respond, RespondFails
  <2> QED BY <2>1, UniqueSame
<1> QED BY <1>1, <1>2, <1>3 DEF Serve, WithoutRequest

LEMMA UniqueStep == LinkInv /\ Unique /\ [Next]_vars => Unique'
<1> SUFFICES ASSUME LinkInv, Unique, [Next]_vars PROVE Unique'
  OBVIOUS
<1>1. Typing /\ \A c \in Conns : Shape(c)
  BY DEF LinkInv, Sound
<1>2. ASSUME NEW c \in Conns,
             \/ Connect(c) \/ Close(c)
             \/ \E m \in Messages : BeginSend(c, m)
             \/ Sending(c) \/ DropSend(c)
             \/ Receiving(c) \/ DropReceive(c)
      PROVE  Unique'
  BY <1>1, <1>2, ClientUnique
<1>3. ASSUME NEW c \in Conns, Serve(c) PROVE Unique'
  BY <1>1, <1>3, TaskUnique
<1>4. CASE Accepting \/ Stop \/ Crash \/ Start \/ UNCHANGED vars
  <2>1. UNCHANGED <<up, wr, log, served, sent>>
    BY <1>4 DEF Accepting, CheckRunning, Accept, Spawn, Stop, Crash, Start, vars
  <2> QED BY <2>1, UniqueSame
<1>5. ASSUME NEW h \in Hosted, HostBroadcast(h) PROVE Unique'
  BY <1>1, <1>5, HostUnique
<1> QED BY <1>2, <1>3, <1>4, <1>5 DEF Next

-----------------------------------------------------------------------------
(* What travels to the client.                                             *)

\* Nothing but replies and broadcasts travels to a client.
Says == [item : ({"reply"} \X Messages) \cup ({"cast"} \X Nat), end : BOOLEAN]
Voiced ==
  /\ rdpart \in [Conns -> Seq(Says)]
  /\ down \in [Conns -> Seq(Says)]
  /\ out \in [Conns -> Seq(Says)]

LEMMA SaysLines ==
  /\ \A m \in Messages : Line(<<"reply", m>>) \in Seq(Says)
  /\ \A x \in Nat : Line(<<"cast", x>>) \in Seq(Says)
  /\ <<>> \in Seq(Says)
  /\ Says \subseteq Pieces
<1>1. \A i \in ({"reply"} \X Messages) \cup ({"cast"} \X Nat) : Line(i) \in Seq(Says)
  BY DEF Line, Says
<1>2. /\ \A m \in Messages : <<"reply", m>> \in {"reply"} \X Messages
      /\ \A x \in Nat : <<"cast", x>> \in {"cast"} \X Nat
  OBVIOUS
<1>3. Says \subseteq Pieces
  BY DEF Says, Pieces, Items
<1>4. <<>> \in Seq(Says)
  OBVIOUS
<1> QED BY <1>1, <1>2, <1>3, <1>4

LEMMA VoicedInit == Init => Voiced
BY SaysLines DEF Init, Voiced

LEMMA ClientVoiced ==
  ASSUME Typing, Voiced, NEW c \in Conns,
         \/ Connect(c) \/ Close(c)
         \/ \E m \in Messages : BeginSend(c, m)
         \/ Sending(c) \/ DropSend(c)
         \/ Receiving(c) \/ DropReceive(c)
  PROVE  Voiced'
<1>1. CASE Connect(c) \/ (\E m \in Messages : BeginSend(c, m)) \/ Sending(c) \/ DropSend(c)
  <2>1. UNCHANGED <<rdpart, down, out>>
    BY <1>1 DEF Connect, ConnectToSend, BeginSend, Sending, Write, WriteFails, DropSend
  <2> QED BY <2>1 DEF Voiced
<1>2. CASE Close(c)
  <2>1. /\ rdpart' = [rdpart EXCEPT ![c] = <<>>] /\ down' = [down EXCEPT ![c] = <<>>]
        /\ out' = out
    BY <1>2 DEF Close
  <2> QED BY <2>1, SaysLines DEF Voiced
<1>3. CASE ReceivePart(c)
  <2>1. /\ rdpart' = [rdpart EXCEPT ![c] = rdpart[c] \o down[c]]
        /\ down' = [down EXCEPT ![c] = <<>>] /\ out' = out
    BY <1>3 DEF ReceivePart
  <2>2. rdpart[c] \o down[c] \in Seq(Says)
    BY DEF Voiced
  <2> QED BY <2>1, <2>2, SaysLines DEF Voiced
<1>4. CASE Receive(c)
  <2>1. PICK k \in DOMAIN down[c] :
          /\ down' = [down EXCEPT ![c] = Left(@, k)]
          /\ rdpart' = [rdpart EXCEPT ![c] = <<>>] /\ out' = out
    BY <1>4 DEF Receive, ReceiveLine
  <2>2. down[c] \in Seq(Says) /\ k \in 0..Len(down[c])
    BY DEF Voiced
  <2>3. Left(down[c], k) \in Seq(Says)
    BY <2>2, SplitFacts
  <2> QED BY <2>1, <2>3, SaysLines DEF Voiced
<1>5. CASE ReceiveGarbled(c)
  <2>1. PICK n \in DOMAIN down[c] :
          down' = [down EXCEPT ![c] = Left(@, n)] /\ UNCHANGED <<rdpart, out>>
    BY <1>5 DEF ReceiveGarbled
  <2>2. down[c] \in Seq(Says) /\ n \in 0..Len(down[c])
    BY DEF Voiced
  <2>3. Left(down[c], n) \in Seq(Says)
    BY <2>2, SplitFacts
  <2> QED BY <2>1, <2>3 DEF Voiced
<1>6. CASE DropReceive(c)
  BY <1>6, SaysLines DEF DropReceive, Voiced
<1> QED BY <1>1, <1>2, <1>3, <1>4, <1>5, <1>6 DEF Receiving

LEMMA TaskVoiced ==
  ASSUME Typing, Voiced, NEW c \in Conns, Serve(c)
  PROVE  Voiced'
<1>1. CASE HandleRequest(c)
  <2>1. PICK k \in DOMAIN up[c] :
          /\ out' = [out EXCEPT ![c] = Answer(c, k)] /\ UNCHANGED <<rdpart, down>>
    BY <1>1 DEF HandleRequest, Handle
  <2>2. up[c][k].item[2] \in Messages
    <3>1. up[c] \in Seq(Sends)
      BY ConnTypes
    <3>2. up[c][k] \in Sends
      BY <3>1
    <3> QED BY <3>2, PieceFacts
  <2>3. Answer(c, k) \in Seq(Says)
    BY <2>2, SaysLines DEF Answer
  <2> QED BY <2>1, <2>3 DEF Voiced
<1>2. CASE ReadPart(c) \/ ReadGarbage(c) \/ ReadGarbled(c) \/ ReadEnd(c) \/ Lag(c)
  <2>1. UNCHANGED <<rdpart, down, out>>
    BY <1>2 DEF ReadPart, ReadGarbage, ReadGarbled, ReadEnd, EndTask, Lag, LagTo
  <2> QED BY <2>1 DEF Voiced
<1>3. CASE TakeBroadcast(c)
  <2>1. /\ out' = [out EXCEPT ![c] = Line(<<"cast", pos[c] + 1>>)] /\ UNCHANGED <<rdpart, down>>
    BY <1>3 DEF TakeBroadcast, Deliver
  <2>2. pos[c] + 1 \in Nat
    BY DEF Typing
  <2>3. Line(<<"cast", pos[c] + 1>>) \in Seq(Says)
    BY <2>2, SaysLines
  <2> QED BY <2>1, <2>3 DEF Voiced
<1>4. CASE Respond(c)
  <2>1. PICK n \in Fits(out[c], down[c]) :
          /\ down' = [down EXCEPT ![c] = down[c] \o Taken(out[c], n)]
          /\ out' = [out EXCEPT ![c] = Left(out[c], n)] /\ rdpart' = rdpart
    BY <1>4 DEF Respond
  <2>2. out[c] \in Seq(Says) /\ down[c] \in Seq(Says)
    BY DEF Voiced
  <2>3. n \in 0..Len(out[c])
    BY <2>2, FitsFacts
  <2>4. Taken(out[c], n) \in Seq(Says) /\ Left(out[c], n) \in Seq(Says)
    BY <2>2, <2>3, SplitFacts
  <2>5. down[c] \o Taken(out[c], n) \in Seq(Says)
    BY <2>2, <2>4
  <2> QED BY <2>1, <2>4, <2>5 DEF Voiced
<1>5. CASE RespondFails(c)
  BY <1>5, SaysLines DEF RespondFails, Voiced
<1> QED BY <1>1, <1>2, <1>3, <1>4, <1>5 DEF Serve, WithoutRequest

LEMMA VoicedStep == Typing /\ Voiced /\ [Next]_vars => Voiced'
<1> SUFFICES ASSUME Typing, Voiced, [Next]_vars PROVE Voiced'
  OBVIOUS
<1>1. ASSUME NEW c \in Conns,
             \/ Connect(c) \/ Close(c)
             \/ \E m \in Messages : BeginSend(c, m)
             \/ Sending(c) \/ DropSend(c)
             \/ Receiving(c) \/ DropReceive(c)
      PROVE  Voiced'
  BY <1>1, ClientVoiced
<1>2. ASSUME NEW c \in Conns, Serve(c) PROVE Voiced'
  BY <1>2, TaskVoiced
<1>3. CASE Accepting \/ Stop \/ (\E h \in Hosted : HostBroadcast(h)) \/ Start \/ UNCHANGED vars
  <2>1. UNCHANGED <<rdpart, down, out>>
    BY <1>3 DEF Accepting, CheckRunning, Accept, Spawn, Stop, HostBroadcast, Start, vars
  <2> QED BY <2>1 DEF Voiced
<1>4. CASE Crash
  BY <1>4, SaysLines DEF Crash, Voiced
<1> QED BY <1>1, <1>2, <1>3, <1>4 DEF Next

-----------------------------------------------------------------------------
(* What the steps do to the flow.                                          *)

\* Nothing of d that Flow tells of changes.
Quiet(d) ==
  /\ client'[d] = client[d] /\ task'[d] = task[d] /\ pos'[d] = pos[d]
  /\ got'[d] = got[d] /\ served'[d] = served[d]
  /\ rdpart'[d] = rdpart[d] /\ down'[d] = down[d] /\ out'[d] = out[d]
  /\ <<d, "receive">> \in cut' <=> <<d, "receive">> \in cut
  /\ d \in lagged' <=> d \in lagged

LEMMA QuietFlow ==
  ASSUME Typing, NEW d \in Conns, Flow(d), Quiet(d), LogGrows
  PROVE  Flow(d)'
<1>1. Calm(d)
  BY DEF Quiet, Calm, Feed, Flow
<1> QED BY <1>1, CalmFlow

\* All the other connections stay as they are.
Apart(c) == LogGrows /\ \A d \in Conns \ {c} : Quiet(d)

LEMMA ApartFlow ==
  ASSUME Typing, NEW c \in Conns, \A d \in Conns : Flow(d), Apart(c), Flow(c)'
  PROVE  \A d \in Conns : Flow(d)'
BY QuietFlow DEF Apart

\* A connection that is not accepted has nothing to tell.
LEMMA NothingYet ==
  ASSUME Typing, NEW c \in Conns, Flow(c), task[c] = "none"
  PROVE  /\ rdpart[c] = <<>> /\ down[c] = <<>> /\ out[c] = <<>>
         /\ Feed(c) = <<>> /\ served[c] = <<>> /\ got[c] = <<>>
<1>1. PICK r, w, o : r = rdpart[c] /\ w = down[c] /\ o = out[c]
  OBVIOUS
<1>2. r \in Seq(Pieces) /\ w \in Seq(Pieces) /\ o \in Seq(Pieces)
  BY <1>1, ViewTypes
<1>3. r \o (w \o o) = <<>>
  BY <1>1 DEF Flow, Feed
<1>4. Len(r \o (w \o o)) = Len(r) + (Len(w) + Len(o))
  BY <1>2
<1>5. Len(r) \in Nat /\ Len(w) \in Nat /\ Len(o) \in Nat /\ Len(<<>>) = 0
  BY <1>2
<1>6. Len(r) = 0 /\ Len(w) = 0 /\ Len(o) = 0
  BY <1>3, <1>4, <1>5
<1>7. r = <<>> /\ w = <<>> /\ o = <<>>
  BY <1>2, <1>6
<1> QED BY <1>1, <1>7 DEF Flow

LEMMA ConnectFlow ==
  ASSUME LinkInv, NEW c \in Conns, NEW l, Flow(c), ConnectToSend(c, l)
  PROVE  Apart(c) /\ Flow(c)'
<1>1. Typing /\ Untouched(c)
  BY DEF LinkInv, Sound
<1>2. /\ client[c] = "none" /\ client' = [client EXCEPT ![c] = "open"]
      /\ UNCHANGED <<log, task, out, pos, rdpart, down, got, served, cut, lagged>>
  BY DEF ConnectToSend
<1>3. Apart(c)
  BY <1>1, <1>2 DEF Apart, Quiet, LogGrows, Typing
<1>4. task[c] = "none"
  BY <1>1, <1>2 DEF Untouched
<1>5. (Feed(c))' = <<>> /\ served'[c] = <<>> /\ got'[c] = <<>>
  BY <1>1, <1>2, <1>4, NothingYet DEF Feed
<1>6. NoEnd(rdpart'[c]) /\ pos'[c] <= Len(log') /\ client'[c] = "open"
  BY <1>1, <1>2 DEF Flow, Typing
<1>7. Flow(c)'
  BY <1>5, <1>6, EmptyFlow
<1> QED BY <1>3, <1>7

\* The client begins, goes on with, or gives up what it writes.
LEMMA SendFlow ==
  ASSUME Typing, NEW c \in Conns, Flow(c),
         (\E m \in Messages : BeginSend(c, m)) \/ Sending(c) \/ DropSend(c)
  PROVE  Apart(c) /\ Flow(c)'
<1>1. /\ UNCHANGED <<log, client, task, out, pos, rdpart, down, got, served, lagged>>
      /\ cut' = cut \/ cut' = cut \cup {<<c, "send">>}
  BY DEF BeginSend, Sending, Write, WriteFails, DropSend
<1>2. \A d \in Conns : <<d, "receive">> # <<c, "send">>
  OBVIOUS
<1>3. \A d \in Conns : Quiet(d)
  BY <1>1, <1>2 DEF Quiet
<1>4. LogGrows
  BY <1>1 DEF LogGrows
<1> QED BY <1>3, <1>4, QuietFlow DEF Apart

LEMMA FrontFirst ==
  ASSUME NEW g \in Seq(Pieces), NEW e \in Seq(Pieces)
  PROVE  Front(g, g \o e) /\ Front(g, g)
<1>1. g \o e \in Seq(Pieces) /\ Len(g \o e) = Len(g) + Len(e)
      /\ \A i \in 1..Len(g) : (g \o e)[i] = g[i]
  BY JoinFacts
<1>2. Len(g) \in Nat /\ Len(e) \in Nat
  OBVIOUS
<1> QED BY <1>1, <1>2 DEF Front

LEMMA CloseFlow ==
  ASSUME Typing, NEW c \in Conns, Flow(c), Close(c)
  PROVE  Apart(c) /\ Flow(c)'
<1>1. /\ client' = [client EXCEPT ![c] = "closed"]
      /\ rdpart' = [rdpart EXCEPT ![c] = <<>>] /\ down' = [down EXCEPT ![c] = <<>>]
      /\ UNCHANGED <<log, task, out, pos, got, served, cut, lagged>>
  BY DEF Close
<1>2. Apart(c)
  BY <1>1 DEF Apart, Quiet, LogGrows, Typing
<1>3. client'[c] = "closed" /\ rdpart'[c] = <<>> /\ down'[c] = <<>>
  BY <1>1 DEF Typing
<1>4. NoEnd(rdpart'[c])
  BY <1>3 DEF NoEnd
<1>5. Front((Stream(c))', Stream(c))
  <2>1. (Stream(c))' = Heard(got[c])
    BY <1>1, <1>3 DEF Stream, Listens
  <2>2. Heard(got[c]) \in Seq(Pieces) /\ Feed(c) \in Seq(Pieces)
    BY ViewTypes
  <2>3. Front(Heard(got[c]), Heard(got[c]) \o Feed(c)) /\ Front(Heard(got[c]), Heard(got[c]))
    BY <2>2, FrontFirst
  <2> QED BY <2>1, <2>3 DEF Stream
<1>6. task[c] = "none" => (Feed(c))' = <<>>
  BY <1>1, <1>3, NothingYet DEF Feed
<1>7. Loses(c)
  BY <1>1, <1>3, <1>4, <1>5, <1>6 DEF Loses, Lively, Whole
<1> QED BY <1>2, <1>7, LosesFlow

LEMMA ReceivePartFlow ==
  ASSUME Typing, NEW c \in Conns, Flow(c), ReceivePart(c)
  PROVE  Apart(c) /\ Flow(c)'
<1>1. /\ NoEnd(down[c]) /\ NoEnd(rdpart[c])
      /\ rdpart' = [rdpart EXCEPT ![c] = rdpart[c] \o down[c]]
      /\ down' = [down EXCEPT ![c] = <<>>]
      /\ UNCHANGED <<log, client, task, out, pos, got, served, cut, lagged>>
  BY DEF ReceivePart, Flow
<1>2. Apart(c) /\ LogGrows
  BY <1>1 DEF Apart, Quiet, LogGrows, Typing
<1>3. rdpart'[c] = rdpart[c] \o down[c] /\ down'[c] = <<>>
  BY <1>1 DEF Typing
<1>4. rdpart[c] \in Seq(Pieces) /\ down[c] \in Seq(Pieces) /\ out[c] \in Seq(Pieces)
  BY ViewTypes
<1>5. NoEnd(rdpart'[c])
  BY <1>1, <1>3, <1>4, JoinNoEnd
<1>6. (Feed(c))' = Feed(c)
  <2>1. PICK r, w, o : r = rdpart[c] /\ w = down[c] /\ o = out[c]
    OBVIOUS
  <2>2. r \in Seq(Pieces) /\ w \in Seq(Pieces) /\ o \in Seq(Pieces)
    BY <1>4, <2>1
  <2>3. (r \o w) \o o = r \o (w \o o)
    BY <2>2, Associative
  <2>4. <<>> \o o = o
    BY <2>2
  <2>5. (Feed(c))' = (r \o w) \o (<<>> \o o)
    BY <1>1, <1>3, <2>1 DEF Feed
  <2> QED BY <2>1, <2>3, <2>4, <2>5 DEF Feed
<1>7. Calm(c)
  BY <1>1, <1>5, <1>6 DEF Calm
<1> QED BY <1>2, <1>7, CalmFlow

\* A read that comes to the end of a line takes all that was before it.
LEMMA FeedRead ==
  ASSUME NEW r \in Seq(Pieces), NEW w \in Seq(Pieces), NEW o \in Seq(Pieces),
         NEW k \in 1..Len(w), NoEnd(r), EndsAt(w, k)
  PROVE  /\ OneRead(r \o (w \o o), Len(r) + k, Left(w, k) \o o)
         /\ r \o Taken(w, k) \in Seq(Pieces)
         /\ Len(r \o Taken(w, k)) = Len(r) + k
         /\ \A j \in 1..(Len(r) + k) : (r \o Taken(w, k))[j] = (r \o (w \o o))[j]
         /\ (r \o (w \o o))[Len(r) + k] = w[k]
<1>1. PICK l, t : l = Left(w, k) /\ t = Taken(w, k)
  OBVIOUS
<1>2. k \in 0..Len(w) /\ Len(r) \in Nat /\ Len(w) \in Nat /\ Len(o) \in Nat
  OBVIOUS
<1>3. /\ t \in Seq(Pieces) /\ Len(t) = k /\ \A i \in 1..k : t[i] = w[i]
      /\ l \in Seq(Pieces) /\ Len(l) = Len(w) - k
      /\ \A i \in 1..(Len(w) - k) : l[i] = w[k + i]
  BY <1>1, <1>2, SplitFacts
<1>4. PICK p, f, x, e : p = w \o o /\ f = r \o (w \o o) /\ x = r \o t /\ e = l \o o
  OBVIOUS
<1>5. /\ p \in Seq(Pieces) /\ Len(p) = Len(w) + Len(o)
      /\ \A i \in 1..Len(w) : p[i] = w[i]
      /\ \A i \in 1..Len(o) : p[Len(w) + i] = o[i]
  BY <1>4, JoinFacts
<1>6. /\ f \in Seq(Pieces) /\ Len(f) = Len(r) + Len(p)
      /\ \A i \in 1..Len(r) : f[i] = r[i]
      /\ \A i \in 1..Len(p) : f[Len(r) + i] = p[i]
  <2>1. f = r \o p
    BY <1>4
  <2>2. p \in Seq(Pieces)
    BY <1>5
  <2> QED BY <2>1, <2>2, JoinFacts
<1>7. /\ x \in Seq(Pieces) /\ Len(x) = Len(r) + k
      /\ \A i \in 1..Len(r) : x[i] = r[i]
      /\ \A i \in 1..Len(t) : x[Len(r) + i] = t[i]
  <2>1. t \in Seq(Pieces)
    BY <1>3
  <2>2. x = r \o t
    BY <1>4
  <2>3. /\ x \in Seq(Pieces) /\ Len(x) = Len(r) + Len(t)
        /\ \A i \in 1..Len(r) : x[i] = r[i]
        /\ \A i \in 1..Len(t) : x[Len(r) + i] = t[i]
    BY <2>1, <2>2, JoinFacts
  <2> QED BY <1>3, <2>3
<1>8. /\ e \in Seq(Pieces) /\ Len(e) = Len(l) + Len(o)
      /\ \A i \in 1..Len(l) : e[i] = l[i]
      /\ \A i \in 1..Len(o) : e[Len(l) + i] = o[i]
  <2>1. l \in Seq(Pieces)
    BY <1>3
  <2> QED BY <1>4, <2>1, JoinFacts
<1>9. /\ w[k].end /\ \A j \in 1..(k - 1) : ~w[j].end
      /\ \A j \in 1..Len(r) : ~r[j].end
  BY DEF EndsAt, NoEnd
<1>10. ASSUME NEW j \in 1..(Len(r) + k)
       PROVE  /\ x[j] = f[j]
              /\ j < Len(r) + k => ~f[j].end
  <2>1. j \in 1..Len(r) \/ (j - Len(r) \in 1..k /\ Len(r) + (j - Len(r)) = j)
    BY <1>2
  <2>2. CASE j \in 1..Len(r)
    BY <1>6, <1>7, <1>9, <2>2
  <2>3. CASE j - Len(r) \in 1..k /\ Len(r) + (j - Len(r)) = j
    <3>1. PICK i \in 1..k : i = j - Len(r) /\ Len(r) + i = j
      BY <2>3
    <3>2. i \in 1..Len(w) /\ i \in 1..Len(p) /\ i \in 1..Len(t)
      BY <1>2, <1>3, <1>5, <3>1
    <3>3. x[j] = t[i] /\ t[i] = w[i]
      BY <1>3, <1>7, <3>1, <3>2
    <3>4. f[j] = p[i] /\ p[i] = w[i]
      BY <1>5, <1>6, <3>1, <3>2
    <3>5. j < Len(r) + k => i \in 1..(k - 1)
      BY <1>2, <3>1
    <3> QED BY <1>9, <3>3, <3>4, <3>5
  <2> QED BY <2>1, <2>2, <2>3
<1>11. f[Len(r) + k] = w[k]
  <2>1. k \in 1..Len(p) /\ k \in 1..Len(w)
    BY <1>2, <1>5
  <2> QED BY <1>5, <1>6, <2>1
<1>12. ASSUME NEW j \in 1..Len(e) PROVE e[j] = f[(Len(r) + k) + j]
  <2>0. Len(l) \in Nat
    BY <1>2, <1>3
  <2>1. j \in 1..Len(l) \/ (j - Len(l) \in 1..Len(o) /\ Len(l) + (j - Len(l)) = j)
    BY <1>2, <1>8, <2>0
  <2>2. k + j \in 1..Len(p) /\ (Len(r) + k) + j = Len(r) + (k + j)
    BY <1>2, <1>3, <1>5, <1>8
  <2>3. f[(Len(r) + k) + j] = p[k + j]
    BY <1>6, <2>2
  <2>4. CASE j \in 1..Len(l)
    <3>1. k + j \in 1..Len(w) /\ j \in 1..(Len(w) - k)
      BY <1>2, <1>3, <2>4
    <3>2. e[j] = l[j] /\ l[j] = w[k + j] /\ p[k + j] = w[k + j]
      BY <1>3, <1>5, <1>8, <2>4, <3>1
    <3> QED BY <2>3, <3>2
  <2>5. CASE j - Len(l) \in 1..Len(o) /\ Len(l) + (j - Len(l)) = j
    <3>1. PICK i \in 1..Len(o) : i = j - Len(l) /\ Len(l) + i = j
      BY <2>5
    <3>2. k + j = Len(w) + i
      BY <1>2, <1>3, <3>1
    <3>3. e[j] = o[i] /\ p[k + j] = o[i]
      BY <1>5, <1>8, <3>1, <3>2
    <3> QED BY <2>3, <3>3
  <2> QED BY <2>1, <2>4, <2>5
<1>13. /\ Len(r) + k \in Nat \ {0} /\ Len(f) = (Len(r) + k) + Len(e)
       /\ \A j \in 1..((Len(r) + k) - 1) : j \in 1..(Len(r) + k) /\ j < Len(r) + k
  BY <1>2, <1>3, <1>5, <1>6, <1>8
<1>14. OneRead(f, Len(r) + k, e)
  BY <1>6, <1>8, <1>9, <1>10, <1>11, <1>12, <1>13 DEF OneRead
<1> QED BY <1>1, <1>4, <1>7, <1>10, <1>11, <1>14

\* What is read is a line when it is two pieces of one item.
LEMMA LineOrNot ==
  ASSUME NEW f, NEW n, NEW e, OneRead(f, n, e),
         NEW x \in Seq(Pieces), Len(x) = n, \A j \in 1..n : x[j] = f[j],
         NEW i, i = f[n].item
  PROVE  /\ x = Line(i) => /\ n = 2 /\ f[1] = [item |-> i, end |-> FALSE]
                           /\ f[2] = [item |-> i, end |-> TRUE]
         /\ Alternates(f) => x = Line(i)
<1>1. ASSUME x = Line(i)
      PROVE  n = 2 /\ f[1] = [item |-> i, end |-> FALSE] /\ f[2] = [item |-> i, end |-> TRUE]
  <2>1. /\ Len(x) = 2 /\ x[1] = [item |-> i, end |-> FALSE] /\ x[2] = [item |-> i, end |-> TRUE]
    BY <1>1, LineFacts
  <2>2. n = 2 /\ 1 \in 1..n /\ 2 \in 1..n
    BY <2>1
  <2> QED BY <2>1, <2>2
<1>2. ASSUME Alternates(f) PROVE x = Line(i)
  <2>1. /\ n = 2 /\ f[1] = [item |-> f[2].item, end |-> FALSE]
        /\ f[2] = [item |-> f[2].item, end |-> TRUE]
    BY <1>2, AlternatesOne
  <2>2. x[1] = [item |-> i, end |-> FALSE] /\ x[2] = [item |-> i, end |-> TRUE]
    BY <2>1
  <2>3. x = <<x[1], x[2]>>
    BY <2>1
  <2> QED BY <2>2, <2>3 DEF Line
<1> QED BY <1>1, <1>2

\* What is taken after g from what follows it.
LEMMA CutAfter ==
  ASSUME NEW g \in Seq(Pieces), NEW f \in Seq(Pieces), NEW e \in Seq(Pieces), NEW n \in Nat,
         Len(f) = n + Len(e), \A k \in 1..Len(e) : e[k] = f[n + k]
  PROVE  Without(g \o e, g \o f, Len(g), n)
<1>1. PICK h, b : h = g \o e /\ b = g \o f
  OBVIOUS
<1>2. /\ h \in Seq(Pieces) /\ Len(h) = Len(g) + Len(e)
      /\ \A i \in 1..Len(g) : h[i] = g[i]
      /\ \A i \in 1..Len(e) : h[Len(g) + i] = e[i]
  BY <1>1, JoinFacts
<1>3. /\ b \in Seq(Pieces) /\ Len(b) = Len(g) + Len(f)
      /\ \A i \in 1..Len(g) : b[i] = g[i]
      /\ \A i \in 1..Len(f) : b[Len(g) + i] = f[i]
  <2>1. g \in Seq(Pieces) /\ f \in Seq(Pieces)
    OBVIOUS
  <2>2. /\ g \o f \in Seq(Pieces) /\ Len(g \o f) = Len(g) + Len(f)
        /\ \A i \in 1..Len(g) : (g \o f)[i] = g[i]
        /\ \A i \in 1..Len(f) : (g \o f)[Len(g) + i] = f[i]
    BY ONLY <2>1, JoinFacts
  <2> QED BY <1>1, <2>2
<1>4. Len(g) \in Nat /\ Len(e) \in Nat /\ Len(f) \in Nat
  OBVIOUS
<1>5. ASSUME NEW k \in 1..Len(h) PROVE h[k] = b[To(k, Len(g), n)]
  <2>1. k \in 1..Len(g) \/ (k - Len(g) \in 1..Len(e) /\ Len(g) + (k - Len(g)) = k)
    BY <1>2, <1>4
  <2>2. CASE k \in 1..Len(g)
    BY <1>2, <1>3, <1>4, <2>2 DEF To
  <2>3. CASE k - Len(g) \in 1..Len(e) /\ Len(g) + (k - Len(g)) = k
    <3>1. PICK i \in 1..Len(e) : i = k - Len(g) /\ Len(g) + i = k
      BY <2>3
    <3>2. To(k, Len(g), n) = Len(g) + (n + i) /\ n + i \in 1..Len(f)
      BY <1>4, <3>1 DEF To
    <3>3. h[k] = e[i] /\ b[Len(g) + (n + i)] = f[n + i]
      BY <1>2, <1>3, <3>1, <3>2
    <3> QED BY <3>2, <3>3
  <2> QED BY <2>1, <2>2, <2>3
<1>6. Len(b) = Len(h) + n /\ Len(g) <= Len(h)
  BY <1>2, <1>3, <1>4
<1> QED BY <1>1, <1>2, <1>3, <1>4, <1>5, <1>6 DEF Without

\* What is taken of a stream comes off what follows it.
LEMMA LeftJoin ==
  ASSUME NEW w \in Seq(Pieces), NEW o \in Seq(Pieces), NEW n \in 1..Len(w),
         NEW l, l = Left(w, n), NEW x, x = l \o o, NEW y, y = w \o o
  PROVE  Without(x, y, 0, n)
<1>1. x = l \o o /\ y = w \o o
  OBVIOUS
<1>2. /\ l \in Seq(Pieces) /\ Len(l) = Len(w) - n
      /\ \A i \in 1..(Len(w) - n) : l[i] = w[n + i]
  <2>1. n \in 0..Len(w)
    OBVIOUS
  <2> QED BY <2>1, SplitFacts
<1>3. /\ x \in Seq(Pieces) /\ Len(x) = Len(l) + Len(o)
      /\ \A i \in 1..Len(l) : x[i] = l[i]
      /\ \A i \in 1..Len(o) : x[Len(l) + i] = o[i]
  <2>1. l \in Seq(Pieces) /\ o \in Seq(Pieces)
    BY <1>2
  <2>2. /\ l \o o \in Seq(Pieces) /\ Len(l \o o) = Len(l) + Len(o)
        /\ \A i \in 1..Len(l) : (l \o o)[i] = l[i]
        /\ \A i \in 1..Len(o) : (l \o o)[Len(l) + i] = o[i]
    BY ONLY <2>1, JoinFacts
  <2> QED BY <1>1, <2>2
<1>4. /\ y \in Seq(Pieces) /\ Len(y) = Len(w) + Len(o)
      /\ \A i \in 1..Len(w) : y[i] = w[i]
      /\ \A i \in 1..Len(o) : y[Len(w) + i] = o[i]
  <2>1. w \in Seq(Pieces) /\ o \in Seq(Pieces)
    OBVIOUS
  <2>2. /\ w \o o \in Seq(Pieces) /\ Len(w \o o) = Len(w) + Len(o)
        /\ \A i \in 1..Len(w) : (w \o o)[i] = w[i]
        /\ \A i \in 1..Len(o) : (w \o o)[Len(w) + i] = o[i]
    BY ONLY <2>1, JoinFacts
  <2> QED BY <1>1, <2>2
<1>5. Len(w) \in Nat /\ Len(o) \in Nat /\ Len(l) \in Nat /\ n \in Nat /\ n <= Len(w)
  BY <1>2
<1>6. ASSUME NEW k \in 1..Len(x) PROVE x[k] = y[n + k]
  <2>1. CASE k <= Len(l)
    <3>1. k \in 1..Len(l) /\ k \in 1..(Len(w) - n) /\ n + k \in 1..Len(w)
      BY <1>2, <1>3, <1>5, <2>1
    <3>2. x[k] = l[k] /\ l[k] = w[n + k] /\ y[n + k] = w[n + k]
      BY <1>2, <1>3, <1>4, <3>1
    <3> QED BY <3>2
  <2>2. CASE k > Len(l)
    <3>1. PICK j \in 1..Len(o) : Len(l) + j = k /\ Len(w) + j = n + k
      <4>1. k - Len(l) \in 1..Len(o) /\ Len(l) + (k - Len(l)) = k /\ Len(w) + (k - Len(l)) = n + k
        BY <1>2, <1>3, <1>5, <2>2
      <4> QED BY <4>1
    <3>2. x[k] = o[j] /\ y[n + k] = o[j]
      BY <1>2, <1>3, <1>4, <3>1
    <3> QED BY <3>2
  <2>3. k <= Len(l) \/ k > Len(l)
    BY <1>5
  <2> QED BY <2>1, <2>2, <2>3
<1>7. Len(y) = n + Len(x)
  BY <1>2, <1>3, <1>4, <1>5
<1>8. /\ 0 \in Nat /\ 0 <= Len(x) /\ \A k \in 1..Len(x) : To(k, 0, n) = n + k
  BY <1>3, <1>5 DEF To
<1>9. /\ x \in Seq(Pieces) /\ y \in Seq(Pieces) /\ n \in Nat /\ Len(y) = Len(x) + n
      /\ \A k \in 1..Len(x) : x[k] = y[n + k]
  BY <1>3, <1>4, <1>5, <1>6, <1>7
<1> QED BY <1>8, <1>9 DEF Without

\* A client that has lost its place takes some of what comes.
LEMMA GarbledFlow ==
  ASSUME Typing, NEW c \in Conns, Flow(c), ReceiveGarbled(c)
  PROVE  Apart(c) /\ Flow(c)'
<1>1. PICK n \in DOMAIN down[c] : down' = [down EXCEPT ![c] = Left(@, n)]
  BY DEF ReceiveGarbled
<1>2. PICK s \in {"open", "garbled"} : client' = [client EXCEPT ![c] = s]
  BY DEF ReceiveGarbled
<1>3. /\ client[c] = "garbled"
      /\ UNCHANGED <<log, task, out, pos, rdpart, got, served, cut, lagged>>
  BY DEF ReceiveGarbled
<1>4. Apart(c)
  BY <1>1, <1>2, <1>3 DEF Apart, Quiet, LogGrows, Typing
<1>5. PICK g, r, w, o : g = Heard(got[c]) /\ r = rdpart[c] /\ w = down[c] /\ o = out[c]
  OBVIOUS
<1>6. /\ g \in Seq(Pieces) /\ r \in Seq(Pieces) /\ w \in Seq(Pieces) /\ o \in Seq(Pieces)
      /\ n \in 0..Len(w) /\ n \in 1..Len(w)
  BY <1>5, ViewTypes
<1>7. PICK l : l = Left(w, n)
  OBVIOUS
<1>8. /\ l \in Seq(Pieces) /\ Len(l) = Len(w) - n
      /\ \A i \in 1..(Len(w) - n) : l[i] = w[n + i]
  BY <1>6, <1>7, SplitFacts
<1>9. down'[c] = l /\ client'[c] = s
  BY <1>1, <1>2, <1>5, <1>7 DEF Typing
<1>10. PICK x, y : x = l \o o /\ y = w \o o
  OBVIOUS
<1>11. /\ x \in Seq(Pieces) /\ y \in Seq(Pieces) /\ n \in Nat
       /\ Len(y) = n + Len(x) /\ \A k \in 1..Len(x) : x[k] = y[n + k]
  <2>1. w \in Seq(Pieces) /\ o \in Seq(Pieces) /\ n \in 1..Len(w)
    BY <1>6
  <2>2. l = Left(w, n) /\ x = l \o o /\ y = w \o o
    BY <1>7, <1>10
  <2>3. Without(x, y, 0, n)
    BY ONLY <2>1, <2>2, LeftJoin
  <2>4. \A k \in 1..Len(x) : To(k, 0, n) = n + k
    BY <1>6, <2>3 DEF To, Without
  <2> QED BY <2>3, <2>4 DEF Without
<1>12. Without((g \o r) \o x, (g \o r) \o y, Len(g \o r), n)
  <2>1. g \o r \in Seq(Pieces)
    BY <1>6
  <2> QED BY <1>11, <2>1, CutAfter
<1>13. Stream(c) = (g \o r) \o y /\ (Stream(c))' = (g \o r) \o x
  <2>1. Stream(c) = g \o (r \o y)
    BY <1>3, <1>5, <1>10 DEF Stream, Listens, Feed
  <2>2. (Stream(c))' = g \o (r \o x)
    BY <1>3, <1>5, <1>9, <1>10 DEF Stream, Listens, Feed
  <2>3. (g \o r) \o y = g \o (r \o y)
    BY ONLY <1>6, <1>11
  <2>4. (g \o r) \o x = g \o (r \o x)
    BY ONLY <1>6, <1>11
  <2> QED BY ONLY <2>1, <2>2, <2>3, <2>4
<1>14. task[c] # "none"
  <2>1. down[c] # <<>>
    BY <1>5, <1>6
  <2> QED BY <2>1, NothingYet
<1>15. ~Whole(c)'
  BY <1>3 DEF Flow, Unbroken, Whole
<1>16. Spoils(c)
  BY <1>3, <1>12, <1>13, <1>14, <1>15 DEF Spoils, Flow
<1> QED BY <1>4, <1>16, SpoilsFlow

\* Of the two pieces of a line that is heard, the first goes.
LEMMA HeardOne ==
  ASSUME NEW s \in Seq(Items), NEW i \in Items, NEW f, NEW e, OneRead(f, 2, e),
         f[1] = [item |-> i, end |-> FALSE], f[2] = [item |-> i, end |-> TRUE]
  PROVE  Unbegun(Heard(Append(s, i)) \o e, Heard(s) \o f, Len(s))
<1>1. PICK a, h, g, b : /\ a = Heard(s) /\ h = Heard(Append(s, i)) \o e /\ g = Heard(s) \o f
                        /\ b = Heard(Append(s, i))
  OBVIOUS
<1>2. /\ f \in Seq(Pieces) /\ e \in Seq(Pieces) /\ Len(f) = 2 + Len(e)
      /\ \A k \in 1..Len(e) : e[k] = f[2 + k]
  BY DEF OneRead
<1>3. /\ a \in Seq(Pieces) /\ Len(a) = Len(s) /\ Len(s) \in Nat
      /\ \A k \in 1..Len(s) : a[k] = [item |-> s[k], end |-> TRUE]
  BY <1>1, HeardFacts
<1>4. /\ b \in Seq(Pieces) /\ Len(b) = Len(s) + 1
      /\ \A k \in 1..Len(s) : b[k] = a[k]
      /\ b[Len(s) + 1] = [item |-> i, end |-> TRUE]
  <2>1. PICK t : t = Append(s, i)
    OBVIOUS
  <2>2. /\ t \in Seq(Items) /\ Len(t) = Len(s) + 1 /\ t[Len(s) + 1] = i
        /\ \A k \in 1..Len(s) : t[k] = s[k]
    BY <2>1
  <2>3. /\ b \in Seq(Pieces) /\ Len(b) = Len(t)
        /\ \A k \in 1..Len(t) : b[k] = [item |-> t[k], end |-> TRUE]
    <3>1. t \in Seq(Items)
      BY <2>2
    <3> QED BY <1>1, <2>1, <3>1, HeardFacts
  <2>4. ASSUME NEW k \in 1..Len(s) PROVE b[k] = a[k]
    <3>1. k \in 1..Len(t) /\ t[k] = s[k]
      BY <1>3, <2>2
    <3>2. b[k] = [item |-> t[k], end |-> TRUE]
      BY <2>3, <3>1
    <3> QED BY <1>3, <3>1, <3>2
  <2>5. b[Len(s) + 1] = [item |-> i, end |-> TRUE]
    <3>1. Len(s) + 1 \in 1..Len(t)
      BY <1>3, <2>2
    <3> QED BY <2>2, <2>3, <3>1
  <2>6. b \in Seq(Pieces) /\ Len(b) = Len(s) + 1
    BY <2>2, <2>3
  <2> QED BY <2>4, <2>5, <2>6
<1>5. /\ h \in Seq(Pieces) /\ Len(h) = Len(b) + Len(e)
      /\ \A k \in 1..Len(b) : h[k] = b[k]
      /\ \A k \in 1..Len(e) : h[Len(b) + k] = e[k]
  <2>1. b \in Seq(Pieces)
    BY <1>4
  <2> QED BY <1>1, <1>2, <2>1, JoinFacts
<1>6. /\ g \in Seq(Pieces) /\ Len(g) = Len(a) + Len(f)
      /\ \A k \in 1..Len(a) : g[k] = a[k]
      /\ \A k \in 1..Len(f) : g[Len(a) + k] = f[k]
  <2>1. a \in Seq(Pieces) /\ f \in Seq(Pieces)
    BY <1>2, <1>3
  <2>2. g = a \o f
    BY <1>1
  <2> QED BY <2>1, <2>2, JoinFacts
<1>7. Len(e) \in Nat /\ Len(f) \in Nat
  BY <1>2
<1>8. ASSUME NEW k \in 1..Len(h) PROVE h[k] = g[To(k, Len(s), 1)]
  <2>1. \/ k \in 1..Len(s) \/ k = Len(s) + 1
        \/ k - (Len(s) + 1) \in 1..Len(e) /\ (Len(s) + 1) + (k - (Len(s) + 1)) = k
    BY <1>3, <1>4, <1>5, <1>7
  <2>2. CASE k \in 1..Len(s)
    <3>1. To(k, Len(s), 1) = k /\ k \in 1..Len(b)
      BY <1>3, <1>4, <2>2 DEF To
    <3> QED BY <1>3, <1>4, <1>5, <1>6, <2>2, <3>1
  <2>3. CASE k = Len(s) + 1
    <3>1. To(k, Len(s), 1) = Len(s) + 2 /\ k \in 1..Len(b) /\ 2 \in 1..Len(f)
      BY <1>2, <1>3, <1>4, <1>7, <2>3 DEF To
    <3>2. g[Len(s) + 2] = f[2]
      BY <1>3, <1>6, <3>1
    <3> QED BY <1>4, <1>5, <2>3, <3>1, <3>2
  <2>4. CASE k - (Len(s) + 1) \in 1..Len(e) /\ (Len(s) + 1) + (k - (Len(s) + 1)) = k
    <3>1. PICK j \in 1..Len(e) : j = k - (Len(s) + 1) /\ (Len(s) + 1) + j = k
      BY <2>4
    <3>2. To(k, Len(s), 1) = Len(s) + (2 + j) /\ 2 + j \in 1..Len(f)
      BY <1>2, <1>3, <1>7, <3>1 DEF To
    <3>3. h[k] = e[j]
      BY <1>4, <1>5, <3>1
    <3>4. g[Len(s) + (2 + j)] = f[2 + j]
      BY <1>3, <1>6, <3>2
    <3> QED BY <1>2, <3>2, <3>3, <3>4
  <2> QED BY <2>1, <2>2, <2>3, <2>4
<1>9. ~g[Len(s) + 1].end
  <2>1. 1 \in 1..Len(f)
    BY <1>2, <1>7
  <2>2. g[Len(s) + 1] = f[1]
    BY <1>3, <1>6, <2>1
  <2> QED BY <2>2
<1>10. Len(g) = Len(h) + 1 /\ Len(s) <= Len(h)
  BY <1>2, <1>3, <1>4, <1>5, <1>6, <1>7
<1> QED BY <1>1, <1>3, <1>5, <1>6, <1>8, <1>9, <1>10 DEF Unbegun, Without

LEMMA DropReceiveFlow ==
  ASSUME Typing, NEW c \in Conns, Flow(c), DropReceive(c)
  PROVE  Apart(c) /\ Flow(c)'
<1>1. /\ rdpart' = [rdpart EXCEPT ![c] = <<>>]
      /\ client' = [client EXCEPT ![c] = "open"] /\ client[c] \in {"open", "garbled"}
      /\ cut' = cut \cup {<<c, "receive">>}
      /\ UNCHANGED <<log, task, out, pos, down, got, served, lagged>>
  BY DEF DropReceive
<1>2. Apart(c)
  BY <1>1 DEF Apart, Quiet, LogGrows, Typing
<1>4. rdpart'[c] = <<>> /\ NoEnd(rdpart'[c]) /\ client'[c] = "open"
  BY <1>1 DEF Typing, NoEnd
<1>3. ASSUME task[c] = "none" PROVE (Feed(c))' = <<>> /\ got'[c] = got[c]
  <2>1. down[c] = <<>> /\ out[c] = <<>>
    BY <1>3, NothingYet
  <2> QED BY <1>1, <1>4, <2>1 DEF Feed
<1>5. \E q, n : Without((Stream(c))', Stream(c), q, n)
  <2>1. PICK g, r, e, p : /\ g = Heard(got[c]) /\ r = rdpart[c]
                          /\ e = down[c] \o out[c] /\ p = Stream(c)
    OBVIOUS
  <2>2. g \in Seq(Pieces) /\ r \in Seq(Pieces) /\ e \in Seq(Pieces) /\ p \in Seq(Pieces)
    BY <2>1, ViewTypes
  <2>3. p = g \o (r \o e)
    BY <1>1, <2>1 DEF Stream, Listens, Feed
  <2>4. (Stream(c))' = g \o (<<>> \o e)
    BY <1>1, <1>4, <2>1 DEF Stream, Listens, Feed
  <2>5. <<>> \o e = e
    BY <2>2
  <2>6. /\ r \o e \in Seq(Pieces) /\ Len(r \o e) = Len(r) + Len(e)
        /\ \A i \in 1..Len(e) : (r \o e)[Len(r) + i] = e[i]
    BY ONLY <2>2, JoinFacts
  <2>7. Len(r) \in Nat
    BY <2>2
  <2>8. Without(g \o e, g \o (r \o e), Len(g), Len(r))
    BY <2>2, <2>6, <2>7, CutAfter
  <2> QED BY <2>1, <2>3, <2>4, <2>5, <2>8
<1>6. Spoils(c)
  BY <1>1, <1>3, <1>4, <1>5 DEF Spoils, Whole
<1> QED BY <1>2, <1>6, SpoilsFlow

LEMMA ReceiveFlow ==
  ASSUME Typing, Voiced, NEW c \in Conns, Flow(c), Receive(c)
  PROVE  Apart(c) /\ Flow(c)'
<1>1. PICK k \in DOMAIN down[c] :
        /\ client[c] = "open"
        /\ EndsAt(down[c], k)
        /\ down' = [down EXCEPT ![c] = Left(@, k)]
        /\ rdpart' = [rdpart EXCEPT ![c] = <<>>]
        /\ LET line == rdpart[c] \o Taken(down[c], k)
               i == down[c][k].item
           IN  IF line = Line(i)
               THEN /\ got' = [got EXCEPT ![c] = IF i[1] \in {"reply", "cast"} THEN Append(@, i) ELSE @]
                    /\ UNCHANGED client
               ELSE /\ \E s \in IF case.format = "Json" THEN {"open"} ELSE {"open", "garbled"} :
                          client' = [client EXCEPT ![c] = s]
                    /\ UNCHANGED got
  BY DEF Receive, ReceiveLine
<1>2. UNCHANGED <<log, task, out, pos, served, cut, lagged>>
  BY DEF Receive, ReceiveLine
<1>3. PICK r, w, o : r = rdpart[c] /\ w = down[c] /\ o = out[c]
  OBVIOUS
<1>4. PICK x, i : x = r \o Taken(w, k) /\ i = w[k].item
  OBVIOUS
<1>5. /\ r \in Seq(Pieces) /\ w \in Seq(Pieces) /\ o \in Seq(Pieces)
      /\ NoEnd(r) /\ EndsAt(w, k)
  BY <1>1, <1>3, ViewTypes DEF Flow
<1>6. k \in 1..Len(w)
  BY <1>3, <1>5
<1>7. i \in Items /\ i[1] \in {"reply", "cast"}
  <2>1. w \in Seq(Says)
    BY <1>3 DEF Voiced
  <2>2. w[k] \in Says
    BY <1>6, <2>1
  <2>3. i \in ({"reply"} \X Messages) \cup ({"cast"} \X Nat)
    BY <1>4, <2>2 DEF Says
  <2>4. i[1] \in {"reply", "cast"}
    BY <2>3
  <2>5. i \in Items
    BY <2>3 DEF Items
  <2> QED BY <2>4, <2>5
<1>8. Apart(c)
  <2>1. \A d \in Conns \ {c} : down'[d] = down[d] /\ rdpart'[d] = rdpart[d]
    BY <1>1 DEF Typing
  <2>2. \A d \in Conns \ {c} : got'[d] = got[d] /\ client'[d] = client[d]
    <3>1. \/ \E y : got' = [got EXCEPT ![c] = y]
          \/ got' = got
      BY <1>1
    <3>2. client' = client \/ \E y : client' = [client EXCEPT ![c] = y]
      BY <1>1
    <3> QED BY <3>1, <3>2 DEF Typing
  <2> QED BY <1>2, <2>1, <2>2 DEF Apart, Quiet, LogGrows
<1>9. down'[c] = Left(w, k) /\ rdpart'[c] = <<>> /\ NoEnd(rdpart'[c])
  BY <1>1, <1>3 DEF Typing, NoEnd
<1>10. PICK f, e, n, s : /\ f = r \o (w \o o) /\ e = Left(w, k) \o o
                         /\ n = Len(r) + k /\ s = got[c]
  OBVIOUS
<1>11. Feed(c) = f /\ (Feed(c))' = e /\ Stream(c) = Heard(s) \o f
  <2>1. Left(w, k) \in Seq(Pieces) /\ e \in Seq(Pieces)
    <3>1. k \in 0..Len(w)
      BY <1>5, <1>6
    <3>2. Left(w, k) \in Seq(Pieces)
      BY <1>5, <3>1, SplitFacts
    <3> QED BY <1>5, <1>10, <3>2
  <2>2. <<>> \o e = e
    BY <2>1
  <2>3. (Feed(c))' = <<>> \o e
    BY <1>2, <1>3, <1>9, <1>10 DEF Feed
  <2>4. Feed(c) = f
    BY <1>3, <1>10 DEF Feed
  <2>5. Stream(c) = Heard(s) \o f
    BY <1>1, <1>10, <2>4 DEF Stream, Listens
  <2> QED BY <2>2, <2>3, <2>4, <2>5
<1>12. /\ OneRead(f, n, e)
       /\ x \in Seq(Pieces) /\ Len(x) = n /\ \A j \in 1..n : x[j] = f[j]
       /\ f[n] = w[k]
  <2>1. /\ OneRead(r \o (w \o o), Len(r) + k, Left(w, k) \o o)
        /\ r \o Taken(w, k) \in Seq(Pieces) /\ Len(r \o Taken(w, k)) = Len(r) + k
        /\ \A j \in 1..(Len(r) + k) : (r \o Taken(w, k))[j] = (r \o (w \o o))[j]
        /\ (r \o (w \o o))[Len(r) + k] = w[k]
    BY ONLY <1>5, <1>6, FeedRead
  <2> QED BY ONLY <1>4, <1>10, <2>1
<1>13. /\ x = Line(i) => /\ n = 2 /\ f[1] = [item |-> i, end |-> FALSE]
                         /\ f[2] = [item |-> i, end |-> TRUE]
       /\ Alternates(f) => x = Line(i)
  <2>1. i = f[n].item
    BY <1>4, <1>12
  <2> QED BY <1>12, <2>1, LineOrNot
<1>14. s \in Seq(Items) /\ Heard(s) \in Seq(Pieces) /\ Len(Heard(s)) = Len(s)
  BY <1>10, HeardFacts, ViewTypes
<1>15. task[c] # "none"
  <2>1. w # <<>>
    BY <1>5, <1>6
  <2> QED BY <1>3, <2>1, NothingYet
<1>16. CASE x = Line(i)
  <2>1. got' = [got EXCEPT ![c] = Append(s, i)] /\ client' = client
    BY <1>1, <1>3, <1>4, <1>7, <1>10, <1>16
  <2>2. got'[c] = Append(s, i)
    BY <2>1 DEF Typing
  <2>3. (Stream(c))' = Heard(Append(s, i)) \o e
    BY <1>1, <1>11, <2>1, <2>2 DEF Stream, Listens
  <2>4. OneRead(f, 2, e) /\ f[1] = [item |-> i, end |-> FALSE] /\ f[2] = [item |-> i, end |-> TRUE]
    BY <1>12, <1>13, <1>16
  <2>5. Unbegun(Heard(Append(s, i)) \o e, Heard(s) \o f, Len(s))
    BY <1>7, <1>14, <2>4, HeardOne
  <2>6. Hears(c)
    BY <1>1, <1>2, <1>9, <1>11, <1>15, <2>1, <2>3, <2>4, <2>5 DEF Hears
  <2> QED BY <1>8, <2>6, HearsFlow
<1>17. CASE x # Line(i)
  <2>1. got' = got /\ \E y \in {"open", "garbled"} : client' = [client EXCEPT ![c] = y]
    <3>1. PICK y \in IF case.format = "Json" THEN {"open"} ELSE {"open", "garbled"} :
            client' = [client EXCEPT ![c] = y]
      BY <1>1, <1>3, <1>4, <1>17
    <3>2. y \in {"open", "garbled"}
      OBVIOUS
    <3>3. got' = got
      BY <1>1, <1>3, <1>4, <1>17
    <3> QED BY <3>1, <3>2, <3>3
  <2>2. client'[c] \in {"open", "garbled"}
    BY <2>1 DEF Typing
  <2>3. ~Whole(c)'
    <3>1. ~Alternates(Feed(c))
      BY <1>11, <1>13, <1>17
    <3>2. ~Whole(c)
      BY <1>1, <3>1 DEF Flow, Unbroken
    <3> QED BY <1>2, <3>2 DEF Whole
  <2>4. \E q, j : Without((Stream(c))', Stream(c), q, j)
    <3>1. /\ f \in Seq(Pieces) /\ e \in Seq(Pieces) /\ n \in Nat
          /\ Len(f) = n + Len(e) /\ \A j \in 1..Len(e) : e[j] = f[n + j]
      BY <1>12 DEF OneRead
    <3>2. (Stream(c))' = Heard(s) \o e
      BY <1>10, <1>11, <2>1, <2>2 DEF Stream, Listens
    <3>3. Without(Heard(s) \o e, Heard(s) \o f, Len(Heard(s)), n)
      BY <1>14, <3>1, CutAfter
    <3> QED BY <1>11, <3>2, <3>3
  <2>5. Spoils(c)
    BY <1>2, <1>9, <1>15, <2>3, <2>4 DEF Spoils
  <2> QED BY <1>8, <2>5, SpoilsFlow
<1> QED BY <1>16, <1>17

\* A request is handled, and answered.
LEMMA HandleFlow ==
  ASSUME Typing, Unique, NEW c \in Conns, Flow(c), HandleRequest(c)
  PROVE  Apart(c) /\ Flow(c)'
<1>1. PICK k \in DOMAIN up[c] : LineRead(c, k) /\ Handle(c, k, Answer(c, k))
  BY DEF HandleRequest
<1>2. PICK m : m = up[c][k].item[2]
  OBVIOUS
<1>3. m \in Messages
  <2>1. up[c] \in Seq(Sends)
    BY ConnTypes
  <2>2. up[c][k] \in Sends
    BY <2>1
  <2> QED BY <1>2, <2>2, PieceFacts
<1>4. /\ up' = [up EXCEPT ![c] = Left(@, k)] /\ UNCHANGED <<wr, sent>>
      /\ served' = [served EXCEPT ![c] = Append(@, m)] /\ log' = Append(log, m)
      /\ out' = [out EXCEPT ![c] = Line(<<"reply", m>>)]
      /\ UNCHANGED <<task, pos, client, rdpart, down, got, cut, lagged>>
  BY <1>1, <1>2 DEF Handle, Answer
<1>5. up[c][k].end /\ Selecting(c)
  BY <1>1 DEF LineRead, EndsAt
<1>6. Apart(c)
  BY <1>3, <1>4 DEF Apart, Quiet, LogGrows, Typing
<1>7. /\ \A y \in DOMAIN log : log[y] # m
      /\ \A i \in DOMAIN served[c] : served[c][i] # m
  BY <1>2, <1>4, <1>5, HandleUnique
<1>8. Writes(c, <<"reply", m>>)
  BY <1>4, <1>5 DEF Writes, Selecting, Running, Typing
<1>9. served'[c] = Append(served[c], m) /\ pos'[c] = pos[c]
  BY <1>4 DEF Typing
<1>10. Flow(c)'
  BY <1>3, <1>4, <1>7, <1>8, <1>9, AnswersFlow
<1> QED BY <1>6, <1>10

LEMMA ReadsFlow ==
  ASSUME Typing, NEW c \in Conns, Flow(c),
         ReadPart(c) \/ ReadGarbage(c) \/ ReadGarbled(c) \/ ReadEnd(c)
  PROVE  Apart(c) /\ Flow(c)'
<1>1. /\ UNCHANGED <<log, client, out, pos, rdpart, down, got, served, cut, lagged>>
      /\ Running(c)
      /\ task' = task \/ \E t \in {"ended", "garbled"} : task' = [task EXCEPT ![c] = t]
  <2>1. CASE ReadPart(c)
    BY <2>1 DEF ReadPart, Selecting
  <2>2. CASE ReadGarbage(c)
    <3>1. Running(c) /\ UNCHANGED <<log, client, out, pos, rdpart, down, got, served, cut, lagged>>
      BY <2>2 DEF ReadGarbage, LineRead, Selecting
    <3>2. PICK t \in IF case.format = "Json" THEN {"ended"} ELSE {"ended", "garbled"} :
            task' = [task EXCEPT ![c] = t]
      BY <2>2 DEF ReadGarbage
    <3>3. t \in {"ended", "garbled"}
      OBVIOUS
    <3> QED BY <3>1, <3>2, <3>3
  <2>3. CASE ReadGarbled(c)
    BY <2>3 DEF ReadGarbled, Selecting
  <2>4. CASE ReadEnd(c)
    BY <2>4 DEF ReadEnd, EndTask, Selecting
  <2> QED BY <2>1, <2>2, <2>3, <2>4
<1>2. LogGrows /\ \A d \in Conns \ {c} : task'[d] = task[d]
  BY <1>1 DEF LogGrows, Typing
<1>3. Apart(c)
  BY <1>1, <1>2 DEF Apart, Quiet
<1>4. task'[c] \in {"open", "garbled", "ended"} /\ task[c] \in {"open", "garbled"}
  BY <1>1 DEF Running, Typing
<1>5. (Feed(c))' = Feed(c)
  BY <1>1 DEF Feed
<1>6. Calm(c)
  BY <1>1, <1>4, <1>5 DEF Calm, Flow
<1> QED BY <1>2, <1>3, <1>6, CalmFlow

LEMMA DropReadCut ==
  ASSUME NEW c \in Conns, DropRead(c)
  PROVE  \A d \in Conns : <<d, "receive">> \in cut' <=> <<d, "receive">> \in cut
<1>1. \A d \in Conns : <<d, "receive">> \notin Lost(c)
  BY DEF Lost
<1>2. cut' = cut \cup Lost(c)
  BY DEF DropRead
<1> QED BY <1>1, <1>2

LEMMA TakeFlow ==
  ASSUME Typing, NEW c \in Conns, Flow(c), TakeBroadcast(c)
  PROVE  Apart(c) /\ Flow(c)'
<1>1. /\ Selecting(c) /\ Behind(c) \in 1..case.capacity
      /\ pos' = [pos EXCEPT ![c] = pos[c] + 1]
      /\ out' = [out EXCEPT ![c] = Line(<<"cast", pos[c] + 1>>)]
      /\ DropRead(c) /\ task' = [task EXCEPT ![c] = "open"]
      /\ UNCHANGED <<log, client, rdpart, down, got, served, lagged>>
  BY DEF TakeBroadcast, CanTake, Deliver, DropRead
<1>2. \A d \in Conns : <<d, "receive">> \in cut' <=> <<d, "receive">> \in cut
  BY <1>1, DropReadCut
<1>3. Apart(c)
  BY <1>1, <1>2 DEF Apart, Quiet, LogGrows, Typing
<1>4. Writes(c, <<"cast", pos[c] + 1>>)
  BY <1>1, <1>2 DEF Writes, Selecting, Running, Typing
<1>5. pos[c] \in Nat /\ Len(log) \in Nat /\ pos'[c] = pos[c] + 1
  BY <1>1, ViewTypes DEF Typing
<1>6. pos[c] + 1 <= Len(log)
  BY <1>1, <1>5 DEF Behind
<1>7. Flow(c)'
  BY <1>1, <1>4, <1>5, <1>6, DeliversFlow
<1> QED BY <1>3, <1>7

LEMMA LagFlow ==
  ASSUME Typing, NEW c \in Conns, Flow(c), Lag(c)
  PROVE  Apart(c) /\ Flow(c)'
<1>1. /\ Selecting(c) /\ Behind(c) > case.capacity
      /\ pos' = [pos EXCEPT ![c] = Len(log) - case.capacity]
      /\ lagged' = lagged \cup {c}
      /\ DropRead(c) /\ task' = [task EXCEPT ![c] = "open"]
      /\ UNCHANGED <<log, out, client, rdpart, down, got, served>>
  BY DEF Lag, LagTo, DropRead
<1>2. \A d \in Conns : <<d, "receive">> \in cut' <=> <<d, "receive">> \in cut
  BY <1>1, DropReadCut
<1>3. Apart(c)
  BY <1>1, <1>2 DEF Apart, Quiet, LogGrows, Typing
<1>4. case.capacity \in Nat /\ pos[c] \in Nat /\ Len(log) \in Nat
  <2>1. case.capacity \in Nat \ {0}
    BY CasesAssumption DEF Typing
  <2> QED BY <2>1, ViewTypes
<1>5. pos'[c] = Len(log) - case.capacity
  BY <1>1 DEF Typing
<1>6. pos'[c] \in Nat /\ pos[c] <= pos'[c] /\ pos'[c] <= Len(log)
  BY <1>1, <1>4, <1>5 DEF Behind
<1>7. (Feed(c))' = Feed(c) /\ NoEnd(rdpart'[c]) /\ Running(c) /\ Running(c)' /\ c \in lagged'
  BY <1>1 DEF Feed, Flow, Selecting, Running, Typing
<1>8. Flow(c)'
  BY <1>1, <1>2, <1>6, <1>7, LagsFlow
<1> QED BY <1>3, <1>8

LEMMA RespondFlow ==
  ASSUME Typing, NEW c \in Conns, Flow(c), Respond(c)
  PROVE  Apart(c) /\ Flow(c)'
<1>1. PICK n \in Fits(out[c], down[c]) :
        /\ down' = [down EXCEPT ![c] = down[c] \o Taken(out[c], n)]
        /\ out' = [out EXCEPT ![c] = Left(out[c], n)]
  BY DEF Respond
<1>2. UNCHANGED <<log, client, task, pos, rdpart, got, served, cut, lagged>>
  BY DEF Respond
<1>3. Apart(c) /\ LogGrows
  BY <1>1, <1>2 DEF Apart, Quiet, LogGrows, Typing
<1>4. (Feed(c))' = Feed(c)
  <2>1. PICK r, w, o : r = rdpart[c] /\ w = down[c] /\ o = out[c]
    OBVIOUS
  <2>2. w \in Seq(Pieces) /\ o \in Seq(Pieces)
    BY <2>1, ViewTypes
  <2>3. n \in 0..Len(o)
    BY <2>1, <2>2, FitsFacts
  <2>4. (w \o Taken(o, n)) \o Left(o, n) = w \o o
    BY <2>2, <2>3, Regroup
  <2>5. (Feed(c))' = r \o ((w \o Taken(o, n)) \o Left(o, n))
    BY <1>1, <1>2, <2>1 DEF Feed, Typing
  <2> QED BY <2>1, <2>4, <2>5 DEF Feed
<1>5. Calm(c)
  BY <1>2, <1>4 DEF Calm, Flow
<1> QED BY <1>3, <1>5, CalmFlow

LEMMA FailsFlow ==
  ASSUME Typing, NEW c \in Conns, Flow(c), RespondFails(c)
  PROVE  Apart(c) /\ Flow(c)'
<1>1. /\ Running(c) /\ client[c] = "closed"
      /\ task' = [task EXCEPT ![c] = IF out[c][1].item[1] = "cast" THEN "ended" ELSE @]
      /\ out' = [out EXCEPT ![c] = <<>>]
      /\ UNCHANGED <<log, client, pos, rdpart, down, got, served, cut, lagged>>
  BY DEF RespondFails
<1>2. Apart(c) /\ LogGrows
  BY <1>1 DEF Apart, Quiet, LogGrows, Typing
<1>3. task'[c] \in {"open", "garbled", "ended"} /\ task[c] \in {"open", "garbled"}
  BY <1>1 DEF Running, Typing
<1>4. Calm(c)
  BY <1>1, <1>3 DEF Calm, Flow, Listens
<1> QED BY <1>2, <1>4, CalmFlow

\* The accept loop and the server.
LEMMA AcceptFlow ==
  ASSUME LinkInv, \A d \in Conns : Flow(d), Accept
  PROVE  \A d \in Conns : Flow(d)'
<1>1. /\ backlog # <<>>
      /\ task' = [task EXCEPT ![Head(backlog)] = "open"]
      /\ pos' = [pos EXCEPT ![Head(backlog)] = Len(log)]
      /\ UNCHANGED <<log, client, out, rdpart, down, got, served, cut, lagged>>
  BY DEF Accept, Spawn
<1>2. PICK c \in Conns : c = Head(backlog) /\ task[c] = "none"
  <2>1. backlog \in Seq(Conns) /\ Len(backlog) \in Nat
    BY DEF LinkInv, Typing
  <2>2. Head(backlog) = backlog[1] /\ 1 \in 1..Len(backlog) /\ backlog[1] \in Conns
    BY <1>1, <2>1
  <2>3. task[backlog[1]] = "none"
    BY <2>2 DEF LinkInv, Queue
  <2> QED BY <2>2, <2>3
<1>3. Typing
  BY DEF LinkInv
<1>4. Apart(c)
  BY <1>1, <1>2, <1>3 DEF Apart, Quiet, LogGrows, Typing
<1>5. (Feed(c))' = <<>> /\ served'[c] = <<>> /\ got'[c] = <<>>
  BY <1>1, <1>2, <1>3, NothingYet DEF Feed
<1>6. pos'[c] = Len(log) /\ Len(log) \in Nat
  BY <1>1, <1>2, <1>3 DEF Typing
<1>7. pos'[c] <= Len(log')
  BY <1>1, <1>6
<1>8. NoEnd(rdpart'[c]) /\ (Whole(c)' => client'[c] # "garbled")
  BY <1>1 DEF Flow, Unbroken, Whole
<1>9. Flow(c)'
  BY <1>5, <1>7, <1>8, EmptyFlow
<1> QED BY <1>3, <1>4, <1>9, ApartFlow

LEMMA CheckFlow ==
  ASSUME Typing, \A d \in Conns : Flow(d), CheckRunning
  PROVE  \A d \in Conns : Flow(d)'
<1>1. UNCHANGED <<log, client, out, pos, rdpart, down, got, served, cut, lagged>>
  BY DEF CheckRunning
<1>2. \A d \in Conns : task'[d] = task[d] \/ task'[d] = "ended"
  BY DEF CheckRunning
<1>3. LogGrows
  BY <1>1 DEF LogGrows
<1>4. ASSUME NEW d \in Conns PROVE Flow(d)'
  <2>1. (Feed(d))' = Feed(d)
    BY <1>1 DEF Feed
  <2>2. Calm(d)
    BY <1>1, <1>2, <2>1 DEF Calm, Flow
  <2> QED BY <1>3, <2>2, CalmFlow
<1> QED BY <1>4

LEMMA ServerFlow ==
  ASSUME Typing, \A d \in Conns : Flow(d),
         Stop \/ (\E h \in Hosted : HostBroadcast(h)) \/ Start \/ UNCHANGED vars
  PROVE  \A d \in Conns : Flow(d)'
<1>1. UNCHANGED <<task, client, out, pos, rdpart, down, got, served, cut, lagged>>
  BY DEF Stop, HostBroadcast, Start, vars
<1>2. LogGrows
  BY DEF LogGrows, Stop, HostBroadcast, Start, vars
<1>3. \A d \in Conns : Quiet(d)
  BY <1>1 DEF Quiet
<1> QED BY <1>2, <1>3, QuietFlow

LEMMA CrashFlow ==
  ASSUME LinkInv, \A d \in Conns : Flow(d), Crash
  PROVE  \A d \in Conns : Flow(d)'
<1>1. /\ task' = [c \in Conns |-> IF client[c] = "none" THEN "none" ELSE "ended"]
      /\ out' = [c \in Conns |-> <<>>]
      /\ UNCHANGED <<log, client, pos, rdpart, down, got, served, cut, lagged>>
  BY DEF Crash
<1> SUFFICES ASSUME NEW c \in Conns PROVE Flow(c)'
  OBVIOUS
<1>2. Typing /\ Flow(c) /\ Untouched(c)
  BY DEF LinkInv, Sound
<1>3. out'[c] = <<>> /\ (client[c] = "none" => task[c] = "none")
  BY <1>1, <1>2 DEF Untouched
<1>4. NoEnd(rdpart'[c]) /\ pos'[c] <= Len(log') /\ (Whole(c)' => client'[c] # "garbled")
  BY <1>1, <1>2 DEF Flow, Unbroken, Whole
<1>5. CASE client[c] = "none"
  <2>1. (Feed(c))' = <<>> /\ served'[c] = <<>> /\ got'[c] = <<>>
    BY <1>1, <1>2, <1>3, <1>5, NothingYet DEF Feed
  <2> QED BY <1>4, <2>1, EmptyFlow
<1>6. CASE client[c] # "none"
  <2>1. PICK g, r, w, o : g = Heard(got[c]) /\ r = rdpart[c] /\ w = down[c] /\ o = out[c]
    OBVIOUS
  <2>2. /\ g \in Seq(Pieces) /\ r \in Seq(Pieces) /\ w \in Seq(Pieces) /\ o \in Seq(Pieces)
        /\ r \o w \in Seq(Pieces) /\ g \o (r \o w) \in Seq(Pieces)
    BY <1>2, <2>1, ViewTypes
  <2>3. r \o (w \o o) = (r \o w) \o o /\ w \o <<>> = w
    BY <2>2, Associative
  <2>4. g \o ((r \o w) \o o) = (g \o (r \o w)) \o o
    BY <2>2, Associative
  <2>5. Feed(c) = (r \o w) \o o /\ (Feed(c))' = r \o w
    BY <1>1, <1>3, <2>1, <2>3 DEF Feed
  <2>6. Front((Feed(c))', Feed(c))
    BY <2>2, <2>5, FrontFirst
  <2>7. Front((Stream(c))', Stream(c))
    <3>1. CASE Listens(c)
      <4>1. (Stream(c))' = g \o (r \o w) /\ Stream(c) = (g \o (r \o w)) \o o
        BY <1>1, <2>1, <2>4, <2>5, <3>1 DEF Stream, Listens
      <4> QED BY <2>2, <4>1, FrontFirst
    <3>2. CASE ~Listens(c)
      <4>1. (Stream(c))' = g /\ Stream(c) = g
        BY <1>1, <2>1, <3>2 DEF Stream, Listens
      <4> QED BY <2>2, <4>1, FrontFirst
    <3> QED BY <3>1, <3>2
  <2>8. task'[c] = "ended"
    BY <1>1, <1>6
  <2>9. Loses(c)
    BY <1>1, <1>4, <2>6, <2>7, <2>8 DEF Loses, Lively, Whole
  <2> QED BY <1>2, <2>9, LosesFlow
<1> QED BY <1>5, <1>6

LEMMA FlowStep ==
  ASSUME LinkInv, Voiced, Unique, \A d \in Conns : Flow(d), [Next]_vars
  PROVE  \A d \in Conns : Flow(d)'
<1>1. Typing
  BY DEF LinkInv
<1>2. ASSUME NEW c \in Conns,
             \/ Connect(c) \/ Close(c)
             \/ \E m \in Messages : BeginSend(c, m)
             \/ Sending(c) \/ DropSend(c)
             \/ Receiving(c) \/ DropReceive(c)
      PROVE  \A d \in Conns : Flow(d)'
  <2>1. Apart(c) /\ Flow(c)'
    BY <1>1, <1>2, ConnectFlow, CloseFlow, SendFlow, ReceivePartFlow, ReceiveFlow,
       GarbledFlow, DropReceiveFlow DEF Receiving, Connect
  <2> QED BY <1>1, <2>1, ApartFlow
<1>3. ASSUME NEW c \in Conns, Serve(c) PROVE \A d \in Conns : Flow(d)'
  <2>1. Apart(c) /\ Flow(c)'
    BY <1>1, <1>3, HandleFlow, ReadsFlow, TakeFlow, LagFlow, RespondFlow, FailsFlow
    DEF Serve, WithoutRequest
  <2> QED BY <1>1, <2>1, ApartFlow
<1>4. CASE Accepting
  BY <1>1, <1>4, CheckFlow, AcceptFlow DEF Accepting
<1>5. CASE Stop \/ (\E h \in Hosted : HostBroadcast(h)) \/ Start \/ UNCHANGED vars
  BY <1>1, <1>5, ServerFlow
<1>6. CASE Crash
  BY <1>6, CrashFlow
<1> QED BY <1>2, <1>3, <1>4, <1>5, <1>6 DEF Next

-----------------------------------------------------------------------------
(* The theorems.                                                           *)

OrderAll == LinkInv /\ Voiced /\ OrderInv

LEMMA OrderInit == Init => OrderAll
BY SoundInit, VoicedInit, UniqueInit, FlowInit DEF OrderAll, OrderInv

LEMMA OrderStep == OrderAll /\ [Next]_vars => OrderAll'
<1> SUFFICES ASSUME OrderAll, [Next]_vars PROVE OrderAll'
  OBVIOUS
<1>1. LinkInv /\ Voiced /\ Unique /\ (\A c \in Conns : Flow(c)) /\ Typing
  BY DEF OrderAll, OrderInv, LinkInv
<1>2. LinkInv'
  BY <1>1, LinkStep
<1>3. Voiced'
  BY <1>1, VoicedStep
<1>4. Unique'
  BY <1>1, UniqueStep
<1>5. \A c \in Conns : Flow(c)'
  BY <1>1, FlowStep
<1> QED BY <1>2, <1>3, <1>4, <1>5 DEF OrderAll, OrderInv

\* What a client got is the beginning of its stream.
LEMMA HeardStream ==
  ASSUME Typing, NEW c \in Conns
  PROVE  /\ Front(Heard(got[c]), Stream(c))
         /\ \A k \in DOMAIN got[c] : \A i : Shows(Heard(got[c]), k, i) <=> got[c][k] = i
         /\ DOMAIN Heard(got[c]) = DOMAIN got[c] /\ DOMAIN got[c] = 1..Len(got[c])
<1>1. PICK s, g, f : s = got[c] /\ g = Heard(got[c]) /\ f = Feed(c)
  OBVIOUS
<1>2. s \in Seq(Items) /\ g \in Seq(Pieces) /\ f \in Seq(Pieces)
  BY <1>1, ViewTypes
<1>3. Front(g, g \o f) /\ Front(g, g)
  BY <1>2, FrontFirst
<1>4. Front(g, Stream(c))
  BY <1>1, <1>3 DEF Stream
<1>5. /\ Len(g) = Len(s) /\ Len(s) \in Nat
      /\ \A k \in 1..Len(s) : g[k] = [item |-> s[k], end |-> TRUE] /\ s[k] \in Items
  BY <1>1, <1>2, HeardFacts
<1>6. DOMAIN g = DOMAIN s /\ DOMAIN s = 1..Len(s)
  BY <1>2, <1>5
<1>7. ASSUME NEW k \in DOMAIN s, NEW i PROVE Shows(g, k, i) <=> s[k] = i
  <2>1. g[k] = [item |-> s[k], end |-> TRUE] /\ k \in DOMAIN g
    BY <1>5, <1>6
  <2>2. g[k].item = s[k]
    BY <2>1
  <2>3. ASSUME g[k] = [item |-> i, end |-> TRUE] PROVE s[k] = i
    BY <2>2, <2>3
  <2>4. ASSUME s[k] = i PROVE g[k] = [item |-> i, end |-> TRUE]
    BY <2>1, <2>4
  <2> QED BY <2>1, <2>3, <2>4 DEF Shows
<1> QED BY <1>1, <1>4, <1>6, <1>7

\* The broadcasts a client got rise, and are in the log.
Rises ==
  \A c \in Conns :
    /\ \A k \in CastsOf(c) : /\ got[c][k] = <<"cast", got[c][k][2]>>
                             /\ got[c][k][2] \in 1..Len(log)
    /\ \A j, k \in CastsOf(c) : j < k => got[c][j][2] < got[c][k][2]

LEMMA CastFacts ==
  /\ \A i \in Items : IsCast(i) => i = <<"cast", i[2]>> /\ i[2] \in Nat
  /\ \A i \in Items : IsReply(i) => i = <<"reply", i[2]>> /\ i[2] \in Messages
BY DEF Items, IsCast, IsReply

LEMMA GotRises == OrderAll => Rises
<1> SUFFICES ASSUME OrderAll, NEW c \in Conns
             PROVE  /\ \A k \in CastsOf(c) : /\ got[c][k] = <<"cast", got[c][k][2]>>
                                             /\ got[c][k][2] \in 1..Len(log)
                    /\ \A j, k \in CastsOf(c) : j < k => got[c][j][2] < got[c][k][2]
  BY DEF Rises
<1>1. Typing /\ Flow(c)
  BY DEF OrderAll, OrderInv, LinkInv
<1>2. PICK s, g : s = got[c] /\ g = Heard(got[c])
  OBVIOUS
<1>3. s \in Seq(Items) /\ pos[c] \in Nat /\ Len(log) \in Nat /\ pos[c] <= Len(log)
  BY <1>1, <1>2, ViewTypes DEF Flow
<1>4. /\ \A k \in DOMAIN s : \A i : Shows(g, k, i) <=> s[k] = i
      /\ DOMAIN g = DOMAIN s /\ Front(g, Stream(c))
  BY <1>1, <1>2, HeardStream
<1>5. Rising(g, pos[c])
  <2>1. Rising(Stream(c), pos[c])
    BY <1>1 DEF Flow
  <2> QED BY <1>4, <2>1, FrontFacts, RisingWithout
<1>6. ASSUME NEW k \in CastsOf(c)
      PROVE  k \in DOMAIN s /\ s[k] = <<"cast", s[k][2]>> /\ s[k][2] \in Nat
  <2>1. k \in DOMAIN s /\ IsCast(s[k])
    BY <1>2 DEF CastsOf
  <2>2. s[k] \in Items
    BY <1>3, <2>1
  <2> QED BY <2>1, <2>2, CastFacts
<1>7. \A k \in CastsOf(c) : k \in DOMAIN g /\ Shows(g, k, <<"cast", s[k][2]>>) /\ s[k][2] \in Nat
  BY <1>4, <1>6
<1>8. \A k \in CastsOf(c) : s[k][2] \in 1..pos[c]
  BY <1>5, <1>7 DEF Rising
<1>9. \A j, k \in CastsOf(c) : j < k => s[j][2] < s[k][2]
  BY <1>5, <1>7 DEF Rising
<1>10. \A k \in CastsOf(c) : s[k][2] \in 1..Len(log)
  BY <1>3, <1>8
<1> QED BY <1>2, <1>6, <1>9, <1>10

LEMMA GotAnswers == OrderAll => AnswersFirst
<1> SUFFICES ASSUME OrderAll PROVE AnswersFirst
  OBVIOUS
<1>1. ASSUME NEW c \in Conns, Whole(c), NEW k \in DOMAIN got[c]
      PROVE  LET Answered(i) == \E j \in 1..(k - 1) : got[c][j] = <<"reply", served[c][i]>>
             IN  /\ IsReply(got[c][k]) =>
                      \E n \in DOMAIN served[c] :
                        /\ got[c][k] = <<"reply", served[c][n]>> /\ ~Answered(n)
                        /\ \A i \in 1..(n - 1) : Answered(i)
                 /\ IsCast(got[c][k]) =>
                      \A i \in DOMAIN served[c] : log[got[c][k][2]] = served[c][i] => Answered(i)
  <2>0. PICK s, v : s = got[c] /\ v = served[c]
    OBVIOUS
  <2> DEFINE Answered(i) == \E j \in 1..(k - 1) : s[j] = <<"reply", v[i]>>
  <2>1. Typing /\ Flow(c)
    BY DEF OrderAll, OrderInv, LinkInv
  <2>2. PICK g, l : g = Heard(got[c]) /\ l = log
    OBVIOUS
  <2>3. /\ s \in Seq(Items) /\ v \in Seq(Messages) /\ l \in Seq(Messages \cup Hosted)
        /\ Len(v) \in Nat /\ Len(s) \in Nat
    BY <2>0, <1>1, <2>1, <2>2, ViewTypes
  <2>4. /\ \A j \in DOMAIN s : \A i : Shows(g, j, i) <=> s[j] = i
        /\ DOMAIN g = DOMAIN s /\ Front(g, Stream(c)) /\ DOMAIN s = 1..Len(s)
    BY <2>0, <1>1, <2>1, <2>2, HeardStream
  <2>5. Orderly(g, v, l)
    <3>1. Orderly(Stream(c), v, l)
      BY <2>0, <1>1, <2>1, <2>2 DEF Flow, Unbroken
    <3> QED BY <2>3, <2>4, <3>1, OrderlyFront
  <2>6. \A m : Told(g, m, k) <=> \E j \in 1..(k - 1) : s[j] = <<"reply", m>>
    <3>1. k \in 1..Len(s)
      BY <2>0, <1>1, <2>4
    <3>2. \A j : (j \in DOMAIN g /\ j < k) <=> j \in 1..(k - 1)
      BY <2>3, <2>4, <3>1
    <3> QED BY <2>4, <3>2 DEF Told
  <2>7. \A i : Told(g, v[i], k) <=> Answered(i)
    BY <2>6
  <2> HIDE DEF Answered
  <2>8. k \in DOMAIN s /\ s[k] \in Items
    BY <1>1, <2>0, <2>3
  <2>9. ASSUME IsReply(s[k])
        PROVE  \E n \in DOMAIN v : /\ s[k] = <<"reply", v[n]>> /\ ~Answered(n)
                                   /\ \A i \in 1..(n - 1) : Answered(i)
    <3>1. PICK m \in Messages : s[k] = <<"reply", m>>
      BY <2>0, <2>8, <2>9, CastFacts
    <3>2. Shows(g, k, <<"reply", m>>) /\ k \in DOMAIN g
      BY <2>4, <2>8, <3>1
    <3>3. PICK n \in 1..Len(v) : /\ m = v[n] /\ ~Told(g, m, k)
                                 /\ \A i \in 1..(n - 1) : Told(g, v[i], k)
      BY <2>5, <3>2 DEF Orderly
    <3>4. n \in DOMAIN v
      BY <2>3
    <3> QED BY <2>7, <3>1, <3>3, <3>4
  <2>10. ASSUME IsCast(s[k]), NEW i \in DOMAIN v, log[s[k][2]] = v[i]
         PROVE  Answered(i)
    <3>1. k \in CastsOf(c)
      BY <2>0, <1>1, <2>10 DEF CastsOf
    <3>2. s[k] = <<"cast", s[k][2]>> /\ s[k][2] \in 1..Len(l)
      BY <2>0, <1>1, <2>2, <3>1, GotRises DEF Rises
    <3>3. Shows(g, k, <<"cast", s[k][2]>>) /\ k \in DOMAIN g
      BY <2>4, <2>8, <3>2
    <3>4. i \in 1..Len(v)
      BY <2>3
    <3>5. Told(g, v[i], k)
      BY <2>0, <2>2, <2>5, <2>10, <3>2, <3>3, <3>4 DEF Orderly
    <3> QED BY <2>7, <3>5
  <2> QED BY <2>0, <2>9, <2>10 DEF Answered
<1> QED BY <1>1 DEF AnswersFirst

\* A client that finishes its reads gets the answers in the order of its
\* requests, and a broadcast of a request of its own after the answer to it, for
\* any interleaving of reads and broadcasts and sockets of any size: the server
\* answers before it takes another branch of the select! (unix_socket.rs:163-206).
THEOREM AnswersComeFirst == Spec => []AnswersFirst
BY GotAnswers, OrderInit, OrderStep, PTL DEF Spec

LEMMA GotNoGap == OrderAll => NoSilentGap
<1> SUFFICES ASSUME OrderAll PROVE NoSilentGap
  OBVIOUS
<1>1. ASSUME NEW c \in Conns, Whole(c), c \notin lagged,
             NEW j \in CastsOf(c), NEW k \in CastsOf(c), j < k,
             \A l \in CastsOf(c) : l <= j \/ k <= l
      PROVE  got[c][k][2] = got[c][j][2] + 1
  <2>1. Typing /\ Flow(c)
    BY DEF OrderAll, OrderInv, LinkInv
  <2>2. PICK g, s : g = Heard(got[c]) /\ s = got[c]
    OBVIOUS
  <2>3. /\ \A l \in DOMAIN s : \A i : Shows(g, l, i) <=> s[l] = i
        /\ DOMAIN g = DOMAIN s /\ Front(g, Stream(c)) /\ DOMAIN s = 1..Len(s)
    BY <2>1, <2>2, HeardStream
  <2>4. Solid(g)
    BY <1>1, <2>1, <2>3, SolidFront DEF Flow, Unbroken
  <2>5. PICK x, y \in Nat : /\ x = s[j][2] /\ y = s[k][2] /\ x < y
                            /\ s[j] = <<"cast", x>> /\ s[k] = <<"cast", y>>
    BY <1>1, <2>2, GotRises DEF Rises
  <2>6. j \in DOMAIN s /\ k \in DOMAIN s
    BY <2>2 DEF CastsOf
  <2>7. Reaches(g, x, y)
    <3>1. Shows(g, j, <<"cast", x>>) /\ Shows(g, k, <<"cast", y>>)
      BY <2>3, <2>5, <2>6
    <3>2. j \in DOMAIN g /\ k \in DOMAIN g
      BY <2>3, <2>6
    <3> QED BY <2>4, <2>5, <3>1, <3>2 DEF Solid
  <2>8. x + 1 \in x..y
    BY <2>5
  <2>9. PICK l \in DOMAIN g : Shows(g, l, <<"cast", x + 1>>)
    BY <2>7, <2>8 DEF Reaches
  <2>10. s[l] = <<"cast", x + 1>> /\ l \in DOMAIN s
    BY <2>3, <2>9
  <2>11. l \in CastsOf(c) /\ got[c][l][2] = x + 1
    BY <2>2, <2>10 DEF CastsOf, IsCast
  <2>12. l \in Nat /\ j \in Nat /\ k \in Nat
    BY <2>3, <2>6, <2>10
  <2>13. /\ l < j => got[c][l][2] < x
         /\ k < l => y < got[c][l][2]
    BY <2>2, <2>5, <2>11, GotRises DEF Rises
  <2>14. l = k
    <3>1. l <= j \/ k <= l
      BY <1>1, <2>11
    <3>2. l # j
      BY <2>2, <2>5, <2>11
    <3> QED BY <2>5, <2>11, <2>12, <2>13, <3>1, <3>2
  <2> QED BY <2>2, <2>5, <2>11, <2>14
<1> QED BY <1>1 DEF NoSilentGap

\* Between two broadcasts a client got it missed none, unless its receiver lagged
\* or it dropped a read: the channel's position moves one at a time, and what is
\* taken from it is written before the next is (unix_socket.rs:213-241).
THEOREM NoGapHidden == Spec => []NoSilentGap
BY GotNoGap, OrderInit, OrderStep, PTL DEF Spec

-----------------------------------------------------------------------------
(* The broadcasts implement OrderedBroadcast.                              *)

CastsIn(s) == {k \in DOMAIN s : IsCast(s[k])}
LastIn(s) == s[CHOOSE k \in CastsIn(s) : \A j \in CastsIn(s) : j <= k][2]
HasLast(s) == CastsIn(s) # {} => \E k \in CastsIn(s) : \A j \in CastsIn(s) : j <= k

LEMMA LastFacts ==
  ASSUME NEW s, HasLast(s), CastsIn(s) # {}
  PROVE  \E k \in CastsIn(s) : LastIn(s) = s[k][2] /\ \A j \in CastsIn(s) : j <= k
<1> DEFINE k == CHOOSE q \in CastsIn(s) : \A j \in CastsIn(s) : j <= q
<1>1. \E i \in CastsIn(s) : \A j \in CastsIn(s) : j <= i
  BY DEF HasLast
<1>2. k \in CastsIn(s) /\ \A j \in CastsIn(s) : j <= k
  BY <1>1, Zenon
<1>3. LastIn(s) = s[k][2]
  BY DEF LastIn
<1> QED BY <1>2, <1>3

\* The last broadcast is the one that is farthest.
LEMMA LastOne ==
  ASSUME NEW t, NEW n \in CastsIn(t), n \in Nat,
         \A k \in CastsIn(t) : k \in Nat /\ k <= n
  PROVE  HasLast(t) /\ LastIn(t) = t[n][2]
<1>1. HasLast(t)
  BY DEF HasLast
<1>2. PICK k \in CastsIn(t) : LastIn(t) = t[k][2] /\ \A j \in CastsIn(t) : j <= k
  BY <1>1, LastFacts
<1>3. k = n
  <2>1. k \in Nat /\ k <= n
    OBVIOUS
  <2>2. n <= k
    BY <1>2
  <2> QED BY <2>1, <2>2
<1> QED BY <1>1, <1>2, <1>3

\* A reply is received.
LEMMA AppendReply ==
  ASSUME NEW s \in Seq(Items), NEW i \in Items, ~IsCast(i), HasLast(s),
         NEW t, t = Append(s, i)
  PROVE  /\ CastsIn(t) = CastsIn(s) /\ \A k \in CastsIn(s) : t[k] = s[k]
         /\ HasLast(t) /\ (CastsIn(s) # {} => LastIn(t) = LastIn(s))
<1>1. /\ DOMAIN s = 1..Len(s) /\ DOMAIN t = 1..(Len(s) + 1) /\ Len(s) \in Nat
      /\ t[Len(s) + 1] = i /\ \A k \in 1..Len(s) : t[k] = s[k]
  OBVIOUS
<1>2. \A k \in DOMAIN t : k \in DOMAIN s \/ k = Len(s) + 1
  BY <1>1
<1>3. CastsIn(t) = CastsIn(s)
  BY <1>1, <1>2 DEF CastsIn
<1>4. \A k \in CastsIn(s) : t[k] = s[k]
  BY <1>1 DEF CastsIn
<1>5. HasLast(t)
  BY <1>3 DEF HasLast
<1>6. ASSUME CastsIn(s) # {} PROVE LastIn(t) = LastIn(s)
  <2>1. PICK k \in CastsIn(s) : k = CHOOSE q \in CastsIn(s) : \A j \in CastsIn(s) : j <= q
    <3>1. \E k \in CastsIn(s) : \A j \in CastsIn(s) : j <= k
      BY <1>6 DEF HasLast
    <3> QED BY <3>1, Zenon
  <2>2. LastIn(t) = t[k][2] /\ LastIn(s) = s[k][2]
    BY <1>3, <2>1 DEF LastIn
  <2> QED BY <1>4, <2>2
<1> QED BY <1>3, <1>4, <1>5, <1>6

\* A broadcast is received.
LEMMA AppendCast ==
  ASSUME NEW s \in Seq(Items), NEW i \in Items, IsCast(i), NEW t, t = Append(s, i)
  PROVE  /\ CastsIn(t) = CastsIn(s) \cup {Len(s) + 1} /\ \A k \in CastsIn(s) : t[k] = s[k]
         /\ \A k \in CastsIn(s) : k < Len(s) + 1
         /\ HasLast(t) /\ LastIn(t) = t[Len(s) + 1][2]
<1>1. /\ DOMAIN s = 1..Len(s) /\ DOMAIN t = 1..(Len(s) + 1) /\ Len(s) \in Nat
      /\ t[Len(s) + 1] = i /\ \A k \in 1..Len(s) : t[k] = s[k]
  OBVIOUS
<1>2. \A k \in DOMAIN t : k \in DOMAIN s \/ k = Len(s) + 1
  BY <1>1
<1>3. CastsIn(t) = CastsIn(s) \cup {Len(s) + 1}
  <2>1. \A k \in DOMAIN s : k \in DOMAIN t /\ t[k] = s[k]
    BY <1>1
  <2>2. Len(s) + 1 \in DOMAIN t
    BY <1>1
  <2> QED BY <1>1, <1>2, <2>1, <2>2 DEF CastsIn
<1>4. \A k \in CastsIn(s) : t[k] = s[k] /\ k < Len(s) + 1 /\ k \in Nat
  BY <1>1 DEF CastsIn
<1>5. Len(s) + 1 \in CastsIn(t) /\ \A k \in CastsIn(t) : k <= Len(s) + 1 /\ k \in Nat
  BY <1>1, <1>3, <1>4
<1>6. HasLast(t) /\ LastIn(t) = t[Len(s) + 1][2]
  BY <1>1, <1>5, LastOne
<1> QED BY <1>3, <1>4, <1>6

\* How the log and what was got change.
LEMMA GotSteps ==
  ASSUME OrderAll, [Next]_vars
  PROVE  \/ got' = got /\ log' = log
         \/ /\ got' = got
            /\ \E x \in Messages \cup Hosted :
                 log' = Append(log, x) /\ \A y \in DOMAIN log : log[y] # x
         \/ /\ log' = log
            /\ \E c \in Conns, i \in Items : got' = [got EXCEPT ![c] = Append(@, i)]
<1>1. Typing /\ Unique
  BY DEF OrderAll, OrderInv, LinkInv
<1>2. ASSUME NEW c \in Conns,
             \/ Connect(c) \/ Close(c)
             \/ \E m \in Messages : BeginSend(c, m)
             \/ Sending(c) \/ DropSend(c)
             \/ ReceivePart(c) \/ ReceiveGarbled(c) \/ DropReceive(c)
      PROVE  got' = got /\ log' = log
  BY <1>2 DEF Connect, ConnectToSend, Close, BeginSend, Sending, Write, WriteFails, DropSend,
              ReceivePart, ReceiveGarbled, DropReceive
<1>3. ASSUME NEW c \in Conns, Receive(c)
      PROVE  log' = log /\ \/ got' = got
                           \/ \E i \in Items : got' = [got EXCEPT ![c] = Append(@, i)]
  <2>1. log' = log
    BY <1>3 DEF Receive, ReceiveLine
  <2>2. PICK k \in DOMAIN down[c] :
          \/ got' = got
          \/ got' = [got EXCEPT ![c] = IF down[c][k].item[1] \in {"reply", "cast"}
                                       THEN Append(@, down[c][k].item) ELSE @]
    BY <1>3 DEF Receive, ReceiveLine
  <2>3. down[c][k].item \in Items
    <3>1. down[c] \in Seq(Pieces)
      BY <1>1, ViewTypes
    <3>2. down[c][k] \in Pieces
      BY <3>1
    <3> QED BY <3>2, PieceFacts
  <2>4. got' = got \/ got' = [got EXCEPT ![c] = Append(@, down[c][k].item)]
    <3>1. CASE down[c][k].item[1] \in {"reply", "cast"}
      BY <2>2, <3>1
    <3>2. CASE down[c][k].item[1] \notin {"reply", "cast"}
      BY <1>1, <2>2, <3>2 DEF Typing
    <3> QED BY <3>1, <3>2
  <2> QED BY <2>1, <2>3, <2>4
<1>4. ASSUME NEW c \in Conns, WithoutRequest(c) PROVE got' = got /\ log' = log
  BY <1>4 DEF WithoutRequest, ReadPart, ReadGarbage, ReadGarbled, ReadEnd, EndTask,
              TakeBroadcast, Deliver, Lag, LagTo, Respond, RespondFails
<1>5. ASSUME NEW c \in Conns, HandleRequest(c)
      PROVE  /\ got' = got
             /\ \E x \in Messages \cup Hosted :
                  log' = Append(log, x) /\ \A y \in DOMAIN log : log[y] # x
  <2>1. PICK k \in DOMAIN up[c] : EndsAt(up[c], k) /\ Handle(c, k, Answer(c, k))
    BY <1>5 DEF HandleRequest, LineRead
  <2>2. PICK m : m = up[c][k].item[2]
    OBVIOUS
  <2>3. /\ up' = [up EXCEPT ![c] = Left(@, k)] /\ UNCHANGED <<wr, sent, got>>
        /\ served' = [served EXCEPT ![c] = Append(@, m)] /\ log' = Append(log, m)
    BY <2>1, <2>2 DEF Handle
  <2>4. up[c][k].end
    BY <2>1 DEF EndsAt
  <2>5. \A y \in DOMAIN log : log[y] # m
    BY <1>1, <2>2, <2>3, <2>4, HandleUnique
  <2>6. m \in Messages
    <3>1. up[c] \in Seq(Sends)
      BY <1>1, ConnTypes
    <3>2. up[c][k] \in Sends
      BY <3>1
    <3> QED BY <2>2, <3>2, PieceFacts
  <2> QED BY <2>3, <2>5, <2>6
<1>6. CASE Accepting \/ Stop \/ Crash \/ Start \/ UNCHANGED vars
  BY <1>6 DEF Accepting, CheckRunning, Accept, Spawn, Stop, Crash, Start, vars
<1>7. ASSUME NEW h \in Hosted, HostBroadcast(h)
      PROVE  got' = got /\ log' = Append(log, h) /\ \A y \in DOMAIN log : log[y] # h
  BY <1>7 DEF HostBroadcast
<1>8. CASE UNCHANGED vars
  BY <1>6, <1>8
<1>9. CASE \E c \in Conns : Receive(c)
  BY <1>3, <1>9
<1>10. CASE \E c \in Conns : HandleRequest(c)
  BY <1>5, <1>10
<1>11. CASE \E h \in Hosted : HostBroadcast(h)
  BY <1>7, <1>11
<1>12. CASE \E c \in Conns : \/ Connect(c) \/ Close(c)
                             \/ \E m \in Messages : BeginSend(c, m)
                             \/ Sending(c) \/ DropSend(c)
                             \/ ReceivePart(c) \/ ReceiveGarbled(c) \/ DropReceive(c)
                             \/ WithoutRequest(c)
  BY <1>2, <1>4, <1>12
<1> QED BY <1>6, <1>8, <1>9, <1>10, <1>11, <1>12 DEF Next, Receiving, Serve

LastKnown == \A c \in Conns : HasLast(got[c])

LEMMA LastStep == OrderAll /\ LastKnown /\ [Next]_vars => LastKnown'
<1> SUFFICES ASSUME OrderAll, LastKnown, [Next]_vars PROVE LastKnown'
  OBVIOUS
<1>1. Typing
  BY DEF OrderAll, LinkInv
<1>2. CASE got' = got
  BY <1>2 DEF LastKnown
<1>3. ASSUME NEW c \in Conns, NEW i \in Items, got' = [got EXCEPT ![c] = Append(@, i)]
      PROVE  LastKnown'
  <2>1. PICK s, t : s = got[c] /\ t = Append(s, i)
    OBVIOUS
  <2>2. s \in Seq(Items) /\ HasLast(s)
    BY <1>1, <2>1, ViewTypes DEF LastKnown
  <2>3. HasLast(t)
    BY <2>1, <2>2, AppendReply, AppendCast
  <2>4. got'[c] = t /\ \A d \in Conns \ {c} : got'[d] = got[d]
    BY <1>1, <1>3, <2>1 DEF Typing
  <2> QED BY <2>3, <2>4 DEF LastKnown
<1> QED BY <1>2, <1>3, GotSteps

\* What the refinement mapping shows of the log and of what was got.
Published == {[msg |-> log[i], epoch |-> 1, index |-> i] : i \in DOMAIN log}
Place(c) == IF CastsOf(c) = {} THEN <<0, 0>> ELSE <<1, LastCast(c)>>
Received(c) == {log[got[c][k][2]] : k \in CastsOf(c)}

LEMMA ViewFacts ==
  ASSUME NEW c \in Conns
  PROVE  CastsOf(c) = CastsIn(got[c]) /\ LastCast(c) = LastIn(got[c])
BY DEF CastsOf, CastsIn, LastCast, LastIn

\* What is appended to the log is published, and read by nobody yet.
LEMMA PublishStep ==
  ASSUME Typing, Rises, got' = got, NEW x \in Messages \cup Hosted,
         log' = Append(log, x), \A y \in DOMAIN log : log[y] # x
  PROVE  Broadcasts!Next
<1>1. log \in Seq(Messages \cup Hosted) /\ Len(log) \in Nat
  BY DEF Typing
<1>2. PICK n, l, b : n = Len(log) /\ l = log /\ b = Append(log, x) /\ n \in Nat
  BY <1>1
<1>3. /\ DOMAIN l = 1..n /\ DOMAIN b = 1..(n + 1) /\ b[n + 1] = x
      /\ \A i \in 1..n : b[i] = l[i]
  BY <1>1, <1>2
<1>4. PICK e : e = [msg |-> x, epoch |-> 1, index |-> n + 1]
  OBVIOUS
<1>5. Published' = Published \cup {e}
  <2>1. Published' = {[msg |-> b[i], epoch |-> 1, index |-> i] : i \in DOMAIN b}
    BY <1>2 DEF Published
  <2>2. Published = {[msg |-> l[i], epoch |-> 1, index |-> i] : i \in DOMAIN l}
    BY <1>2 DEF Published
  <2>3. DOMAIN b = DOMAIN l \cup {n + 1}
    BY <1>2, <1>3
  <2>4. \A i \in DOMAIN l : b[i] = l[i]
    BY <1>3
  <2>5. [msg |-> b[n + 1], epoch |-> 1, index |-> n + 1] = e
    BY <1>3, <1>4
  <2>6. Published' = {[msg |-> b[i], epoch |-> 1, index |-> i] : i \in DOMAIN l} \cup {e}
    BY <2>1, <2>3, <2>5
  <2> QED BY <2>2, <2>4, <2>6
<1>6. \A c \in Conns : Place(c)' = Place(c)
  BY DEF Place, CastsOf, LastCast
<1>7. \A c \in Conns : Received(c)' = Received(c)
  <2> SUFFICES ASSUME NEW c \in Conns PROVE Received(c)' = Received(c)
    OBVIOUS
  <2>1. CastsOf(c)' = CastsOf(c)
    BY DEF CastsOf
  <2>2. \A k \in CastsOf(c) : log'[got'[c][k][2]] = log[got[c][k][2]]
    <3>1. \A k \in CastsOf(c) : got[c][k][2] \in 1..n
      BY <1>2 DEF Rises
    <3>2. \A i \in 1..n : log'[i] = log[i]
      BY <1>2, <1>3
    <3> QED BY <3>1, <3>2
  <2> QED BY <2>1, <2>2 DEF Received
<1>8. /\ \A f \in Published : f.msg # x
      /\ \A f \in Published : f.index < n + 1
  BY <1>1, <1>2, <1>3 DEF Published
<1>9. e.msg = x /\ e.epoch = 1 /\ e.index = n + 1 /\ e \in Broadcasts!Entries
  <2>1. n + 1 \in Nat
    BY <1>2
  <2> QED BY <1>4, <2>1 DEF Broadcasts!Entries
<1>10. Broadcasts!Publish(e)
  <2>1. /\ \A f \in Published : f.msg # e.msg
        /\ \A f \in Published : f.epoch = e.epoch => f.index < e.index
    BY <1>8, <1>9
  <2>2. UNCHANGED [c \in Conns |-> Place(c)] /\ UNCHANGED [c \in Conns |-> Received(c)]
    BY <1>6, <1>7
  <2> QED BY <1>5, <2>1, <2>2 DEF Broadcasts!Publish, Published, Place, Received
<1>11. e \in Published'
  BY <1>5
<1> QED BY <1>9, <1>10, <1>11 DEF Broadcasts!Next, Published

\* A broadcast that is received delivers an entry that is published.
LEMMA DeliverStep ==
  ASSUME Typing, LogOnce, Rises, Rises', LastKnown,
         log' = log, NEW c \in Conns, NEW i \in Items,
         got' = [got EXCEPT ![c] = Append(@, i)]
  PROVE  [Broadcasts!Next]_(Broadcasts!vars)
<1>1. PICK s, t : s = got[c] /\ t = Append(s, i)
  OBVIOUS
<1>2. s \in Seq(Items) /\ HasLast(s) /\ Len(s) \in Nat
  BY <1>1, ViewTypes DEF LastKnown
<1>3. got'[c] = t /\ \A d \in Conns \ {c} : got'[d] = got[d]
  BY <1>1 DEF Typing
<1>4. /\ CastsOf(c) = CastsIn(s) /\ LastCast(c) = LastIn(s)
      /\ CastsOf(c)' = CastsIn(t) /\ LastCast(c)' = LastIn(t)
  BY <1>1, <1>3 DEF CastsOf, CastsIn, LastCast, LastIn
<1>5. Published' = Published
  BY DEF Published
<1>6. ASSUME NEW d \in Conns \ {c} PROVE Place(d)' = Place(d) /\ Received(d)' = Received(d)
  BY <1>3, <1>6 DEF Place, Received, CastsOf, LastCast
<1>7. CASE ~IsCast(i)
  <2>1. /\ CastsIn(t) = CastsIn(s) /\ \A k \in CastsIn(s) : t[k] = s[k]
        /\ CastsIn(s) # {} => LastIn(t) = LastIn(s)
    BY <1>1, <1>2, <1>7, AppendReply
  <2>2. Place(c)' = Place(c)
    BY <1>4, <2>1 DEF Place
  <2>3. Received(c)' = Received(c)
    <3>1. Received(c) = {log[s[k][2]] : k \in CastsIn(s)}
      BY <1>1, <1>4 DEF Received
    <3>2. Received(c)' = {log[t[k][2]] : k \in CastsIn(t)}
      BY <1>3, <1>4 DEF Received
    <3> QED BY <2>1, <3>1, <3>2
  <2>4. /\ UNCHANGED [d \in Conns |-> Place(d)] /\ UNCHANGED [d \in Conns |-> Received(d)]
    BY <1>6, <2>2, <2>3
  <2> QED BY <1>5, <2>4 DEF Broadcasts!vars, Published, Place, Received
<1>8. CASE IsCast(i)
  <2>1. /\ CastsIn(t) = CastsIn(s) \cup {Len(s) + 1} /\ \A k \in CastsIn(s) : t[k] = s[k]
        /\ t[Len(s) + 1] = i /\ \A k \in CastsIn(s) : k < Len(s) + 1
        /\ LastIn(t) = i[2]
    <3>1. s \in Seq(Items) /\ i \in Items /\ IsCast(i) /\ t = Append(s, i)
      BY <1>1, <1>2, <1>8
    <3>2. CastsIn(t) = CastsIn(s) \cup {Len(s) + 1}
      BY ONLY <3>1, AppendCast
    <3>3. \A k \in CastsIn(s) : t[k] = s[k]
      BY <3>1 DEF CastsIn
    <3>4. t[Len(s) + 1] = i
      BY <3>1
    <3>5. \A k \in CastsIn(s) : k < Len(s) + 1
      BY ONLY <3>1, AppendCast
    <3>6. LastIn(t) = t[Len(s) + 1][2]
      BY ONLY <3>1, AppendCast
    <3>7. LastIn(t) = i[2]
      BY <3>4, <3>6
    <3> QED BY <3>2, <3>3, <3>4, <3>5, <3>7
  <2>2. PICK x, n : x = i[2] /\ n = Len(s) + 1
    OBVIOUS
  <2>3. x \in 1..Len(log) /\ Len(log) \in Nat
    <3>1. \A k \in CastsOf(c)' : got'[c][k][2] \in 1..Len(log')
      BY DEF Rises
    <3>2. Len(s) + 1 \in CastsOf(c)'
      BY <1>4, <2>1
    <3>3. got'[c][Len(s) + 1][2] = x
      BY <1>3, <2>1, <2>2
    <3>4. Len(log) \in Nat
      BY DEF Typing
    <3> QED BY <3>1, <3>2, <3>3, <3>4
  <2>4. \A k \in CastsIn(s) : s[k][2] < x /\ s[k][2] \in 1..Len(log)
    <3>1. \A j, k \in CastsOf(c)' : j < k => got'[c][j][2] < got'[c][k][2]
      BY DEF Rises
    <3>2. \A j, k \in CastsIn(t) : j < k => t[j][2] < t[k][2]
      <4>1. got'[c] = t /\ CastsOf(c)' = CastsIn(t)
        BY <1>3, <1>4
      <4>2. PICK b, g : b = CastsOf(c)' /\ g = got'[c]
        OBVIOUS
      <4>3. \A j, k \in b : j < k => g[j][2] < g[k][2]
        BY <3>1, <4>2, Zenon
      <4> QED BY ONLY <4>1, <4>2, <4>3
    <3>3. \A k \in CastsOf(c) : got[c][k][2] \in 1..Len(log)
      BY DEF Rises
    <3> QED BY <1>1, <1>4, <2>1, <2>2, <3>2, <3>3
  <2>5. PICK e : e = [msg |-> log[x], epoch |-> 1, index |-> x]
    OBVIOUS
  <2>6. e \in Published /\ e.msg = log[x] /\ Broadcasts!PlaceOf(e) = <<1, x>>
    <3>1. x \in DOMAIN log
      BY <2>3 DEF Typing
    <3> QED BY <2>5, <3>1 DEF Published, Broadcasts!PlaceOf
  <2>7. Place(c)' = <<1, x>>
    <3>1. CastsOf(c)' # {} /\ LastCast(c)' = x
      BY <1>4, <2>1, <2>2
    <3> QED BY <3>1 DEF Place
  <2>8. Received(c)' = Received(c) \cup {log[x]}
    <3>1. Received(c) = {log[s[k][2]] : k \in CastsIn(s)}
      BY <1>1, <1>4 DEF Received
    <3>2. Received(c)' = {log[t[k][2]] : k \in CastsIn(t)}
      BY <1>3, <1>4 DEF Received
    <3> QED BY <2>1, <2>2, <3>1, <3>2
  <2>9. log[x] \notin Received(c)
    <3>1. \A k \in CastsIn(s) : log[s[k][2]] # log[x]
      <4>1. \A k \in CastsIn(s) : s[k][2] \in DOMAIN log /\ s[k][2] # x
        BY <2>3, <2>4 DEF Typing
      <4>2. x \in DOMAIN log
        BY <2>3 DEF Typing
      <4> QED BY <4>1, <4>2 DEF LogOnce
    <3> QED BY <1>1, <1>4, <3>1 DEF Received
  <2>10. Broadcasts!Before(Place(c), <<1, x>>)
    <3>1. CASE CastsOf(c) = {}
      BY <3>1 DEF Place, Broadcasts!Before
    <3>2. CASE CastsOf(c) # {}
      <4>1. PICK k \in CastsIn(s) : LastIn(s) = s[k][2]
        BY <1>2, <1>4, <3>2, LastFacts
      <4>2. Place(c) = <<1, s[k][2]>> /\ s[k][2] < x
        BY <1>4, <2>4, <3>2, <4>1 DEF Place
      <4> QED BY <4>2 DEF Broadcasts!Before
    <3> QED BY <3>1, <3>2
  <2>11. [d \in Conns |-> Place(d)]' = [[d \in Conns |-> Place(d)] EXCEPT ![c] = <<1, x>>]
    BY <1>6, <2>7
  <2>12. [d \in Conns |-> Received(d)]'
           = [[d \in Conns |-> Received(d)] EXCEPT ![c] = @ \cup {log[x]}]
    BY <1>6, <2>8
  <2>13. Broadcasts!Deliver(c, e)
    BY <1>5, <2>6, <2>9, <2>10, <2>11, <2>12
    DEF Broadcasts!Deliver, Published, Place, Received
  <2> QED BY <2>6, <2>13 DEF Broadcasts!Next, Published
<1> QED BY <1>7, <1>8

LEMMA RefineSame ==
  ASSUME got' = got, log' = log
  PROVE  UNCHANGED Broadcasts!vars
<1>1. /\ Published' = Published
      /\ UNCHANGED [c \in Conns |-> Place(c)] /\ UNCHANGED [c \in Conns |-> Received(c)]
  BY DEF Published, Place, Received, CastsOf, LastCast
<1> QED BY <1>1 DEF Broadcasts!vars, Published, Place, Received

LEMMA RefineStep ==
  OrderAll /\ Rises /\ Rises' /\ LastKnown /\ [Next]_vars => [Broadcasts!Next]_(Broadcasts!vars)
<1> SUFFICES ASSUME OrderAll, Rises, Rises', LastKnown, [Next]_vars
             PROVE  [Broadcasts!Next]_(Broadcasts!vars)
  OBVIOUS
<1>1. Typing /\ LogOnce
  BY UniqueParts DEF OrderAll, OrderInv, LinkInv
<1>2. CASE got' = got /\ log' = log
  BY <1>2, RefineSame
<1>3. ASSUME got' = got, NEW x \in Messages \cup Hosted, log' = Append(log, x),
             \A y \in DOMAIN log : log[y] # x
      PROVE  Broadcasts!Next
  BY <1>1, <1>3, PublishStep
<1>4. ASSUME log' = log, NEW c \in Conns, NEW i \in Items, got' = [got EXCEPT ![c] = Append(@, i)]
      PROVE  [Broadcasts!Next]_(Broadcasts!vars)
  BY <1>1, <1>4, DeliverStep
<1> QED BY <1>2, <1>3, <1>4, GotSteps

LEMMA RefineInit == Init => Broadcasts!Init /\ LastKnown
<1> SUFFICES ASSUME Init PROVE Broadcasts!Init /\ LastKnown
  OBVIOUS
<1>1. log = <<>> /\ \A c \in Conns : got[c] = <<>>
  BY DEF Init
<1>2. DOMAIN <<>> = {}
  OBVIOUS
<1>3. Published = {} /\ \A c \in Conns : CastsOf(c) = {} /\ CastsIn(got[c]) = {}
  BY <1>1, <1>2 DEF Published, CastsOf, CastsIn
<1>4. \A c \in Conns : Place(c) = <<0, 0>> /\ Received(c) = {}
  BY <1>3 DEF Place, Received
<1>5. Broadcasts!Init
  BY <1>3, <1>4 DEF Broadcasts!Init, Published, Place, Received
<1> QED BY <1>3, <1>5 DEF LastKnown, HasLast

\* The broadcasts implement OrderedBroadcast: over a connection a client gets
\* messages of the channel, each once and in its order, whatever lags, is cut or
\* crashes (unix_socket.rs:213-241).
THEOREM BroadcastsInOrder == Spec => InOrder
BY RefineInit, OrderInit, OrderStep, GotRises, LastStep, RefineStep, PTL
    DEF Spec, InOrder, Broadcasts!Spec

=============================================================================
