------------------------- MODULE FileChannelProofs --------------------------
(* Theorems about FileChannel, for any number of requests and clients and   *)
(* any combination of faults.                                              *)
EXTENDS FileChannel, TLAPS

-----------------------------------------------------------------------------
(* Sequences of sequences.                                                 *)

\* What Append adds, and what it leaves alone.
LEMMA AppendFacts ==
  ASSUME NEW S, NEW s \in Seq(S), NEW x \in S
  PROVE  /\ Append(s, x) \in Seq(S)
         /\ Len(Append(s, x)) = Len(s) + 1
         /\ \A i \in 1..Len(s) : Append(s, x)[i] = s[i]
         /\ Append(s, x)[Len(s) + 1] = x
OBVIOUS

\* A log with one file replaced.
LEMMA ReplaceFacts ==
  ASSUME NEW S, NEW s \in Seq(Seq(S)), NEW f \in 1..Len(s), NEW l \in Seq(S)
  PROVE  /\ [s EXCEPT ![f] = l] \in Seq(Seq(S))
         /\ Len([s EXCEPT ![f] = l]) = Len(s)
         /\ [s EXCEPT ![f] = l][f] = l
         /\ \A g \in 1..Len(s) : g # f => [s EXCEPT ![f] = l][g] = s[g]
OBVIOUS

\* A log with a new file.
LEMMA NewFileFacts ==
  ASSUME NEW S, NEW s \in Seq(Seq(S))
  PROVE  /\ Append(s, <<>>) \in Seq(Seq(S))
         /\ Len(Append(s, <<>>)) = Len(s) + 1
         /\ \A g \in 1..Len(s) : Append(s, <<>>)[g] = s[g]
         /\ Append(s, <<>>)[Len(s) + 1] = <<>>
<1>1. <<>> \in Seq(S)
  OBVIOUS
<1> QED BY <1>1, AppendFacts

\* The pieces are pieces.
LEMMA PieceFacts ==
  /\ \A m \in Messages : FirstHalf(m) \in Pieces /\ LastHalf(m) \in Pieces
  /\ \A m \in Messages : FirstHalf(m).msg = m /\ ~FirstHalf(m).end
  /\ \A m \in Messages : LastHalf(m).msg = m /\ LastHalf(m).end
  /\ \A p \in Pieces : /\ p.msg \in Messages /\ p.end \in BOOLEAN
                       /\ p.end => p = LastHalf(p.msg)
                       /\ ~p.end => p = FirstHalf(p.msg)
BY DEF Pieces, FirstHalf, LastHalf

\* What each append does to the log.
AddsOne(f, x) ==
  /\ Len(log') = Len(log)
  /\ Len(log'[f]) = Len(log[f]) + 1
  /\ \A i \in 1..Len(log[f]) : log'[f][i] = log[f][i]
  /\ log'[f][Len(log[f]) + 1] = x
  /\ \A g \in 1..Len(log) : g # f => log'[g] = log[g]

AddsTwo(f, x, y) ==
  /\ Len(log') = Len(log)
  /\ Len(log'[f]) = Len(log[f]) + 2
  /\ \A i \in 1..Len(log[f]) : log'[f][i] = log[f][i]
  /\ log'[f][Len(log[f]) + 1] = x
  /\ log'[f][Len(log[f]) + 2] = y
  /\ \A g \in 1..Len(log) : g # f => log'[g] = log[g]

LEMMA AddOne ==
  ASSUME log \in Seq(Seq(Pieces)), NEW f \in 1..Len(log), NEW x \in Pieces,
         log' = [log EXCEPT ![f] = Append(log[f], x)]
  PROVE  log' \in Seq(Seq(Pieces)) /\ AddsOne(f, x)
<1>1. log[f] \in Seq(Pieces)
  OBVIOUS
<1> DEFINE l == Append(log[f], x)
<1>2. /\ l \in Seq(Pieces)
      /\ Len(l) = Len(log[f]) + 1
      /\ \A i \in 1..Len(log[f]) : l[i] = log[f][i]
      /\ l[Len(log[f]) + 1] = x
  BY <1>1, AppendFacts
<1> HIDE DEF l
<1>3. /\ log' \in Seq(Seq(Pieces))
      /\ Len(log') = Len(log)
      /\ log'[f] = l
      /\ \A g \in 1..Len(log) : g # f => log'[g] = log[g]
  BY <1>2, ReplaceFacts DEF l
<1> QED BY <1>2, <1>3 DEF AddsOne

LEMMA AddTwo ==
  ASSUME log \in Seq(Seq(Pieces)), NEW f \in 1..Len(log),
         NEW x \in Pieces, NEW y \in Pieces,
         log' = [log EXCEPT ![f] = Append(Append(log[f], x), y)]
  PROVE  log' \in Seq(Seq(Pieces)) /\ AddsTwo(f, x, y)
<1>1. log[f] \in Seq(Pieces) /\ Len(log[f]) \in Nat
  OBVIOUS
<1> DEFINE k == Append(log[f], x)
           l == Append(k, y)
<1>2. /\ k \in Seq(Pieces)
      /\ Len(k) = Len(log[f]) + 1
      /\ \A i \in 1..Len(log[f]) : k[i] = log[f][i]
      /\ k[Len(log[f]) + 1] = x
  BY <1>1, AppendFacts
<1> HIDE DEF k
<1>3. /\ l \in Seq(Pieces)
      /\ Len(l) = Len(k) + 1
      /\ \A i \in 1..Len(k) : l[i] = k[i]
      /\ l[Len(k) + 1] = y
  BY <1>2, AppendFacts
<1> HIDE DEF l
<1>4. /\ log' \in Seq(Seq(Pieces))
      /\ Len(log') = Len(log)
      /\ log'[f] = l
      /\ \A g \in 1..Len(log) : g # f => log'[g] = log[g]
  BY <1>3, ReplaceFacts DEF k, l
<1>5. Len(l) = Len(log[f]) + 2
  BY <1>1, <1>2, <1>3
<1>6. \A i \in 1..Len(log[f]) : l[i] = log[f][i]
  BY <1>1, <1>2, <1>3
<1>7. l[Len(log[f]) + 1] = x /\ l[Len(log[f]) + 2] = y
  BY <1>1, <1>2, <1>3
<1> QED BY <1>4, <1>5, <1>6, <1>7 DEF AddsTwo

-----------------------------------------------------------------------------
(* The inductive invariant.                                                *)

\* The request files: a file exists from the send that created it on, a whole
\* request is in the file it was written to and in no other, and a request
\* that was handled is in a file that has lost its name.
RequestInv ==
  /\ \A m \in Messages :
       /\ send[m] = "idle" => fd[m] = None
       /\ send[m] \in {"created", "half", "over"} => fd[m] # None
       /\ fd[m] # None => send[fd[m]] # "idle"
       /\ handled[m] <= 1
       /\ handled[m] # 0 => send[m] = "done" /\ fd[m] # None /\ msgFile # fd[m]
  /\ \A f \in Messages : content[f] \in Messages =>
       send[content[f]] = "done" /\ fd[content[f]] = f
  /\ msgFile # None => send[msgFile] # "idle"
  /\ srv = "read" => msgFile # None
  /\ srv = "read" /\ took \in Messages => send[took] = "done" /\ fd[took] = msgFile
  /\ srv \in {"handling", "answered"} => took \in Messages /\ handled[took] # 0

\* The broadcast files: only the last one has its name, the second half of a
\* line follows its first half, and a first half without it is being completed
\* or is the end of a file nobody appends to any more.
HalfLine(f) == Len(log[f]) > 0 /\ ~log[f][Len(log[f])].end

LogInv ==
  /\ out \in {0, Len(log)}
  /\ \A a \in pending \cup writing : a[2] \in 1..Len(log)
  /\ \A f \in 1..Len(log) :
       /\ \A i \in 2..Len(log[f]) :
            IF log[f][i].end THEN log[f][i - 1] = FirstHalf(log[f][i].msg)
                             ELSE log[f][i - 1].end
       /\ Len(log[f]) > 0 => ~log[f][1].end
       /\ HalfLine(f) => \/ \E a \in writing : a[2] = f
                     \/ /\ \A a \in pending : a[2] # f
                        /\ out # f \/ srv = "down"
  /\ \A a \in writing : HalfLine(a[2]) /\ log[a[2]][Len(log[a[2]])].msg = a[1]
  /\ \A a, b \in writing : a[2] = b[2] => a = b
  /\ "torn" \notin faults => writing = {} /\ \A f \in 1..Len(log) : ~HalfLine(f)

\* Where a message may be: with the server, with a thread, or in the log, once.
Ended(m, f, i) == f \in 1..Len(log) /\ i \in 1..Len(log[f]) /\ log[f][i] = LastHalf(m)
Logged(m) == \E f \in 1..Len(log) : \E i \in 1..Len(log[f]) : Ended(m, f, i)
Queued == pending \cup writing
Nowhere(m) == ~Logged(m) /\ \A a \in Queued : a[1] # m

OnceInv ==
  /\ \A m \in Messages : handled[m] = 0 => Nowhere(m)
  /\ srv \in {"handling", "answered"} => Nowhere(took)
  /\ \A a \in Queued : ~Logged(a[1])
  /\ \A a, b \in Queued : a[1] = b[1] => a = b
  /\ pending \cap writing = {}
  /\ \A m \in Messages, f, g \in 1..Len(log) :
       \A i \in 1..Len(log[f]), j \in 1..Len(log[g]) :
         Ended(m, f, i) /\ Ended(m, g, j) => f = g /\ i = j

\* The readers: what is read from is a file, and what was returned last lies
\* before what can be read next.
ReaderInv(c) ==
  /\ reader[c] \in {"opened", "lines", "marked"} => file[c] \in 1..Len(log)
  /\ reader[c] \in {"lines", "marked"} => pos[c] <= Len(log[file[c]])
  /\ reader[c] = "marked" =>
       /\ fresh[c].msg \in Messages /\ fresh[c].msg \notin got[c]
       /\ fresh[c].msg \in seen[c]
       /\ fresh[c].place = <<file[c], pos[c]>>
       /\ pos[c] > 0
       /\ log[file[c]][pos[c]] = LastHalf(fresh[c].msg)
  /\ reader[c] # "marked" => fresh[c] = NothingFresh
  /\ got[c] \subseteq seen[c]
  /\ at[c][1] <= Len(log)
  /\ reader[c] \in {"opened", "lines", "marked"} => at[c][1] <= file[c]
  /\ reader[c] = "lines" /\ at[c][1] = file[c] => at[c][2] <= pos[c]
  /\ reader[c] = "marked" /\ at[c][1] = file[c] => at[c][2] < pos[c]
  /\ at[c][1] > 0 /\ (at[c][1] = Len(log) \/ (reader[c] = "opened" /\ at[c][1] = file[c])) =>
       at[c][2] <= offset[c] /\ offset[c] <= Len(log[at[c][1]])

ReadInv == \A c \in Clients : ReaderInv(c)

\* Without torn appends and with one file, offsets and positions are at the ends
\* of lines, and everything before them has been seen.
Passed(c, p) ==
  /\ p <= Len(log[1])
  /\ p > 0 => log[1][p].end
  /\ \A i \in 1..p : log[1][i].msg \in seen[c]

SkipperInv(c) ==
  /\ "torn" \notin faults /\ Len(log) = 1 =>
       /\ Passed(c, offset[c])
       /\ reader[c] \in {"lines", "marked"} => Passed(c, pos[c])
  /\ "torn" \notin faults /\ Len(log) = 0 => offset[c] = 0
  /\ "cancel" \notin faults => seen[c] \subseteq got[c] \cup {fresh[c].msg}

SkipInv == \A c \in Clients : SkipperInv(c)

\* Together they are inductive.
IInv == TypeOK /\ RequestInv /\ LogInv /\ OnceInv /\ ReadInv /\ SkipInv

-----------------------------------------------------------------------------
(* What a step does to the log.                                            *)

\* Where appends go.
LEMMA AppendFile ==
  ASSUME TypeOK, LogInv, NEW a \in pending \cup writing
  PROVE  a[1] \in Messages /\ a[2] \in 1..Len(log) /\ a = <<a[1], a[2]>>
BY DEF TypeOK, LogInv, Appends

LEMMA LineFacts ==
  ASSUME TypeOK, LogInv, NEW m, NEW f, AppendLine(m, f)
  PROVE  /\ m \in Messages /\ f \in 1..Len(log)
         /\ log' \in Seq(Seq(Pieces))
         /\ AddsTwo(f, FirstHalf(m), LastHalf(m))
<1>1. m \in Messages /\ f \in 1..Len(log)
  <2>1. <<m, f>> \in pending \cup writing
    BY DEF AppendLine
  <2> QED BY <2>1, AppendFile
<1>2. FirstHalf(m) \in Pieces /\ LastHalf(m) \in Pieces
  BY <1>1, PieceFacts
<1>3. log' = [log EXCEPT ![f] = Append(Append(log[f], FirstHalf(m)), LastHalf(m))]
  BY DEF AppendLine
<1>4. log \in Seq(Seq(Pieces))
  BY DEF TypeOK
<1> QED BY <1>1, <1>2, <1>3, <1>4, AddTwo

LEMMA HeadFacts ==
  ASSUME TypeOK, LogInv, NEW m, NEW f, AppendHead(m, f)
  PROVE  /\ m \in Messages /\ f \in 1..Len(log)
         /\ log' \in Seq(Seq(Pieces))
         /\ AddsOne(f, FirstHalf(m))
<1>1. m \in Messages /\ f \in 1..Len(log)
  <2>1. <<m, f>> \in pending \cup writing
    BY DEF AppendHead
  <2> QED BY <2>1, AppendFile
<1>2. FirstHalf(m) \in Pieces
  BY <1>1, PieceFacts
<1>3. log' = [log EXCEPT ![f] = Append(log[f], FirstHalf(m))]
  BY DEF AppendHead
<1>4. log \in Seq(Seq(Pieces))
  BY DEF TypeOK
<1> QED BY <1>1, <1>2, <1>3, <1>4, AddOne

LEMMA TailFacts ==
  ASSUME TypeOK, LogInv, NEW m, NEW f, AppendTail(m, f)
  PROVE  /\ m \in Messages /\ f \in 1..Len(log)
         /\ log' \in Seq(Seq(Pieces))
         /\ AddsOne(f, LastHalf(m))
<1>1. m \in Messages /\ f \in 1..Len(log)
  <2>1. <<m, f>> \in pending \cup writing
    BY DEF AppendTail
  <2> QED BY <2>1, AppendFile
<1>2. LastHalf(m) \in Pieces
  BY <1>1, PieceFacts
<1>3. log' = [log EXCEPT ![f] = Append(log[f], LastHalf(m))]
  BY DEF AppendTail
<1>4. log \in Seq(Seq(Pieces))
  BY DEF TypeOK
<1> QED BY <1>1, <1>2, <1>3, <1>4, AddOne

\* A new file, when the name is free.
Creates ==
  /\ log' \in Seq(Seq(Pieces))
  /\ Len(log') = Len(log) + 1
  /\ \A g \in 1..Len(log) : log'[g] = log[g]
  /\ log'[Len(log) + 1] = <<>>
  /\ out' = Len(log) + 1

LEMMA BroadcastFacts ==
  ASSUME TypeOK, Broadcast
  PROVE  \/ out # 0 /\ out' = out /\ log' = log
         \/ out = 0 /\ Creates
<1>1. log \in Seq(Seq(Pieces))
  BY DEF TypeOK
<1>2. CASE out = 0
  BY <1>1, <1>2, NewFileFacts DEF Broadcast, Creates
<1>3. CASE out # 0
  BY <1>3 DEF Broadcast
<1> QED BY <1>2, <1>3

\* Files are added, and files grow; nothing in them changes.
Grows ==
  /\ log' \in Seq(Seq(Pieces))
  /\ Len(log) \in Nat /\ Len(log') \in Nat
  /\ Len(log) <= Len(log')
  /\ \A f \in 1..Len(log) :
       /\ Len(log[f]) \in Nat /\ Len(log'[f]) \in Nat
       /\ Len(log[f]) <= Len(log'[f])
       /\ \A i \in 1..Len(log[f]) : log'[f][i] = log[f][i]

LEMMA LogTypes ==
  ASSUME TypeOK
  PROVE  /\ log \in Seq(Seq(Pieces))
         /\ Len(log) \in Nat
         /\ \A f \in 1..Len(log) : log[f] \in Seq(Pieces) /\ Len(log[f]) \in Nat
         /\ \A f \in 1..Len(log) : \A i \in 1..Len(log[f]) : log[f][i] \in Pieces
<1>1. log \in Seq(Seq(Pieces))
  BY DEF TypeOK
<1>2. Len(log) \in Nat
  BY <1>1
<1>3. \A f \in 1..Len(log) : log[f] \in Seq(Pieces)
  BY <1>1
<1>4. \A f \in 1..Len(log) : Len(log[f]) \in Nat /\ \A i \in 1..Len(log[f]) : log[f][i] \in Pieces
  BY <1>3
<1> QED BY <1>1, <1>2, <1>3, <1>4

LEMMA OneGrows ==
  ASSUME TypeOK, NEW f \in 1..Len(log), NEW x, AddsOne(f, x), log' \in Seq(Seq(Pieces))
  PROVE  Grows
<1>1. \A g \in 1..Len(log) :
        /\ Len(log[g]) \in Nat /\ Len(log'[g]) \in Nat
        /\ Len(log[g]) <= Len(log'[g])
        /\ \A i \in 1..Len(log[g]) : log'[g][i] = log[g][i]
  <2> TAKE g \in 1..Len(log)
  <2>1. CASE g = f
    BY <2>1, LogTypes DEF AddsOne
  <2>2. CASE g # f
    BY <2>2, LogTypes DEF AddsOne
  <2> QED BY <2>1, <2>2
<1> QED BY <1>1, LogTypes DEF Grows, AddsOne

LEMMA TwoGrows ==
  ASSUME TypeOK, NEW f \in 1..Len(log), NEW x, NEW y, AddsTwo(f, x, y),
         log' \in Seq(Seq(Pieces))
  PROVE  Grows
<1>1. \A g \in 1..Len(log) :
        /\ Len(log[g]) \in Nat /\ Len(log'[g]) \in Nat
        /\ Len(log[g]) <= Len(log'[g])
        /\ \A i \in 1..Len(log[g]) : log'[g][i] = log[g][i]
  <2> TAKE g \in 1..Len(log)
  <2>1. CASE g = f
    BY <2>1, LogTypes DEF AddsTwo
  <2>2. CASE g # f
    BY <2>2, LogTypes DEF AddsTwo
  <2> QED BY <2>1, <2>2
<1> QED BY <1>1, LogTypes DEF Grows, AddsTwo

LEMMA SameGrows ==
  ASSUME TypeOK, log' = log
  PROVE  Grows
BY LogTypes DEF Grows

LEMMA CreateGrows ==
  ASSUME TypeOK, Creates
  PROVE  Grows
BY LogTypes DEF Grows, Creates

LEMMA StepGrows ==
  ASSUME TypeOK, LogInv, [Next]_vars
  PROVE  Grows
<1>1. ASSUME NEW a \in pending, AppendLine(a[1], a[2]) PROVE Grows
  BY <1>1, LineFacts, TwoGrows
<1>2. ASSUME NEW a \in pending, AppendHead(a[1], a[2]) PROVE Grows
  BY <1>2, HeadFacts, OneGrows
<1>3. ASSUME NEW a \in writing, AppendTail(a[1], a[2]) PROVE Grows
  BY <1>3, TailFacts, OneGrows
<1>4. CASE Broadcast
  BY <1>4, BroadcastFacts, SameGrows, CreateGrows
<1>5. CASE UNCHANGED vars
  BY <1>5, SameGrows DEF vars, logs
<1>6. ASSUME NEW m \in Messages, Create(m) \/ GiveUp(m) \/ Write(m) PROVE Grows
  BY <1>6, SameGrows DEF Create, GiveUp, Write, WriteHalf, WriteRest, logs
<1>7. CASE Take \/ Remove \/ Respond
  BY <1>7, SameGrows DEF Take, Remove, Respond, logs
<1>8. CASE Start \/ Stop \/ Clean \/ Crash
  BY <1>8, SameGrows DEF Start, Stop, Clean, Exit, CleanResponse, CleanOut, Sweep, Crash, logs
<1>9. ASSUME NEW c \in Clients, Receive(c) \/ Cancel(c) PROVE Grows
  BY <1>9, SameGrows DEF Receive, OpenLog, Measure, ReadFrom, SkipLine, TakeLine, ReturnLine,
     EndOfFile, OpenResponse, TakeResponse, Cancel, logs
<1> QED BY <1>1, <1>2, <1>3, <1>4, <1>5, <1>6, <1>7, <1>8, <1>9 DEF Next, Serve, Flush

-----------------------------------------------------------------------------
(* Type correctness.                                                       *)

\* A log that grows keeps the types of what points into it.
LEMMA GrowsType ==
  ASSUME TypeOK, Grows
  PROVE  /\ log' \in Seq(Seq(Pieces))
         /\ file \in [Clients -> 0..Len(log')]
         /\ out \in 0..Len(log')
<1>1. 0..Len(log) \subseteq 0..Len(log')
  BY DEF Grows
<1> QED BY <1>1 DEF TypeOK, Grows

LEMMA PlainType ==
  ASSUME TypeOK, UNCHANGED <<logs, reading, history>>,
         /\ faults' \in FaultSets
         /\ send' \in [Messages -> {"idle", "created", "half", "over", "done"}]
         /\ fd' \in [Messages -> Messages \cup {None}]
         /\ msgFile' \in Messages \cup {None}
         /\ content' \in [Messages -> Messages \cup {None, Garbage}]
         /\ srv' \in {"down", "idle", "read", "handling", "answered"}
         /\ took' \in Messages \cup {None, Garbage}
         /\ running' \in BOOLEAN
         /\ cleanup' \subseteq {"response", "out"}
         /\ handled' \in [Messages -> Nat]
         /\ response' \in Messages \cup {None}
  PROVE  TypeOK'
BY DEF TypeOK, logs, reading, history

LEMMA LogType ==
  ASSUME TypeOK, Grows, UNCHANGED <<faults, requests, running, cleanup, handled, response, reading, history>>,
         /\ srv' \in {"down", "idle", "read", "handling", "answered"}
         /\ took' \in Messages \cup {None, Garbage}
         /\ out' \in 0..Len(log')
         /\ pending' \subseteq Appends
         /\ writing' \subseteq Appends
  PROVE  TypeOK'
BY GrowsType DEF TypeOK, requests, reading, history

LEMMA ReaderType ==
  ASSUME TypeOK, UNCHANGED <<faults, requests, server, logs>>,
         /\ response' \in Messages \cup {None}
         /\ reader' \in [Clients -> {"poll", "opened", "lines", "marked", "response", "taking"}]
         /\ file' \in [Clients -> 0..Len(log)]
         /\ pos' \in [Clients -> Nat]
         /\ offset' \in [Clients -> Nat]
         /\ seen' \in [Clients -> SUBSET Messages]
         /\ fresh' \in [Clients -> [msg : Messages \cup {None}, place : Nat \X Nat]]
         /\ at' \in [Clients -> Nat \X Nat]
         /\ got' \in [Clients -> SUBSET Messages]
  PROVE  TypeOK'
BY DEF TypeOK, requests, server, logs

LEMMA SendType ==
  ASSUME TypeOK, RequestInv, NEW m \in Messages, Create(m) \/ GiveUp(m) \/ Write(m)
  PROVE  TypeOK'
<1>1. CASE Create(m)
  <2>1. msgFile' \in Messages \cup {None} /\ fd' = [fd EXCEPT ![m] = msgFile']
    BY <1>1 DEF Create, TypeOK
  <2>4. fd' \in [Messages -> Messages \cup {None}]
    BY <2>1 DEF TypeOK
  <2>2. content' \in [Messages -> Messages \cup {None, Garbage}]
    <3>1. content' = content \/ content' = [content EXCEPT ![msgFile] = None]
      BY <1>1 DEF Create
    <3> QED BY <3>1 DEF TypeOK
  <2>3. send' \in [Messages -> {"idle", "created", "half", "over", "done"}]
    BY <1>1 DEF Create, TypeOK
  <2> QED BY <1>1, <2>1, <2>2, <2>3, <2>4, PlainType DEF Create, TypeOK, server
<1>2. CASE GiveUp(m)
  <2>1. send' \in [Messages -> {"idle", "created", "half", "over", "done"}]
    BY <1>2 DEF GiveUp, TypeOK
  <2> QED BY <1>2, <2>1, PlainType DEF GiveUp, TypeOK, server
<1>3. CASE WriteHalf(m)
  <2>1. content' \in [Messages -> Messages \cup {None, Garbage}]
    BY <1>3 DEF WriteHalf, TypeOK
  <2>2. send' \in [Messages -> {"idle", "created", "half", "over", "done"}]
    BY <1>3 DEF WriteHalf, TypeOK
  <2> QED BY <1>3, <2>1, <2>2, PlainType DEF WriteHalf, TypeOK, server
<1>4. CASE WriteRest(m)
  <2>1. content' \in [Messages -> Messages \cup {None, Garbage}]
    <3>1. PICK x \in {m, Garbage} : content' = [content EXCEPT ![fd[m]] = x]
      BY <1>4 DEF WriteRest
    <3> QED BY <3>1 DEF TypeOK
  <2>2. send' \in [Messages -> {"idle", "created", "half", "over", "done"}]
    BY <1>4 DEF WriteRest, TypeOK
  <2> QED BY <1>4, <2>1, <2>2, PlainType DEF WriteRest, TypeOK, server
<1> QED BY <1>1, <1>2, <1>3, <1>4 DEF Write

LEMMA ServerType ==
  ASSUME TypeOK, RequestInv, LogInv, Take \/ Remove \/ Respond \/ Broadcast
  PROVE  TypeOK'
<1>1. CASE Take
  <2>1. took' \in Messages \cup {None, Garbage}
    BY <1>1 DEF Take, TypeOK
  <2> QED BY <1>1, <2>1, PlainType DEF Take, TypeOK, requests
<1>2. CASE Remove
  <2>1. handled' \in [Messages -> Nat] /\ took' \in Messages \cup {None, Garbage}
        /\ srv' \in {"idle", "handling"}
    BY <1>2 DEF Remove, Parse, TypeOK
  <2> QED BY <1>2, <2>1, PlainType DEF Remove, TypeOK
<1>3. CASE Respond
  <2>1. took \in Messages
    BY <1>3 DEF Respond, RequestInv
  <2> QED BY <1>3, <2>1, PlainType DEF Respond, TypeOK, requests
<1>4. CASE Broadcast
  <2>1. took \in Messages
    BY <1>4 DEF Broadcast, RequestInv
  <2>2. Grows
    BY <1>4, BroadcastFacts, SameGrows, CreateGrows
  <2>3. out' \in 1..Len(log')
    <3>1. CASE out # 0 /\ out' = out /\ log' = log
      BY <3>1, LogTypes DEF TypeOK
    <3>2. CASE Creates
      BY <3>2, LogTypes DEF Creates
    <3> QED BY <1>4, <3>1, <3>2, BroadcastFacts
  <2>4. pending' \subseteq Appends
    <3>1. pending' = pending \cup {<<took, out'>>}
      BY <1>4 DEF Broadcast
    <3>2. out' \in Nat \ {0}
      BY <2>2, <2>3 DEF Grows
    <3> QED BY <2>1, <3>1, <3>2 DEF TypeOK, Appends
  <2>5. out' \in 0..Len(log')
    BY <2>3
  <2>6. srv' = "idle" /\ took' = None /\ writing' = writing
    BY <1>4 DEF Broadcast
  <2>7. UNCHANGED <<faults, requests, running, cleanup, handled, response, reading, history>>
    BY <1>4 DEF Broadcast
  <2> QED BY <2>2, <2>4, <2>5, <2>6, <2>7, LogType DEF TypeOK
<1> QED BY <1>1, <1>2, <1>3, <1>4

LEMMA FlushType ==
  ASSUME TypeOK, LogInv, Flush
  PROVE  TypeOK'
<1>1. ASSUME NEW a \in pending, AppendLine(a[1], a[2]) PROVE TypeOK'
  <2>1. Grows
    BY <1>1, LineFacts, TwoGrows
  <2>2. pending' \subseteq Appends /\ writing' = writing /\ out' = out
    BY <1>1 DEF AppendLine, TypeOK
  <2>3. UNCHANGED <<faults, requests, server, response, reading, history>>
    BY <1>1 DEF AppendLine
  <2> QED BY <2>1, <2>2, <2>3, LogType, GrowsType DEF TypeOK, server
<1>2. ASSUME NEW a \in pending, AppendHead(a[1], a[2]) PROVE TypeOK'
  <2>1. Grows
    BY <1>2, HeadFacts, OneGrows
  <2>2. pending' \subseteq Appends /\ writing' \subseteq Appends /\ out' = out
    BY <1>2 DEF AppendHead, TypeOK
  <2>3. UNCHANGED <<faults, requests, server, response, reading, history>>
    BY <1>2 DEF AppendHead
  <2> QED BY <2>1, <2>2, <2>3, LogType, GrowsType DEF TypeOK, server
<1>3. ASSUME NEW a \in writing, AppendTail(a[1], a[2]) PROVE TypeOK'
  <2>1. Grows
    BY <1>3, TailFacts, OneGrows
  <2>2. pending' = pending /\ writing' \subseteq Appends /\ out' = out
    BY <1>3 DEF AppendTail, TypeOK
  <2>3. UNCHANGED <<faults, requests, server, response, reading, history>>
    BY <1>3 DEF AppendTail
  <2> QED BY <2>1, <2>2, <2>3, LogType, GrowsType DEF TypeOK, server
<1> QED BY <1>1, <1>2, <1>3 DEF Flush

LEMMA LifeType ==
  ASSUME TypeOK, Start \/ Stop \/ Clean \/ Crash
  PROVE  TypeOK'
<1>1. CASE Start
  BY <1>1, LogTypes, SMTT(20) DEF Start, TypeOK, requests, reading, history
<1>2. CASE Stop
  BY <1>2, PlainType DEF Stop, TypeOK, requests
<1>3. CASE Exit \/ Sweep
  BY <1>3, PlainType DEF Exit, Sweep, TypeOK, server
<1>4. CASE CleanResponse
  BY <1>4, PlainType DEF CleanResponse, TypeOK, requests
<1>5. CASE CleanOut
  BY <1>5, LogTypes, SMTT(20) DEF CleanOut, TypeOK, requests, reading, history
<1>6. CASE Crash
  BY <1>6 DEF Crash, TypeOK, requests, reading, history
<1> QED BY <1>1, <1>2, <1>3, <1>4, <1>5, <1>6 DEF Clean

\* What Done sets.
LEMMA DoneType ==
  ASSUME TypeOK, NEW c \in Clients, NEW where \in {"poll", "response"}, Done(c, where)
  PROVE  /\ reader' \in [Clients -> {"poll", "opened", "lines", "marked", "response", "taking"}]
         /\ file' \in [Clients -> 0..Len(log)]
         /\ pos' \in [Clients -> Nat]
<1>1. 0 \in 0..Len(log)
  BY LogTypes
<1> QED BY <1>1 DEF Done, TypeOK

\* The piece a reader is about to take.
LEMMA PieceType ==
  ASSUME TypeOK, ReadInv, NEW c \in Clients, reader[c] = "lines", Left(c) > 0
  PROVE  /\ file[c] \in 1..Len(log)
         /\ pos[c] + 1 \in 1..Len(log[file[c]])
         /\ Piece(c) = log[file[c]][pos[c] + 1]
         /\ Piece(c) \in Pieces
<1>1. file[c] \in 1..Len(log)
  BY DEF ReadInv, ReaderInv
<1>2. Len(log[file[c]]) \in Nat /\ pos[c] \in Nat
  BY <1>1, LogTypes DEF TypeOK
<1>3. pos[c] + 1 \in 1..Len(log[file[c]])
  BY <1>2 DEF Left
<1> QED BY <1>1, <1>3, LogTypes DEF Piece

LEMMA ReceiveType ==
  ASSUME TypeOK, ReadInv, NEW c \in Clients, Receive(c) \/ Cancel(c)
  PROVE  TypeOK'
<1>1. CASE OpenLog(c)
  <2>0. \/ reader' = [reader EXCEPT ![c] = "response"] /\ file' = file
        \/ reader' = [reader EXCEPT ![c] = "opened"] /\ file' = [file EXCEPT ![c] = out]
    BY <1>1 DEF OpenLog
  <2>1. reader' \in [Clients -> {"poll", "opened", "lines", "marked", "response", "taking"}]
    BY <2>0 DEF TypeOK
  <2>2. file' \in [Clients -> 0..Len(log)]
    BY <2>0 DEF TypeOK
  <2> QED BY <1>1, <2>1, <2>2, ReaderType DEF OpenLog, TypeOK, history
<1>2. CASE Measure(c)
  <2>1. Resume(c) \in Nat
    BY DEF Resume, TypeOK
  <2> DEFINE r == Resume(c)
  <2>2. r \in Nat
    BY <2>1
  <2> HIDE DEF r
  <2>3. /\ offset' = [offset EXCEPT ![c] = r]
        /\ \/ /\ reader' = [reader EXCEPT ![c] = "lines"]
              /\ pos' = [pos EXCEPT ![c] = r]
              /\ file' = file
           \/ /\ reader' = [reader EXCEPT ![c] = "response"]
              /\ pos' = pos
              /\ file' = [file EXCEPT ![c] = 0]
    BY <1>2 DEF Measure, ReadFrom, r
  <2>4. offset' \in [Clients -> Nat]
    BY <2>2, <2>3 DEF TypeOK
  <2>5. pos' \in [Clients -> Nat]
    BY <2>2, <2>3 DEF TypeOK
  <2>6. reader' \in [Clients -> {"poll", "opened", "lines", "marked", "response", "taking"}]
    BY <2>3 DEF TypeOK
  <2>7. 0 \in 0..Len(log)
    BY LogTypes
  <2>8. file' \in [Clients -> 0..Len(log)]
    BY <2>3, <2>7 DEF TypeOK
  <2> QED BY <1>2, <2>4, <2>5, <2>6, <2>8, ReaderType DEF Measure, ReadFrom, TypeOK, history
<1>3. CASE SkipLine(c)
  <2>1. pos' \in [Clients -> Nat]
    <3>1. pos[c] + (IF WholeLine(c) THEN 2 ELSE 1) \in Nat
      BY DEF TypeOK
    <3> QED BY <1>3, <3>1 DEF SkipLine, TypeOK
  <2> QED BY <1>3, <2>1, ReaderType DEF SkipLine, TypeOK, history
<1>4. CASE TakeLine(c)
  <2>1. Piece(c).msg \in Messages /\ file[c] \in Nat
    BY <1>4, PieceType, LogTypes DEF TakeLine, Pieces
  <2>2. pos[c] + 2 \in Nat
    BY DEF TypeOK
  <2>3. seen' \in [Clients -> SUBSET Messages]
    BY <1>4, <2>1 DEF TakeLine, TypeOK
  <2>4. fresh' \in [Clients -> [msg : Messages \cup {None}, place : Nat \X Nat]]
    <3>1. [msg |-> Piece(c).msg, place |-> <<file[c], pos[c] + 2>>]
            \in [msg : Messages \cup {None}, place : Nat \X Nat]
      BY <2>1, <2>2
    <3> QED BY <1>4, <3>1 DEF TakeLine, TypeOK
  <2>5. pos' \in [Clients -> Nat]
    BY <1>4, <2>2 DEF TakeLine, TypeOK
  <2>6. reader' \in [Clients -> {"poll", "opened", "lines", "marked", "response", "taking"}]
    BY <1>4 DEF TakeLine, TypeOK
  <2> QED BY <1>4, <2>3, <2>4, <2>5, <2>6, ReaderType DEF TakeLine, TypeOK, history
<1>5. CASE ReturnLine(c)
  <2>1. fresh[c].msg \in Messages /\ fresh[c].place \in Nat \X Nat
    BY <1>5 DEF ReturnLine, ReadInv, ReaderInv, TypeOK
  <2>2. at' \in [Clients -> Nat \X Nat]
    BY <1>5, <2>1 DEF ReturnLine, TypeOK
  <2>3. got' \in [Clients -> SUBSET Messages]
    BY <1>5, <2>1 DEF ReturnLine, TypeOK
  <2>4. fresh' \in [Clients -> [msg : Messages \cup {None}, place : Nat \X Nat]]
    <3>1. NothingFresh \in [msg : Messages \cup {None}, place : Nat \X Nat]
      BY DEF NothingFresh
    <3> QED BY <1>5, <3>1 DEF ReturnLine, TypeOK
  <2>5. offset' \in [Clients -> Nat]
    BY <1>5 DEF ReturnLine, TypeOK
  <2> QED BY <1>5, <2>2, <2>3, <2>4, <2>5, DoneType, ReaderType DEF ReturnLine, TypeOK
<1>6. CASE EndOfFile(c)
  <2>1. offset' \in [Clients -> Nat]
    BY <1>6 DEF EndOfFile, TypeOK
  <2> QED BY <1>6, <2>1, DoneType, ReaderType DEF EndOfFile, TypeOK, history
<1>7. CASE OpenResponse(c)
  <2>1. reader' \in [Clients -> {"poll", "opened", "lines", "marked", "response", "taking"}]
    BY <1>7 DEF OpenResponse, TypeOK
  <2> QED BY <1>7, <2>1, ReaderType DEF OpenResponse, TypeOK, history
<1>8. CASE TakeResponse(c)
  <2>1. reader' \in [Clients -> {"poll", "opened", "lines", "marked", "response", "taking"}]
    BY <1>8 DEF TakeResponse, TypeOK
  <2> QED BY <1>8, <2>1, ReaderType DEF TakeResponse, TypeOK, history
<1>9. CASE Cancel(c)
  <2>1. fresh' \in [Clients -> [msg : Messages \cup {None}, place : Nat \X Nat]]
    <3>1. NothingFresh \in [msg : Messages \cup {None}, place : Nat \X Nat]
      BY DEF NothingFresh
    <3> QED BY <1>9, <3>1 DEF Cancel, TypeOK
  <2>2. response' \in Messages \cup {None}
    BY <1>9 DEF Cancel, TypeOK
  <2> QED BY <1>9, <2>1, <2>2, DoneType, ReaderType DEF Cancel, TypeOK, history
<1> QED BY <1>1, <1>2, <1>3, <1>4, <1>5, <1>6, <1>7, <1>8, <1>9 DEF Receive

LEMMA TypeStep ==
  ASSUME IInv, [Next]_vars
  PROVE  TypeOK'
<1>1. CASE UNCHANGED vars
  BY <1>1 DEF IInv, TypeOK, vars, requests, server, logs, reading, history
<1>2. ASSUME NEW m \in Messages, Create(m) \/ GiveUp(m) \/ Write(m) PROVE TypeOK'
  BY <1>2, SendType DEF IInv
<1>3. CASE Serve
  BY <1>3, ServerType DEF IInv, Serve
<1>4. CASE Flush
  BY <1>4, FlushType DEF IInv
<1>5. CASE Start \/ Stop \/ Clean \/ Crash
  BY <1>5, LifeType DEF IInv
<1>6. ASSUME NEW c \in Clients, Receive(c) \/ Cancel(c) PROVE TypeOK'
  BY <1>6, ReceiveType DEF IInv
<1> QED BY <1>1, <1>2, <1>3, <1>4, <1>5, <1>6 DEF Next

-----------------------------------------------------------------------------
(* Requests.                                                               *)

\* The parts of RequestInv, for a step that changes the request files only.
LEMMA SendRequest ==
  ASSUME TypeOK, RequestInv, NEW m \in Messages, Create(m) \/ GiveUp(m) \/ Write(m)
  PROVE  RequestInv'
<1>0. NoneAssumption
  BY NoneAssumption
<1>1. CASE Create(m)
  <2>1. /\ send[m] = "idle" /\ fd[m] = None /\ handled[m] = 0
        /\ send' = [send EXCEPT ![m] = "created"]
        /\ fd' = [fd EXCEPT ![m] = msgFile']
        /\ srv' = srv /\ took' = took /\ handled' = handled
        /\ \/ msgFile = None /\ msgFile' = m /\ content' = content
           \/ /\ msgFile # None /\ msgFile' = msgFile
              /\ content' = [content EXCEPT ![msgFile] = None]
    BY <1>1 DEF Create, RequestInv, server, TypeOK
  <2>2. \A x \in Messages : x # m => send'[x] = send[x] /\ fd'[x] = fd[x]
    BY <2>1 DEF TypeOK
  <2>3. send'[m] = "created" /\ fd'[m] = msgFile' /\ msgFile' \in Messages
    BY <2>1 DEF TypeOK
  <2>4. \A x \in Messages : send[x] # "idle" => send'[x] # "idle"
    BY <2>2, <2>3
  <2>5. send'[msgFile'] # "idle"
    <3>1. CASE msgFile = None
      BY <2>1, <2>3, <3>1
    <3>2. CASE msgFile # None
      BY <2>1, <2>4, <3>2 DEF RequestInv, TypeOK
    <3> QED BY <3>1, <3>2
  <2>6. \A x \in Messages :
          /\ send'[x] = "idle" => fd'[x] = None
          /\ send'[x] \in {"created", "half", "over"} => fd'[x] # None
          /\ fd'[x] # None => send'[fd'[x]] # "idle"
          /\ handled'[x] <= 1
          /\ handled'[x] # 0 => send'[x] = "done" /\ fd'[x] # None /\ msgFile' # fd'[x]
    <3> TAKE x \in Messages
    <3>1. CASE x = m
      BY <2>1, <2>3, <2>5, <3>1, <1>0 DEF RequestInv
    <3>2. CASE x # m
      <4>1. send'[x] = send[x] /\ fd'[x] = fd[x] /\ handled'[x] = handled[x]
        BY <2>1, <2>2, <3>2
      <4>2. fd[x] # None => fd[x] \in Messages /\ send[fd[x]] # "idle"
        BY DEF RequestInv, TypeOK
      <4>3. fd'[x] # None => send'[fd'[x]] # "idle"
        BY <4>1, <4>2, <2>4
      <4>4. handled[x] # 0 => send[x] = "done" /\ fd[x] # None /\ msgFile # fd[x]
        BY DEF RequestInv
      <4>5. handled[x] # 0 => msgFile' # fd[x]
        BY <2>1, <4>2, <4>4
      <4> QED BY <4>1, <4>3, <4>4, <4>5 DEF RequestInv
    <3> QED BY <3>1, <3>2
  <2>7. \A f \in Messages : content'[f] \in Messages =>
          send'[content'[f]] = "done" /\ fd'[content'[f]] = f
    <3> SUFFICES ASSUME NEW f \in Messages, content'[f] \in Messages
                 PROVE  send'[content'[f]] = "done" /\ fd'[content'[f]] = f
      OBVIOUS
    <3>1. content'[f] = content[f]
      BY <2>1, <1>0 DEF TypeOK
    <3>2. send[content[f]] = "done" /\ fd[content[f]] = f /\ content[f] # m
      BY <3>1, <2>1 DEF RequestInv
    <3> QED BY <2>2, <3>1, <3>2
  <2>8. srv' = "read" => msgFile' # None
    BY <2>3, <1>0
  <2>9. srv' = "read" /\ took' \in Messages => send'[took'] = "done" /\ fd'[took'] = msgFile'
    <3> SUFFICES ASSUME srv = "read", took \in Messages
                 PROVE  send'[took] = "done" /\ fd'[took] = msgFile'
      BY <2>1
    <3>1. send[took] = "done" /\ fd[took] = msgFile /\ msgFile # None
      BY DEF RequestInv
    <3> QED BY <2>1, <2>2, <3>1
  <2>10. srv' \in {"handling", "answered"} => took' \in Messages /\ handled'[took'] # 0
    BY <2>1 DEF RequestInv
  <2> QED BY <2>5, <2>6, <2>7, <2>8, <2>9, <2>10 DEF RequestInv
<1>2. CASE GiveUp(m)
  <2>1. /\ send[m] = "idle" /\ fd[m] = None /\ handled[m] = 0
        /\ send' = [send EXCEPT ![m] = "done"]
        /\ fd' = fd /\ content' = content /\ msgFile' = msgFile
        /\ srv' = srv /\ took' = took /\ handled' = handled
    BY <1>2 DEF GiveUp, RequestInv, server
  <2>2. \A x \in Messages : send[x] # "idle" => send'[x] = send[x]
    BY <2>1 DEF TypeOK
  <2>3. send'[m] = "done" /\ \A x \in Messages : x # m => send'[x] = send[x]
    BY <2>1 DEF TypeOK
  <2> QED BY <2>1, <2>2, <2>3, <1>0 DEF RequestInv, TypeOK
<1>3. CASE WriteHalf(m)
  <2>1. /\ send[m] = "created" /\ handled[m] = 0 /\ fd[m] \in Messages
        /\ content' = [content EXCEPT ![fd[m]] = Garbage]
        /\ fd' = fd /\ msgFile' = msgFile
        /\ srv' = srv /\ took' = took /\ handled' = handled
    BY <1>3 DEF WriteHalf, RequestInv, TypeOK, server
  <2>0. \/ send' = [send EXCEPT ![m] = "half"]
        \/ send' = [send EXCEPT ![m] = "over"]
    BY <1>3 DEF WriteHalf
  <2>2. send'[m] \in {"half", "over"} /\ \A x \in Messages : x # m => send'[x] = send[x]
    BY <2>0 DEF TypeOK
  <2>3. \A f \in Messages : content'[f] \in Messages => content'[f] = content[f]
    BY <2>1, <1>0 DEF TypeOK
  <2>4. \A x \in Messages : send[x] \in {"done"} => send'[x] = "done"
    BY <2>1, <2>2
  <2>5. \A x \in Messages : send'[x] = "idle" <=> send[x] = "idle"
    BY <2>1, <2>2
  <2>6. \A x \in Messages :
          /\ send'[x] = "idle" => fd'[x] = None
          /\ send'[x] \in {"created", "half", "over"} => fd'[x] # None
          /\ fd'[x] # None => send'[fd'[x]] # "idle"
          /\ handled'[x] <= 1
          /\ handled'[x] # 0 => send'[x] = "done" /\ fd'[x] # None /\ msgFile' # fd'[x]
    BY <2>1, <2>2, <2>4, <2>5 DEF RequestInv, TypeOK
  <2>7. \A f \in Messages : content'[f] \in Messages =>
          send'[content'[f]] = "done" /\ fd'[content'[f]] = f
    BY <2>1, <2>3, <2>4 DEF RequestInv
  <2>8. /\ msgFile' # None => send'[msgFile'] # "idle"
        /\ srv' = "read" => msgFile' # None
        /\ srv' = "read" /\ took' \in Messages => send'[took'] = "done" /\ fd'[took'] = msgFile'
        /\ srv' \in {"handling", "answered"} => took' \in Messages /\ handled'[took'] # 0
    BY <2>1, <2>4, <2>5 DEF RequestInv, TypeOK
  <2> QED BY <2>6, <2>7, <2>8 DEF RequestInv
<1>4. CASE WriteRest(m)
  <2>1. PICK x \in {m, Garbage} : content' = [content EXCEPT ![fd[m]] = x]
    BY <1>4 DEF WriteRest
  <2>2. /\ send[m] \in {"half", "over"} /\ handled[m] = 0 /\ fd[m] \in Messages
        /\ send' = [send EXCEPT ![m] = "done"]
        /\ fd' = fd /\ msgFile' = msgFile
        /\ srv' = srv /\ took' = took /\ handled' = handled
    BY <1>4 DEF WriteRest, RequestInv, TypeOK, server
  <2>3. send'[m] = "done" /\ \A y \in Messages : y # m => send'[y] = send[y]
    BY <2>2 DEF TypeOK
  <2>4. \A f \in Messages : content'[f] \in Messages =>
          content'[f] = content[f] \/ (f = fd[m] /\ content'[f] = m)
    BY <2>1, <2>2, <1>0 DEF TypeOK
  <2>5. \A f \in Messages : content'[f] \in Messages =>
          send'[content'[f]] = "done" /\ fd'[content'[f]] = f
    BY <2>2, <2>3, <2>4 DEF RequestInv
  <2>6. \A y \in Messages :
          /\ send'[y] = "idle" => fd'[y] = None
          /\ send'[y] \in {"created", "half", "over"} => fd'[y] # None
          /\ fd'[y] # None => send'[fd'[y]] # "idle"
          /\ handled'[y] <= 1
          /\ handled'[y] # 0 => send'[y] = "done" /\ fd'[y] # None /\ msgFile' # fd'[y]
    BY <2>2, <2>3 DEF RequestInv, TypeOK
  <2>7. /\ msgFile' # None => send'[msgFile'] # "idle"
        /\ srv' = "read" => msgFile' # None
        /\ srv' = "read" /\ took' \in Messages => send'[took'] = "done" /\ fd'[took'] = msgFile'
        /\ srv' \in {"handling", "answered"} => took' \in Messages /\ handled'[took'] # 0
    BY <2>2, <2>3 DEF RequestInv, TypeOK
  <2> QED BY <2>5, <2>6, <2>7 DEF RequestInv
<1> QED BY <1>1, <1>2, <1>3, <1>4 DEF Write

\* A message that is read and removed has not been handled before.
LEMMA RemoveFirst ==
  ASSUME TypeOK, RequestInv, Remove, took \in Messages
  PROVE  handled[took] = 0 /\ fd[took] = msgFile /\ msgFile # None /\ send[took] = "done"
BY DEF Remove, RequestInv

LEMMA ServeRequest ==
  ASSUME TypeOK, RequestInv, Take \/ Remove \/ Respond \/ Broadcast
  PROVE  RequestInv'
<1>0. NoneAssumption
  BY NoneAssumption
<1>1. CASE Take
  <2>1. took' \in Messages => send[took'] = "done" /\ fd[took'] = msgFile
    BY <1>1 DEF Take, RequestInv, TypeOK
  <2> QED BY <1>1, <2>1 DEF Take, RequestInv, requests
<1>2. CASE Remove
  <2>1. UNCHANGED <<send, fd, content>> /\ msgFile' = None
    BY <1>2 DEF Remove
  <2>2. CASE took \in Messages
    <3>1. handled' = [handled EXCEPT ![took] = handled[took] + 1] /\ srv' = "handling" /\ took' = took
      BY <1>2, <2>2 DEF Remove, Parse
    <3>2. handled[took] = 0 /\ fd[took] = msgFile /\ msgFile # None /\ send[took] = "done"
      BY <1>2, <2>2, RemoveFirst
    <3>3. handled'[took] = 1 /\ \A x \in Messages : x # took => handled'[x] = handled[x]
      BY <2>2, <3>1, <3>2 DEF TypeOK
    <3>4. \A x \in Messages :
            /\ handled'[x] <= 1
            /\ handled'[x] # 0 => send'[x] = "done" /\ fd'[x] # None /\ msgFile' # fd'[x]
      BY <2>1, <2>2, <3>2, <3>3 DEF RequestInv
    <3> QED BY <2>1, <2>2, <3>1, <3>3, <3>4 DEF RequestInv
  <2>3. CASE took \notin Messages
    <3>1. handled' = handled /\ srv' = "idle"
      BY <1>2, <2>3 DEF Remove, Parse
    <3> QED BY <2>1, <3>1 DEF RequestInv
  <2> QED BY <2>2, <2>3
<1>3. CASE Respond
  BY <1>3 DEF Respond, RequestInv, requests
<1>4. CASE Broadcast
  BY <1>4 DEF Broadcast, RequestInv, requests
<1> QED BY <1>1, <1>2, <1>3, <1>4

LEMMA SameRequest ==
  ASSUME RequestInv, UNCHANGED <<requests, srv, took, handled>>
  PROVE  RequestInv'
BY DEF RequestInv, requests

LEMMA RequestStep ==
  ASSUME TypeOK, RequestInv, [Next]_vars
  PROVE  RequestInv'
<1>1. CASE UNCHANGED vars
  BY <1>1, SameRequest DEF vars, server
<1>2. ASSUME NEW m \in Messages, Create(m) \/ GiveUp(m) \/ Write(m) PROVE RequestInv'
  BY <1>2, SendRequest
<1>3. CASE Serve
  BY <1>3, ServeRequest DEF Serve
<1>4. CASE Flush
  BY <1>4, SameRequest DEF Flush, AppendLine, AppendHead, AppendTail, server
<1>5. CASE Start
  BY <1>5 DEF Start, RequestInv, requests
<1>6. CASE Stop
  BY <1>6, SameRequest DEF Stop
<1>7. CASE Exit \/ Sweep
  BY <1>7 DEF Exit, Sweep, RequestInv, server
<1>8. CASE CleanResponse \/ CleanOut
  BY <1>8, SameRequest DEF CleanResponse, CleanOut
<1>9. CASE Crash
  BY <1>9 DEF Crash, RequestInv, requests
<1>10. ASSUME NEW c \in Clients, Receive(c) \/ Cancel(c) PROVE RequestInv'
  BY <1>10, SameRequest DEF Receive, OpenLog, Measure, ReadFrom, SkipLine, TakeLine, ReturnLine,
     EndOfFile, OpenResponse, TakeResponse, Cancel, server
<1> QED BY <1>1, <1>2, <1>3, <1>4, <1>5, <1>6, <1>7, <1>8, <1>9, <1>10 DEF Next, Clean

-----------------------------------------------------------------------------
(* The broadcast files.                                                    *)

\* A file made of lines, but for the end of it.
Lines(f) ==
  /\ \A i \in 2..Len(log[f]) :
       IF log[f][i].end THEN log[f][i - 1] = FirstHalf(log[f][i].msg)
                        ELSE log[f][i - 1].end
  /\ Len(log[f]) > 0 => ~log[f][1].end

\* A half line is being completed, or stays as it is.
Settled(f) ==
  HalfLine(f) => \/ \E a \in writing : a[2] = f
                 \/ /\ \A a \in pending : a[2] # f
                    /\ out # f \/ srv = "down"

LEMMA LogParts ==
  ASSUME LogInv
  PROVE  \A f \in 1..Len(log) : Lines(f) /\ Settled(f)
BY DEF LogInv, Lines, Settled

LEMMA LogPartsPrime ==
  ASSUME \A f \in 1..Len(log') : Lines(f)' /\ Settled(f)',
         out' \in {0, Len(log')},
         \A a \in pending' \cup writing' : a[2] \in 1..Len(log'),
         \A a \in writing' : HalfLine(a[2])' /\ log'[a[2]][Len(log'[a[2]])].msg = a[1],
         \A a, b \in writing' : a[2] = b[2] => a = b,
         "torn" \notin faults' => writing' = {} /\ \A f \in 1..Len(log') : ~HalfLine(f)'
  PROVE  LogInv'
BY DEF LogInv, Lines, Settled

LEMMA SameLog ==
  ASSUME LogInv, UNCHANGED <<faults, logs>>, srv = "down" => srv' = "down"
  PROVE  LogInv'
BY DEF LogInv, HalfLine, logs

LEMMA NameGone ==
  ASSUME TypeOK, LogInv, out' = 0, UNCHANGED <<faults, log, pending, writing>>
  PROVE  LogInv'
<1>1. \A f \in 1..Len(log) : (Lines(f)' <=> Lines(f)) /\ (HalfLine(f)' <=> HalfLine(f)) /\ f # out'
  BY LogTypes DEF Lines, HalfLine
<1>2. \A f \in 1..Len(log') : Lines(f)' /\ Settled(f)'
  <2> TAKE f \in 1..Len(log')
  <2>1. f \in 1..Len(log) /\ Lines(f) /\ Settled(f)
    BY LogParts
  <2> QED BY <1>1, <2>1 DEF Settled
<1>3. /\ \A a \in pending' \cup writing' : a[2] \in 1..Len(log')
      /\ \A a \in writing' : HalfLine(a[2])' /\ log'[a[2]][Len(log'[a[2]])].msg = a[1]
      /\ \A a, b \in writing' : a[2] = b[2] => a = b
      /\ "torn" \notin faults' => writing' = {} /\ \A f \in 1..Len(log') : ~HalfLine(f)'
  BY <1>1 DEF LogInv
<1> QED BY <1>2, <1>3, LogPartsPrime

LEMMA BroadcastLog ==
  ASSUME TypeOK, LogInv, Broadcast
  PROVE  LogInv'
<1>1. /\ srv = "answered" /\ writing' = writing /\ faults' = faults
      /\ pending' = pending \cup {<<took, out'>>}
  BY DEF Broadcast
<1>2. CASE out # 0 /\ out' = out /\ log' = log
  <2>1. out = Len(log) /\ out \in 1..Len(log)
    BY <1>2, LogTypes DEF LogInv, TypeOK
  <2>2. \A f \in 1..Len(log') : Lines(f)' /\ Settled(f)'
    <3> TAKE f \in 1..Len(log')
    <3>1. f \in 1..Len(log) /\ Lines(f) /\ Settled(f)
      BY <1>2, LogParts
    <3>2. Lines(f)'
      BY <1>2, <3>1 DEF Lines
    <3>3. Settled(f)'
      <4> SUFFICES ASSUME HalfLine(f)', \A a \in writing' : a[2] # f
                   PROVE  (\A a \in pending' : a[2] # f) /\ (out' # f \/ srv' = "down")
        BY DEF Settled
      <4>1. HalfLine(f)
        BY <1>2 DEF HalfLine
      <4>2. (\A a \in pending : a[2] # f) /\ out # f
        BY <1>1, <3>1, <4>1 DEF Settled
      <4> QED BY <1>1, <1>2, <4>2
    <3> QED BY <3>2, <3>3
  <2>3. \A a \in pending' \cup writing' : a[2] \in 1..Len(log')
    BY <1>1, <1>2, <2>1 DEF LogInv
  <2>4. \A a \in writing' : HalfLine(a[2])' /\ log'[a[2]][Len(log'[a[2]])].msg = a[1]
    BY <1>1, <1>2 DEF LogInv, HalfLine
  <2>5. "torn" \notin faults' => writing' = {} /\ \A f \in 1..Len(log') : ~HalfLine(f)'
    BY <1>1, <1>2 DEF LogInv, HalfLine
  <2> QED BY <1>1, <1>2, <2>1, <2>2, <2>3, <2>4, <2>5, LogPartsPrime DEF LogInv
<1>3. CASE out = 0 /\ Creates
  <2>1. /\ Len(log) \in Nat /\ Len(log') = Len(log) + 1 /\ out' = Len(log')
        /\ \A g \in 1..Len(log) : g \in 1..Len(log') /\ log'[g] = log[g]
        /\ log'[Len(log')] = <<>>
        /\ \A g \in 1..Len(log') : g = Len(log') \/ g \in 1..Len(log)
    BY <1>3, LogTypes DEF Creates
  <2>2. \A g \in 1..Len(log) : (Lines(g)' <=> Lines(g)) /\ (HalfLine(g)' <=> HalfLine(g)) /\ g # out'
    BY <2>1 DEF Lines, HalfLine
  <2>3. \A f \in 1..Len(log') : Lines(f)' /\ Settled(f)'
    <3> TAKE f \in 1..Len(log')
    <3>1. CASE f = Len(log')
      BY <2>1, <3>1 DEF Lines, Settled, HalfLine
    <3>2. CASE f \in 1..Len(log)
      <4>1. Lines(f) /\ Settled(f)
        BY <3>2, LogParts
      <4>2. \A a \in pending' : a \in pending \/ a[2] # f
        BY <1>1, <2>2, <3>2
      <4>3. Settled(f)'
        BY <1>1, <2>2, <3>2, <4>1, <4>2 DEF Settled
      <4> QED BY <2>2, <3>2, <4>1, <4>3
    <3> QED BY <2>1, <3>1, <3>2
  <2>4. \A a \in pending' \cup writing' : a[2] \in 1..Len(log')
    BY <1>1, <2>1 DEF LogInv
  <2>5. \A a \in writing' : HalfLine(a[2])' /\ log'[a[2]][Len(log'[a[2]])].msg = a[1]
    BY <1>1, <2>1, <2>2 DEF LogInv
  <2>6. "torn" \notin faults' => writing' = {} /\ \A f \in 1..Len(log') : ~HalfLine(f)'
    <3> SUFFICES ASSUME "torn" \notin faults', NEW f \in 1..Len(log')
                 PROVE  writing' = {} /\ ~HalfLine(f)'
      BY <1>1 DEF LogInv
    <3>1. CASE f = Len(log')
      BY <1>1, <2>1, <3>1 DEF LogInv, HalfLine
    <3>2. CASE f \in 1..Len(log)
      BY <1>1, <2>2, <3>2 DEF LogInv
    <3> QED BY <2>1, <3>1, <3>2
  <2> QED BY <1>1, <2>1, <2>3, <2>4, <2>5, <2>6, LogPartsPrime DEF LogInv
<1> QED BY <1>2, <1>3, BroadcastFacts

\* Files other than the one appended to keep their lines.
LEMMA OtherFiles ==
  ASSUME TypeOK, NEW f, \A g \in 1..Len(log) : g # f => log'[g] = log[g]
  PROVE  \A g \in 1..Len(log) : g # f => (Lines(g)' <=> Lines(g)) /\ (HalfLine(g)' <=> HalfLine(g))
BY DEF Lines, HalfLine

LEMMA LineLog ==
  ASSUME TypeOK, LogInv, NEW m, NEW f, AppendLine(m, f)
  PROVE  LogInv'
<1>1. /\ m \in Messages /\ f \in 1..Len(log)
      /\ AddsTwo(f, FirstHalf(m), LastHalf(m))
  BY LineFacts
<1>2. /\ "torn" \notin faults /\ faults' = faults
      /\ pending' \subseteq pending /\ writing' = writing /\ out' = out
  BY DEF AppendLine
<1>3. writing = {} /\ \A g \in 1..Len(log) : ~HalfLine(g)
  BY <1>2 DEF LogInv
<1> DEFINE n == Len(log[f])
<1>4. n \in Nat /\ \A i \in 1..n : log[f][i] \in Pieces
  BY <1>1, LogTypes
<1>5. /\ Len(log') = Len(log) /\ Len(log'[f]) = n + 2
      /\ \A i \in 1..n : log'[f][i] = log[f][i]
      /\ log'[f][n + 1] = FirstHalf(m)
      /\ log'[f][n + 2] = LastHalf(m)
  BY <1>1 DEF AddsTwo
<1>6. FirstHalf(m).msg = m /\ ~FirstHalf(m).end /\ LastHalf(m).msg = m /\ LastHalf(m).end
  BY <1>1, PieceFacts
<1>7. Lines(f)
  BY <1>1, LogParts
<1>8. n > 0 => log[f][n].end
  BY <1>1, <1>3 DEF HalfLine
<1> HIDE DEF n
<1>9. Lines(f)' /\ ~HalfLine(f)'
  <2>1. \A i \in 2..(n + 2) : IF log'[f][i].end THEN log'[f][i - 1] = FirstHalf(log'[f][i].msg)
                                                ELSE log'[f][i - 1].end
    <3> TAKE i \in 2..(n + 2)
    <3>1. CASE i \in 2..n
      <4>1. i \in 1..n /\ i - 1 \in 1..n
        BY <1>4, <3>1
      <4>2. log'[f][i] = log[f][i] /\ log'[f][i - 1] = log[f][i - 1]
        BY <1>5, <4>1
      <4> QED BY <1>7, <3>1, <4>2 DEF Lines, n
    <3>2. CASE i = n + 1
      <4>1. n > 0 /\ n \in 1..n /\ i - 1 = n
        BY <1>4, <3>2
      <4> QED BY <1>5, <1>6, <1>8, <3>2, <4>1
    <3>3. CASE i = n + 2
      <4>1. i - 1 = n + 1
        BY <1>4, <3>3
      <4> QED BY <1>5, <1>6, <3>3, <4>1
    <3> QED BY <1>4, <3>1, <3>2, <3>3
  <2>2. ~log'[f][1].end
    <3>1. CASE n = 0
      BY <1>5, <1>6, <3>1
    <3>2. CASE n > 0
      <4>1. 1 \in 1..n
        BY <1>4, <3>2
      <4> QED BY <1>5, <1>7, <3>2, <4>1 DEF Lines, n
    <3> QED BY <1>4, <3>1, <3>2
  <2> QED BY <1>4, <1>5, <1>6, <2>1, <2>2 DEF Lines, HalfLine
<1>10. \A g \in 1..Len(log') : Lines(g)' /\ ~HalfLine(g)'
  <2> TAKE g \in 1..Len(log')
  <2>1. CASE g = f
    BY <1>9, <2>1
  <2>2. CASE g # f
    <3>1. g \in 1..Len(log) /\ Lines(g) /\ ~HalfLine(g)
      BY <1>3, <1>5, LogParts
    <3>2. (Lines(g)' <=> Lines(g)) /\ (HalfLine(g)' <=> HalfLine(g))
      <4>1. \A h \in 1..Len(log) : h # f => log'[h] = log[h]
        BY <1>1 DEF AddsTwo
      <4> QED BY <2>2, <3>1, <4>1, OtherFiles
    <3> QED BY <3>1, <3>2
  <2> QED BY <2>1, <2>2
<1>11. \A g \in 1..Len(log') : Lines(g)' /\ Settled(g)'
  BY <1>10 DEF Settled
<1>12. out' \in {0, Len(log')} /\ \A a \in pending' \cup writing' : a[2] \in 1..Len(log')
  BY <1>2, <1>5 DEF LogInv
<1> QED BY <1>2, <1>3, <1>10, <1>11, <1>12, LogPartsPrime

LEMMA HeadLog ==
  ASSUME TypeOK, LogInv, NEW m, NEW f, AppendHead(m, f)
  PROVE  LogInv'
<1>1. /\ m \in Messages /\ f \in 1..Len(log)
      /\ AddsOne(f, FirstHalf(m))
  BY HeadFacts
<1>2. /\ "torn" \in faults /\ faults' = faults
      /\ <<m, f>> \in pending /\ \A a \in writing : a[2] # f
      /\ pending' \subseteq pending /\ writing' = writing \cup {<<m, f>>} /\ out' = out
      /\ srv' = srv
  BY DEF AppendHead, server
<1>3. ~HalfLine(f)
  <2>1. <<m, f>>[2] = f
    OBVIOUS
  <2> QED BY <1>1, <1>2, <2>1, LogParts DEF Settled
<1> DEFINE n == Len(log[f])
<1>4. n \in Nat /\ \A i \in 1..n : log[f][i] \in Pieces
  BY <1>1, LogTypes
<1>5. /\ Len(log') = Len(log) /\ Len(log'[f]) = n + 1
      /\ \A i \in 1..n : log'[f][i] = log[f][i]
      /\ log'[f][n + 1] = FirstHalf(m)
  BY <1>1 DEF AddsOne
<1>6. FirstHalf(m).msg = m /\ ~FirstHalf(m).end
  BY <1>1, PieceFacts
<1>7. Lines(f)
  BY <1>1, LogParts
<1>8. n > 0 => log[f][n].end
  BY <1>1, <1>3 DEF HalfLine
<1> HIDE DEF n
<1>9. Lines(f)' /\ HalfLine(f)' /\ log'[f][Len(log'[f])].msg = m
  <2>1. \A i \in 2..(n + 1) : IF log'[f][i].end THEN log'[f][i - 1] = FirstHalf(log'[f][i].msg)
                                                ELSE log'[f][i - 1].end
    <3> TAKE i \in 2..(n + 1)
    <3>1. CASE i \in 2..n
      <4>1. i \in 1..n /\ i - 1 \in 1..n
        BY <1>4, <3>1
      <4>2. log'[f][i] = log[f][i] /\ log'[f][i - 1] = log[f][i - 1]
        BY <1>5, <4>1
      <4> QED BY <1>7, <3>1, <4>2 DEF Lines, n
    <3>2. CASE i = n + 1
      <4>1. n > 0 /\ n \in 1..n /\ i - 1 = n
        BY <1>4, <3>2
      <4> QED BY <1>5, <1>6, <1>8, <3>2, <4>1
    <3> QED BY <1>4, <3>1, <3>2
  <2>2. ~log'[f][1].end
    <3>1. CASE n = 0
      BY <1>5, <1>6, <3>1
    <3>2. CASE n > 0
      <4>1. 1 \in 1..n
        BY <1>4, <3>2
      <4> QED BY <1>5, <1>7, <3>2, <4>1 DEF Lines, n
    <3> QED BY <1>4, <3>1, <3>2
  <2>3. Lines(f)'
    BY <1>5, <2>1, <2>2 DEF Lines
  <2>4. HalfLine(f)'
    BY <1>4, <1>5, <1>6 DEF HalfLine
  <2> QED BY <1>5, <1>6, <2>3, <2>4
<1>10. \A g \in 1..Len(log) : g # f => (Lines(g)' <=> Lines(g)) /\ (HalfLine(g)' <=> HalfLine(g))
                                       /\ log'[g] = log[g]
  BY <1>1, OtherFiles DEF AddsOne
<1>11. \A g \in 1..Len(log') : Lines(g)' /\ Settled(g)'
  <2> TAKE g \in 1..Len(log')
  <2>1. CASE g = f
    <3>1. <<m, f>> \in writing' /\ <<m, f>>[2] = f
      BY <1>2
    <3> QED BY <1>9, <2>1, <3>1 DEF Settled
  <2>2. CASE g # f
    <3>1. g \in 1..Len(log) /\ Lines(g) /\ Settled(g)
      BY <1>5, LogParts
    <3>2. Settled(g)'
      BY <1>2, <1>10, <2>2, <3>1 DEF Settled
    <3> QED BY <1>10, <2>2, <3>1, <3>2
  <2> QED BY <2>1, <2>2
<1>12. out' \in {0, Len(log')} /\ \A a \in pending' \cup writing' : a[2] \in 1..Len(log')
  BY <1>1, <1>2, <1>5 DEF LogInv
<1>13. \A a \in writing' : HalfLine(a[2])' /\ log'[a[2]][Len(log'[a[2]])].msg = a[1]
  <2> TAKE a \in writing'
  <2>1. CASE a = <<m, f>>
    BY <1>9, <2>1
  <2>2. CASE a \in writing
    <3>1. a[2] # f /\ a[2] \in 1..Len(log) /\ HalfLine(a[2]) /\ log[a[2]][Len(log[a[2]])].msg = a[1]
      BY <1>2, <2>2 DEF LogInv
    <3> QED BY <1>10, <3>1
  <2> QED BY <1>2, <2>1, <2>2
<1>14. \A a, b \in writing' : a[2] = b[2] => a = b
  BY <1>2, SMTT(20) DEF LogInv
<1> QED BY <1>2, <1>11, <1>12, <1>13, <1>14, LogPartsPrime

LEMMA TailLog ==
  ASSUME TypeOK, LogInv, NEW m, NEW f, AppendTail(m, f)
  PROVE  LogInv'
<1>1. /\ m \in Messages /\ f \in 1..Len(log)
      /\ AddsOne(f, LastHalf(m))
  BY TailFacts
<1>2. /\ faults' = faults /\ <<m, f>> \in writing
      /\ pending' = pending /\ writing' = writing \ {<<m, f>>} /\ out' = out
      /\ srv' = srv
  BY DEF AppendTail, server
<1>3. HalfLine(f) /\ log[f][Len(log[f])].msg = m
  <2>1. <<m, f>>[2] = f /\ <<m, f>>[1] = m
    OBVIOUS
  <2> QED BY <1>2, <2>1 DEF LogInv
<1> DEFINE n == Len(log[f])
<1>4. n \in Nat /\ \A i \in 1..n : log[f][i] \in Pieces
  BY <1>1, LogTypes
<1>5. /\ Len(log') = Len(log) /\ Len(log'[f]) = n + 1
      /\ \A i \in 1..n : log'[f][i] = log[f][i]
      /\ log'[f][n + 1] = LastHalf(m)
  BY <1>1 DEF AddsOne
<1>6. LastHalf(m).msg = m /\ LastHalf(m).end
  BY <1>1, PieceFacts
<1>7. Lines(f)
  BY <1>1, LogParts
<1>8. n > 0 /\ n \in 1..n /\ log[f][n] = FirstHalf(m)
  BY <1>3, <1>4, PieceFacts DEF HalfLine
<1> HIDE DEF n
<1>9. Lines(f)' /\ ~HalfLine(f)'
  <2>1. \A i \in 2..(n + 1) : IF log'[f][i].end THEN log'[f][i - 1] = FirstHalf(log'[f][i].msg)
                                                ELSE log'[f][i - 1].end
    <3> TAKE i \in 2..(n + 1)
    <3>1. CASE i \in 2..n
      <4>1. i \in 1..n /\ i - 1 \in 1..n
        BY <1>4, <3>1
      <4>2. log'[f][i] = log[f][i] /\ log'[f][i - 1] = log[f][i - 1]
        BY <1>5, <4>1
      <4> QED BY <1>7, <3>1, <4>2 DEF Lines, n
    <3>2. CASE i = n + 1
      <4>1. i - 1 = n
        BY <1>4, <3>2
      <4> QED BY <1>5, <1>6, <1>8, <3>2, <4>1
    <3> QED BY <1>4, <3>1, <3>2
  <2>2. ~log'[f][1].end
    <3>1. 1 \in 1..n
      BY <1>4, <1>8
    <3> QED BY <1>5, <1>7, <1>8, <3>1 DEF Lines, n
  <2> QED BY <1>4, <1>5, <1>6, <2>1, <2>2 DEF Lines, HalfLine
<1>10. \A g \in 1..Len(log) : g # f => (Lines(g)' <=> Lines(g)) /\ (HalfLine(g)' <=> HalfLine(g))
                                       /\ log'[g] = log[g]
  BY <1>1, OtherFiles DEF AddsOne
<1>11. \A g \in 1..Len(log') : Lines(g)' /\ Settled(g)'
  <2> TAKE g \in 1..Len(log')
  <2>1. CASE g = f
    BY <1>9, <2>1 DEF Settled
  <2>2. CASE g # f
    <3>1. g \in 1..Len(log) /\ Lines(g) /\ Settled(g)
      BY <1>5, LogParts
    <3>2. \A a \in writing : a[2] = g => a \in writing'
      BY <1>2, <2>2
    <3>3. Settled(g)'
      BY <1>2, <1>10, <2>2, <3>1, <3>2 DEF Settled
    <3> QED BY <1>10, <2>2, <3>1, <3>3
  <2> QED BY <2>1, <2>2
<1>12. out' \in {0, Len(log')} /\ \A a \in pending' \cup writing' : a[2] \in 1..Len(log')
  BY <1>1, <1>2, <1>5 DEF LogInv
<1>13. \A a \in writing' : HalfLine(a[2])' /\ log'[a[2]][Len(log'[a[2]])].msg = a[1]
  <2> TAKE a \in writing'
  <2>1. a \in writing /\ a[2] # f
    <3>1. <<m, f>>[2] = f
      OBVIOUS
    <3> QED BY <1>2, <3>1 DEF LogInv
  <2>2. a[2] \in 1..Len(log) /\ HalfLine(a[2]) /\ log[a[2]][Len(log[a[2]])].msg = a[1]
    BY <2>1 DEF LogInv
  <2> QED BY <1>10, <2>1, <2>2
<1>14. \A a, b \in writing' : a[2] = b[2] => a = b
  BY <1>2, SMTT(20) DEF LogInv
<1>15. "torn" \in faults
  BY <1>2 DEF LogInv
<1> QED BY <1>2, <1>11, <1>12, <1>13, <1>14, <1>15, LogPartsPrime

LEMMA LogStep ==
  ASSUME TypeOK, LogInv, [Next]_vars
  PROVE  LogInv'
<1>1. CASE UNCHANGED vars
  BY <1>1, SameLog DEF vars, server
<1>2. ASSUME NEW m \in Messages, Create(m) \/ GiveUp(m) \/ Write(m) PROVE LogInv'
  BY <1>2, SameLog DEF Create, GiveUp, Write, WriteHalf, WriteRest, server
<1>3. CASE Take \/ Remove \/ Respond
  BY <1>3, SameLog DEF Take, Remove, Respond
<1>4. CASE Broadcast
  BY <1>4, BroadcastLog
<1>5. CASE Flush
  BY <1>5, LineLog, HeadLog, TailLog DEF Flush
<1>6. CASE Start
  BY <1>6, NameGone DEF Start
<1>7. CASE Stop
  BY <1>7, SameLog DEF Stop
<1>8. CASE Exit \/ CleanResponse \/ Sweep
  BY <1>8, SameLog DEF Exit, CleanResponse, Sweep, server
<1>9. CASE CleanOut
  BY <1>9, NameGone DEF CleanOut
<1>10. CASE Crash
  BY <1>10 DEF Crash, LogInv, HalfLine
<1>11. ASSUME NEW c \in Clients, Receive(c) \/ Cancel(c) PROVE LogInv'
  BY <1>11, SameLog DEF Receive, OpenLog, Measure, ReadFrom, SkipLine, TakeLine, ReturnLine,
     EndOfFile, OpenResponse, TakeResponse, Cancel, server
<1> QED BY <1>1, <1>2, <1>3, <1>4, <1>5, <1>6, <1>7, <1>8, <1>9, <1>10, <1>11 DEF Next, Serve, Clean

-----------------------------------------------------------------------------
(* Each message is broadcast once.                                         *)

LEMMA LoggedEnded ==
  ASSUME NEW m
  PROVE  Logged(m) <=> \E f, i : Ended(m, f, i)
BY DEF Logged, Ended

LEMMA EndedOnce ==
  ASSUME OnceInv, NEW m \in Messages, NEW f, NEW i, NEW g, NEW j,
         Ended(m, f, i), Ended(m, g, j)
  PROVE  f = g /\ i = j
<1>1. f \in 1..Len(log) /\ g \in 1..Len(log) /\ i \in 1..Len(log[f]) /\ j \in 1..Len(log[g])
  BY DEF Ended
<1> QED BY <1>1 DEF OnceInv

\* Parts of OnceInv' from the places of the lines.
LEMMA OncePrime ==
  ASSUME \A m \in Messages : handled'[m] = 0 => Nowhere(m)',
         srv' \in {"handling", "answered"} => Nowhere(took)',
         \A a \in Queued' : ~Logged(a[1])',
         \A a, b \in Queued' : a[1] = b[1] => a = b,
         pending' \cap writing' = {},
         \A m \in Messages : \A f, i, g, j : Ended(m, f, i)' /\ Ended(m, g, j)' => f = g /\ i = j
  PROVE  OnceInv'
BY DEF OnceInv

\* A step that ends no line and queues nothing.
LEMMA SameOnce ==
  ASSUME OnceInv,
         log' = log, Queued' \subseteq Queued, pending' \cap writing' = {},
         \A m \in Messages : handled'[m] = 0 => handled[m] = 0,
         srv' \in {"handling", "answered"} => Nowhere(took')
  PROVE  OnceInv'
<1>1. \A m : Logged(m)' <=> Logged(m)
  BY DEF Logged, Ended
<1>2. \A m, f, i : Ended(m, f, i)' <=> Ended(m, f, i)
  BY DEF Ended
<1>3. \A m : Nowhere(m) => Nowhere(m)'
  BY <1>1 DEF Nowhere
<1>4. srv' \in {"handling", "answered"} => Nowhere(took)'
  BY <1>1 DEF Nowhere
<1>5. \A m \in Messages : \A f, i, g, j : Ended(m, f, i)' /\ Ended(m, g, j)' => f = g /\ i = j
  BY <1>2, EndedOnce
<1>6. \A a \in Queued' : ~Logged(a[1])'
  BY <1>1 DEF OnceInv
<1>7. \A m \in Messages : handled'[m] = 0 => Nowhere(m)'
  BY <1>3 DEF OnceInv
<1>8. \A a, b \in Queued' : a[1] = b[1] => a = b
  BY DEF OnceInv
<1> QED BY <1>4, <1>5, <1>6, <1>7, <1>8, OncePrime

\* A step that ends the line of a queued message.
EndsLine(m, f, k) ==
  \A x \in Messages : \A g, i :
    Ended(x, g, i)' <=> Ended(x, g, i) \/ (x = m /\ g = f /\ i = k)

LEMMA EndOnce ==
  ASSUME TypeOK, OnceInv, NEW m \in Messages, NEW f, NEW k, <<m, f>> \in Queued,
         EndsLine(m, f, k),
         Queued' = Queued \ {<<m, f>>}, pending' \subseteq pending, writing' \subseteq writing,
         Queued \subseteq Messages \X Nat,
         UNCHANGED <<handled, srv, took>>,
         srv \in {"handling", "answered"} => took \in Messages
  PROVE  OnceInv'
<1>1. ~Logged(m) /\ handled[m] # 0 /\ (srv \in {"handling", "answered"} => took # m)
  <2>1. <<m, f>>[1] = m
    OBVIOUS
  <2>2. ~Logged(m)
    BY <2>1 DEF OnceInv
  <2>3. ~Nowhere(m)
    BY <2>1 DEF Nowhere
  <2> QED BY <2>2, <2>3 DEF OnceInv
<1>2. \A x \in Messages : x # m => (Logged(x)' <=> Logged(x))
  <2> SUFFICES ASSUME NEW x \in Messages, x # m PROVE Logged(x)' <=> Logged(x)
    OBVIOUS
  <2>1. Logged(x) <=> \E g, i : Ended(x, g, i)
    BY LoggedEnded
  <2>2. Logged(x)' <=> \E g, i : Ended(x, g, i)'
    BY DEF Logged, Ended
  <2>3. \A g, i : Ended(x, g, i)' <=> Ended(x, g, i)
    BY DEF EndsLine
  <2> QED BY <2>1, <2>2, <2>3
<1>3. \A x \in Messages : x # m /\ Nowhere(x) => Nowhere(x)'
  BY <1>2 DEF Nowhere
<1>4. \A x \in Messages : handled'[x] = 0 => Nowhere(x)'
  BY <1>1, <1>3 DEF OnceInv
<1>5. srv' \in {"handling", "answered"} => Nowhere(took)'
  <2> SUFFICES ASSUME srv \in {"handling", "answered"} PROVE Nowhere(took)'
    OBVIOUS
  <2>1. took \in Messages /\ took # m /\ Nowhere(took)
    BY <1>1 DEF OnceInv
  <2>2. PICK t \in Messages : t = took
    BY <2>1
  <2>3. Nowhere(t)'
    BY <1>3, <2>1, <2>2
  <2>4. took' = t
    BY <2>2
  <2> QED BY <2>3, <2>4 DEF Nowhere, Logged, Ended
<1>6. \A a \in Queued' : ~Logged(a[1])'
  <2> TAKE a \in Queued'
  <2>1. a \in Queued /\ a # <<m, f>> /\ a[1] \in Messages /\ <<m, f>>[1] = m
    OBVIOUS
  <2>2. a[1] # m
    BY <2>1 DEF OnceInv
  <2>3. ~Logged(a[1])
    BY <2>1 DEF OnceInv
  <2> DEFINE x == a[1]
  <2>4. x \in Messages /\ x # m /\ ~Logged(x)
    BY <2>1, <2>2, <2>3
  <2> HIDE DEF x
  <2>5. ~Logged(x)'
    BY <1>2, <2>4
  <2> QED BY <2>5 DEF x, Logged, Ended
<1>7. \A x \in Messages : \A g, i, h, j : Ended(x, g, i)' /\ Ended(x, h, j)' => g = h /\ i = j
  <2> TAKE x \in Messages
  <2> TAKE g, i, h, j
  <2>1. CASE x = m
    <3>1. \A p, q : ~Ended(m, p, q)
      BY <1>1, LoggedEnded
    <3> QED BY <2>1, <3>1 DEF EndsLine
  <2>2. CASE x # m
    BY <2>2, EndedOnce DEF EndsLine
  <2> QED BY <2>1, <2>2
<1>8. \A a, b \in Queued' : a[1] = b[1] => a = b
  BY DEF OnceInv
<1>9. pending' \cap writing' = {}
  BY DEF OnceInv
<1> QED BY <1>4, <1>5, <1>6, <1>7, <1>8, <1>9, OncePrime

LEMMA QueuedType ==
  ASSUME TypeOK
  PROVE  Queued \subseteq Messages \X Nat
BY DEF Queued, TypeOK, Appends

LEMMA LineEnds ==
  ASSUME TypeOK, LogInv, NEW m, NEW f, AppendLine(m, f)
  PROVE  EndsLine(m, f, Len(log[f]) + 2)
<1>1. /\ m \in Messages /\ f \in 1..Len(log)
      /\ AddsTwo(f, FirstHalf(m), LastHalf(m))
  BY LineFacts
<1> DEFINE n == Len(log[f])
<1>2. n \in Nat
  BY <1>1, LogTypes
<1>3. \A x \in Messages : \A g, i :
        Ended(x, g, i)' <=> Ended(x, g, i) \/ (x = m /\ g = f /\ i = n + 2)
  <2> TAKE x \in Messages
  <2> TAKE g, i
  <2>1. /\ Len(log') = Len(log) /\ Len(log'[f]) = n + 2
        /\ \A j \in 1..n : log'[f][j] = log[f][j]
        /\ log'[f][n + 1] = FirstHalf(m)
        /\ log'[f][n + 2] = LastHalf(m)
        /\ \A h \in 1..Len(log) : h # f => log'[h] = log[h]
    BY <1>1 DEF AddsTwo
  <2>2. FirstHalf(m) # LastHalf(x) /\ (LastHalf(m) = LastHalf(x) <=> x = m)
    BY <1>1 DEF FirstHalf, LastHalf
  <2>3. CASE g # f
    BY <2>1, <2>3 DEF Ended
  <2>4. CASE g = f
    <3>1. i \in 1..(n + 2) <=> i \in 1..n \/ i = n + 1 \/ i = n + 2
      BY <1>2
    <3>2. n + 1 \notin 1..n /\ n + 2 \notin 1..n
      BY <1>2
    <3> HIDE DEF n
    <3>3. Ended(x, g, i)' <=> i \in 1..(n + 2) /\ log'[f][i] = LastHalf(x)
      BY <1>1, <2>1, <2>4 DEF Ended
    <3>4. Ended(x, g, i) <=> i \in 1..n /\ log[f][i] = LastHalf(x)
      BY <1>1, <2>4 DEF Ended, n
    <3>5. CASE i \in 1..n
      BY <2>1, <2>2, <3>1, <3>2, <3>3, <3>4, <3>5
    <3>6. CASE i = n + 1
      BY <1>2, <2>1, <2>2, <3>1, <3>2, <3>3, <3>4, <3>6
    <3>7. CASE i = n + 2
      BY <1>2, <2>1, <2>2, <2>4, <3>1, <3>2, <3>3, <3>4, <3>7
    <3>8. CASE i \notin 1..(n + 2)
      BY <3>1, <3>3, <3>4, <3>8
    <3> QED BY <3>1, <3>5, <3>6, <3>7, <3>8
  <2> QED BY <2>3, <2>4
<1> QED BY <1>3 DEF EndsLine


LEMMA LineOnce ==
  ASSUME TypeOK, RequestInv, LogInv, OnceInv, NEW m, NEW f, AppendLine(m, f)
  PROVE  OnceInv'
<1>1. /\ m \in Messages /\ f \in 1..Len(log)
      /\ AddsTwo(f, FirstHalf(m), LastHalf(m))
  BY LineFacts
<1> DEFINE n == Len(log[f])
<1>2. n \in Nat
  BY <1>1, LogTypes
<1>3. EndsLine(m, f, n + 2)
  BY LineEnds
<1>4. /\ <<m, f>> \in pending /\ pending' = pending \ {<<m, f>>}
      /\ writing' = writing
      /\ handled' = handled /\ srv' = srv /\ took' = took
  BY DEF AppendLine, server
<1>5. <<m, f>> \in Queued /\ Queued' = Queued \ {<<m, f>>}
  BY <1>4 DEF Queued, OnceInv
<1>6. srv \in {"handling", "answered"} => took \in Messages
  BY DEF RequestInv
<1>7. PICK k : k = n + 2
  OBVIOUS
<1> HIDE DEF n
<1>8. EndsLine(m, f, k)
  BY <1>3, <1>7
<1>9. pending' \subseteq pending
  BY <1>4
<1>10. writing' \subseteq writing
  BY <1>4
<1>11. UNCHANGED <<handled, srv, took>>
  BY <1>4
<1>12. Queued \subseteq Messages \X Nat
  BY QueuedType
<1>13. m \in Messages
  BY <1>1
<1>14. <<m, f>> \in Queued
  BY <1>5
<1>15. Queued' = Queued \ {<<m, f>>}
  BY <1>5
<1> QED BY <1>6, <1>8, <1>9, <1>10, <1>11, <1>12, <1>13, <1>14, <1>15, EndOnce

LEMMA TailEnds ==
  ASSUME TypeOK, LogInv, NEW m, NEW f, AppendTail(m, f)
  PROVE  EndsLine(m, f, Len(log[f]) + 1)
<1>1. /\ m \in Messages /\ f \in 1..Len(log)
      /\ AddsOne(f, LastHalf(m))
  BY TailFacts
<1> DEFINE n == Len(log[f])
<1>2. n \in Nat
  BY <1>1, LogTypes
<1>3. \A x \in Messages : \A g, i :
        Ended(x, g, i)' <=> Ended(x, g, i) \/ (x = m /\ g = f /\ i = n + 1)
  <2> TAKE x \in Messages
  <2> TAKE g, i
  <2>1. /\ Len(log') = Len(log) /\ Len(log'[f]) = n + 1
        /\ \A j \in 1..n : log'[f][j] = log[f][j]
        /\ log'[f][n + 1] = LastHalf(m)
        /\ \A h \in 1..Len(log) : h # f => log'[h] = log[h]
    BY <1>1 DEF AddsOne
  <2>2. LastHalf(m) = LastHalf(x) <=> x = m
    BY <1>1 DEF LastHalf
  <2>3. CASE g # f
    BY <2>1, <2>3 DEF Ended
  <2>4. CASE g = f
    <3>1. i \in 1..(n + 1) <=> i \in 1..n \/ i = n + 1
      BY <1>2
    <3>2. n + 1 \notin 1..n
      BY <1>2
    <3> HIDE DEF n
    <3>3. Ended(x, g, i)' <=> i \in 1..(n + 1) /\ log'[f][i] = LastHalf(x)
      BY <1>1, <2>1, <2>4 DEF Ended
    <3>4. Ended(x, g, i) <=> i \in 1..n /\ log[f][i] = LastHalf(x)
      BY <1>1, <2>4 DEF Ended, n
    <3>5. CASE i \in 1..n
      BY <2>1, <2>2, <3>1, <3>2, <3>3, <3>4, <3>5
    <3>6. CASE i = n + 1
      BY <1>2, <2>1, <2>2, <2>4, <3>1, <3>2, <3>3, <3>4, <3>6
    <3>7. CASE i \notin 1..(n + 1)
      BY <3>1, <3>3, <3>4, <3>7
    <3> QED BY <3>1, <3>5, <3>6, <3>7
  <2> QED BY <2>3, <2>4
<1> QED BY <1>3 DEF EndsLine


LEMMA TailOnce ==
  ASSUME TypeOK, RequestInv, LogInv, OnceInv, NEW m, NEW f, AppendTail(m, f)
  PROVE  OnceInv'
<1>1. /\ m \in Messages /\ f \in 1..Len(log)
      /\ AddsOne(f, LastHalf(m))
  BY TailFacts
<1> DEFINE n == Len(log[f])
<1>2. n \in Nat
  BY <1>1, LogTypes
<1>3. EndsLine(m, f, n + 1)
  BY TailEnds
<1>4. /\ <<m, f>> \in writing /\ writing' = writing \ {<<m, f>>}
      /\ pending' = pending
      /\ handled' = handled /\ srv' = srv /\ took' = took
  BY DEF AppendTail, server
<1>5. <<m, f>> \in Queued /\ Queued' = Queued \ {<<m, f>>}
  BY <1>4 DEF Queued, OnceInv
<1>6. srv \in {"handling", "answered"} => took \in Messages
  BY DEF RequestInv
<1>7. PICK k : k = n + 1
  OBVIOUS
<1> HIDE DEF n
<1>8. EndsLine(m, f, k)
  BY <1>3, <1>7
<1>9. pending' \subseteq pending
  BY <1>4
<1>10. writing' \subseteq writing
  BY <1>4
<1>11. UNCHANGED <<handled, srv, took>>
  BY <1>4
<1>12. Queued \subseteq Messages \X Nat
  BY QueuedType
<1>13. m \in Messages
  BY <1>1
<1>14. <<m, f>> \in Queued
  BY <1>5
<1>15. Queued' = Queued \ {<<m, f>>}
  BY <1>5
<1> QED BY <1>6, <1>8, <1>9, <1>10, <1>11, <1>12, <1>13, <1>14, <1>15, EndOnce

LEMMA HeadEnds ==
  ASSUME TypeOK, LogInv, NEW m, NEW f, AppendHead(m, f)
  PROVE  \A x, g, i : Ended(x, g, i)' <=> Ended(x, g, i)
<1>1. /\ m \in Messages /\ f \in 1..Len(log)
      /\ AddsOne(f, FirstHalf(m))
  BY HeadFacts
<1> DEFINE n == Len(log[f])
<1>2. n \in Nat
  BY <1>1, LogTypes
<1>3. \A x, g, i : Ended(x, g, i)' <=> Ended(x, g, i)
  <2> TAKE x, g, i
  <2>1. /\ Len(log') = Len(log) /\ Len(log'[f]) = n + 1
        /\ \A j \in 1..n : log'[f][j] = log[f][j]
        /\ log'[f][n + 1] = FirstHalf(m)
        /\ \A h \in 1..Len(log) : h # f => log'[h] = log[h]
    BY <1>1 DEF AddsOne
  <2>2. FirstHalf(m) # LastHalf(x)
    BY DEF FirstHalf, LastHalf
  <2>3. CASE g # f
    BY <2>1, <2>3 DEF Ended
  <2>4. CASE g = f
    <3>1. i \in 1..(n + 1) <=> i \in 1..n \/ i = n + 1
      BY <1>2
    <3> HIDE DEF n
    <3>2. Ended(x, g, i)' <=> i \in 1..(n + 1) /\ log'[f][i] = LastHalf(x)
      BY <1>1, <2>1, <2>4 DEF Ended
    <3>3. Ended(x, g, i) <=> i \in 1..n /\ log[f][i] = LastHalf(x)
      BY <1>1, <2>4 DEF Ended, n
    <3> QED BY <2>1, <2>2, <3>1, <3>2, <3>3
  <2> QED BY <2>3, <2>4
<1> QED BY <1>3

LEMMA HeadOnce ==
  ASSUME TypeOK, LogInv, OnceInv, NEW m, NEW f, AppendHead(m, f)
  PROVE  OnceInv'
<1>3. \A x, g, i : Ended(x, g, i)' <=> Ended(x, g, i)
  BY HeadEnds
<1>4. /\ <<m, f>> \in pending /\ pending' = pending \ {<<m, f>>}
      /\ writing' = writing \cup {<<m, f>>}
      /\ handled' = handled /\ srv' = srv /\ took' = took
  BY DEF AppendHead, server
<1>5. Queued' = Queued
  BY <1>4 DEF Queued
<1>6. pending' \cap writing' = {}
  BY <1>4 DEF OnceInv
<1>7. \A x : Logged(x)' <=> \E g, i : Ended(x, g, i)'
  BY DEF Logged, Ended
<1>8. \A x : Logged(x)' <=> Logged(x)
  BY <1>3, <1>7, LoggedEnded
<1>9. \A x : Nowhere(x)' <=> Nowhere(x)
  BY <1>5, <1>8 DEF Nowhere
<1>10. srv' \in {"handling", "answered"} => Nowhere(took)'
  <2> SUFFICES ASSUME srv \in {"handling", "answered"} PROVE Nowhere(took)'
    BY <1>4
  <2>1. PICK t : t = took
    OBVIOUS
  <2>2. Nowhere(t)'
    BY <1>9, <2>1 DEF OnceInv
  <2>3. took' = t
    BY <1>4, <2>1
  <2> QED BY <2>2, <2>3 DEF Nowhere, Logged, Ended
<1>11. \A x \in Messages : \A g, i, h, j : Ended(x, g, i)' /\ Ended(x, h, j)' => g = h /\ i = j
  BY <1>3, EndedOnce
<1>12. \A a \in Queued' : ~Logged(a[1])'
  BY <1>5, <1>8 DEF OnceInv
<1>13. \A x \in Messages : handled'[x] = 0 => Nowhere(x)'
  BY <1>4, <1>9 DEF OnceInv
<1>14. \A a, b \in Queued' : a[1] = b[1] => a = b
  BY <1>5 DEF OnceInv
<1> QED BY <1>6, <1>10, <1>11, <1>12, <1>13, <1>14, OncePrime

LEMMA BroadcastEnds ==
  ASSUME TypeOK, Broadcast
  PROVE  \A x, g, i : Ended(x, g, i)' <=> Ended(x, g, i)
<1>3. \A x, g, i : Ended(x, g, i)' <=> Ended(x, g, i)
  <2>1. CASE log' = log
    BY <2>1 DEF Ended
  <2>2. CASE Creates
    <3> TAKE x, g, i
    <3>1. /\ Len(log) \in Nat /\ Len(log') = Len(log) + 1
          /\ \A h \in 1..Len(log) : log'[h] = log[h]
          /\ log'[Len(log) + 1] = <<>>
      BY <2>2, LogTypes DEF Creates
    <3>2. g \in 1..Len(log') <=> g \in 1..Len(log) \/ g = Len(log) + 1
      BY <3>1
    <3>3. ~(i \in 1..Len(<<>>))
      OBVIOUS
    <3>4. Len(log) + 1 \notin 1..Len(log)
      BY <3>1
    <3>5. CASE g \in 1..Len(log)
      BY <3>1, <3>2, <3>5 DEF Ended
    <3>6. CASE g = Len(log) + 1
      BY <3>1, <3>2, <3>3, <3>4, <3>6 DEF Ended
    <3>7. CASE g \notin 1..Len(log')
      BY <3>2, <3>7 DEF Ended
    <3> QED BY <3>2, <3>5, <3>6, <3>7
  <2> QED BY <2>1, <2>2, BroadcastFacts
<1> QED BY <1>3

LEMMA BroadcastOnce ==
  ASSUME TypeOK, RequestInv, LogInv, OnceInv, Broadcast
  PROVE  OnceInv'
<1>1. /\ srv = "answered" /\ srv' = "idle" /\ writing' = writing /\ handled' = handled
      /\ pending' = pending \cup {<<took, out'>>}
  BY DEF Broadcast
<1>2. took \in Messages /\ handled[took] # 0 /\ Nowhere(took)
  BY <1>1 DEF RequestInv, OnceInv
<1>3. \A x, g, i : Ended(x, g, i)' <=> Ended(x, g, i)
  BY BroadcastEnds
<1>4. \A x : Logged(x)' <=> \E g, i : Ended(x, g, i)'
  BY DEF Logged, Ended
<1>5. \A x : Logged(x)' <=> Logged(x)
  BY <1>3, <1>4, LoggedEnded
<1>6. \A a \in Queued' : a \in Queued \/ a = <<took, out'>>
  BY <1>1 DEF Queued
<1>7. \A x \in Messages : handled'[x] = 0 => Nowhere(x)'
  <2> SUFFICES ASSUME NEW x \in Messages, handled[x] = 0 PROVE Nowhere(x)'
    BY <1>1
  <2>1. Nowhere(x) /\ x # took
    BY <1>2 DEF OnceInv
  <2>2. <<took, out'>>[1] = took
    OBVIOUS
  <2> QED BY <1>5, <1>6, <2>1, <2>2 DEF Nowhere
<1>8. \A a \in Queued' : ~Logged(a[1])'
  BY <1>2, <1>5, <1>6 DEF OnceInv, Nowhere
<1>9. \A a, b \in Queued' : a[1] = b[1] => a = b
  <2>1. \A a \in Queued : a[1] # took
    BY <1>2 DEF Nowhere
  <2>2. <<took, out'>>[1] = took
    OBVIOUS
  <2> QED BY <1>6, <2>1, <2>2 DEF OnceInv
<1>10. pending' \cap writing' = {}
  <2>1. <<took, out'>> \notin writing
    <3>1. <<took, out'>>[1] = took
      OBVIOUS
    <3> QED BY <1>2, <3>1 DEF Nowhere, Queued
  <2> QED BY <1>1, <2>1 DEF OnceInv
<1>11. \A x \in Messages : \A g, i, h, j : Ended(x, g, i)' /\ Ended(x, h, j)' => g = h /\ i = j
  BY <1>3, EndedOnce
<1>12. srv' \notin {"handling", "answered"}
  BY <1>1
<1> QED BY <1>7, <1>8, <1>9, <1>10, <1>11, <1>12, OncePrime

LEMMA RestOnce ==
  ASSUME OnceInv, UNCHANGED <<logs, handled>>,
         srv' \in {"handling", "answered"} => srv \in {"handling", "answered"} /\ took' = took
  PROVE  OnceInv'
<1>1. log' = log /\ Queued' = Queued /\ pending' \cap writing' = {}
  BY DEF logs, Queued, OnceInv
<1>2. srv' \in {"handling", "answered"} => Nowhere(took')
  BY DEF OnceInv
<1>3. \A m \in Messages : handled'[m] = 0 => handled[m] = 0
  OBVIOUS
<1> QED BY <1>1, <1>2, <1>3, SameOnce

LEMMA OnceStep ==
  ASSUME IInv, [Next]_vars
  PROVE  OnceInv'
<1> USE DEF IInv
<1>1. CASE UNCHANGED vars
  BY <1>1, RestOnce DEF vars, server
<1>2. ASSUME NEW m \in Messages, Create(m) \/ GiveUp(m) \/ Write(m) PROVE OnceInv'
  BY <1>2, RestOnce DEF Create, GiveUp, Write, WriteHalf, WriteRest, server
<1>3. CASE Take \/ Respond
  BY <1>3, RestOnce DEF Take, Respond
<1>4. CASE Remove
  <2>1. log' = log /\ Queued' = Queued /\ pending' \cap writing' = {}
    BY <1>4 DEF Remove, logs, Queued, OnceInv
  <2>2. CASE took \in Messages
    <3>1. handled[took] = 0
      BY <1>4, <2>2, RemoveFirst
    <3>2. took' = took /\ handled' = [handled EXCEPT ![took] = handled[took] + 1]
      BY <1>4, <2>2 DEF Remove, Parse
    <3>3. Nowhere(took')
      BY <2>2, <3>1, <3>2 DEF OnceInv
    <3>4. \A m \in Messages : handled'[m] = 0 => handled[m] = 0
      BY <3>1, <3>2 DEF TypeOK
    <3> QED BY <2>1, <3>3, <3>4, SameOnce
  <2>3. CASE took \notin Messages
    <3>1. handled' = handled /\ srv' = "idle"
      BY <1>4, <2>3 DEF Remove, Parse
    <3> QED BY <1>4, <3>1, RestOnce DEF Remove
  <2> QED BY <2>2, <2>3
<1>5. CASE Broadcast
  BY <1>5, BroadcastOnce
<1>6. CASE Flush
  BY <1>6, LineOnce, HeadOnce, TailOnce DEF Flush
<1>7. CASE Start \/ CleanOut
  <2>1. log' = log /\ Queued' = Queued /\ pending' \cap writing' = {}
    BY <1>7 DEF Start, CleanOut, Queued, OnceInv
  <2>2. handled' = handled /\ took' = took /\ (srv' \in {"handling", "answered"} => srv' = srv)
    BY <1>7 DEF Start, CleanOut
  <2>3. srv' \in {"handling", "answered"} => Nowhere(took')
    BY <2>2 DEF OnceInv
  <2> QED BY <2>1, <2>2, <2>3, SameOnce
<1>8. CASE Stop
  BY <1>8, RestOnce DEF Stop
<1>9. CASE Exit \/ CleanResponse \/ Sweep
  BY <1>9, RestOnce DEF Exit, CleanResponse, Sweep, server
<1>10. CASE Crash
  <2>1. log' = log /\ Queued' \subseteq Queued /\ pending' \cap writing' = {}
    BY <1>10 DEF Crash, Queued
  <2>2. handled' = handled /\ srv' = "down"
    BY <1>10 DEF Crash
  <2> QED BY <2>1, <2>2, SameOnce
<1>11. ASSUME NEW c \in Clients, Receive(c) \/ Cancel(c) PROVE OnceInv'
  BY <1>11, RestOnce DEF Receive, OpenLog, Measure, ReadFrom, SkipLine, TakeLine, ReturnLine,
     EndOfFile, OpenResponse, TakeResponse, Cancel, server
<1> QED BY <1>1, <1>2, <1>3, <1>4, <1>5, <1>6, <1>7, <1>8, <1>9, <1>10, <1>11 DEF Next, Serve, Clean

-----------------------------------------------------------------------------
(* The readers.                                                            *)

LEMMA ReaderTypes ==
  ASSUME TypeOK, NEW c \in Clients
  PROVE  /\ reader[c] \in {"poll", "opened", "lines", "marked", "response", "taking"}
         /\ file[c] \in 0..Len(log) /\ file[c] \in Nat
         /\ pos[c] \in Nat /\ offset[c] \in Nat
         /\ seen[c] \subseteq Messages /\ got[c] \subseteq Messages
         /\ at[c][1] \in Nat /\ at[c][2] \in Nat
         /\ Len(log) \in Nat
<1>1. reader[c] \in {"poll", "opened", "lines", "marked", "response", "taking"}
  BY DEF TypeOK
<1>2. Len(log) \in Nat
  BY LogTypes
<1>3. file[c] \in 0..Len(log)
  BY DEF TypeOK
<1>4. file[c] \in Nat
  BY <1>2, <1>3
<1>5. pos[c] \in Nat /\ offset[c] \in Nat
  BY DEF TypeOK
<1>6. seen[c] \subseteq Messages /\ got[c] \subseteq Messages
  BY DEF TypeOK
<1>7. at[c] \in Nat \X Nat
  BY DEF TypeOK
<1> QED BY <1>1, <1>2, <1>3, <1>4, <1>5, <1>6, <1>7

\* A reader that does not move, while the log grows.
LEMMA QuietReader ==
  ASSUME TypeOK, Grows, NEW c \in Clients, ReaderInv(c),
         reader'[c] = reader[c], file'[c] = file[c], pos'[c] = pos[c],
         offset'[c] = offset[c], fresh'[c] = fresh[c], at'[c] = at[c], got'[c] = got[c],
         seen'[c] = seen[c]
  PROVE  ReaderInv(c)'
<1>1. at[c][1] > 0 /\ at[c][1] = Len(log') => at[c][1] = Len(log)
  BY ReaderTypes DEF ReaderInv, Grows
<1>2. \A f \in 1..Len(log) : f \in 1..Len(log')
  BY DEF Grows
<1>3. at[c][1] > 0 => at[c][1] \in 1..Len(log)
  BY ReaderTypes DEF ReaderInv
<1>4. reader[c] \in {"opened", "lines", "marked"} => file[c] \in 1..Len(log')
  BY <1>2 DEF ReaderInv
<1>5. reader[c] \in {"lines", "marked"} => pos[c] <= Len(log'[file[c]])
  <2> SUFFICES ASSUME reader[c] \in {"lines", "marked"} PROVE pos[c] <= Len(log'[file[c]])
    OBVIOUS
  <2>1. file[c] \in 1..Len(log) /\ pos[c] <= Len(log[file[c]])
    BY DEF ReaderInv
  <2>2. /\ Len(log[file[c]]) \in Nat /\ Len(log'[file[c]]) \in Nat
        /\ Len(log[file[c]]) <= Len(log'[file[c]])
    BY <2>1 DEF Grows
  <2>3. pos[c] \in Nat
    BY ReaderTypes
  <2> QED BY <2>1, <2>2, <2>3
<1>6. reader[c] = "marked" => log'[file[c]][pos[c]] = LastHalf(fresh[c].msg)
  <2> SUFFICES ASSUME reader[c] = "marked" PROVE log'[file[c]][pos[c]] = LastHalf(fresh[c].msg)
    OBVIOUS
  <2>1. file[c] \in 1..Len(log) /\ pos[c] \in 1..Len(log[file[c]])
    BY ReaderTypes, LogTypes DEF ReaderInv
  <2> QED BY <2>1 DEF ReaderInv, Grows
<1>7. at[c][1] <= Len(log')
  BY ReaderTypes DEF ReaderInv, Grows
<1>8. at[c][1] > 0 /\ (at[c][1] = Len(log') \/ (reader[c] = "opened" /\ at[c][1] = file[c])) =>
        at[c][2] <= offset[c] /\ offset[c] <= Len(log'[at[c][1]])
  <2> SUFFICES ASSUME at[c][1] > 0,
                      at[c][1] = Len(log') \/ (reader[c] = "opened" /\ at[c][1] = file[c])
               PROVE  at[c][2] <= offset[c] /\ offset[c] <= Len(log'[at[c][1]])
    OBVIOUS
  <2>1. at[c][2] <= offset[c] /\ offset[c] <= Len(log[at[c][1]])
    BY <1>1 DEF ReaderInv
  <2>2. Len(log[at[c][1]]) \in Nat /\ Len(log'[at[c][1]]) \in Nat
        /\ Len(log[at[c][1]]) <= Len(log'[at[c][1]])
    BY <1>3 DEF Grows
  <2> QED BY <2>1, <2>2, ReaderTypes
<1> QED BY <1>4, <1>5, <1>6, <1>7, <1>8 DEF ReaderInv, NothingFresh

\* A client's step changes what is this client's, and not the log.
Own(c) ==
  /\ log' = log
  /\ \A d \in Clients \ {c} :
       /\ reader'[d] = reader[d] /\ file'[d] = file[d] /\ pos'[d] = pos[d]
       /\ offset'[d] = offset[d] /\ fresh'[d] = fresh[d] /\ at'[d] = at[d]
       /\ got'[d] = got[d] /\ seen'[d] = seen[d]

LEMMA ClientOwn ==
  ASSUME TypeOK, NEW c \in Clients, Receive(c) \/ Cancel(c)
  PROVE  Own(c)
<1>1. CASE OpenLog(c)
  BY <1>1 DEF TypeOK, Own, OpenLog, logs, history
<1>2. CASE Measure(c)
  BY <1>2 DEF TypeOK, Own, Measure, ReadFrom, logs, history
<1>3. CASE SkipLine(c)
  BY <1>3 DEF TypeOK, Own, SkipLine, logs, history
<1>4. CASE TakeLine(c)
  BY <1>4 DEF TypeOK, Own, TakeLine, logs, history
<1>5. CASE ReturnLine(c)
  BY <1>5 DEF TypeOK, Own, ReturnLine, Done, logs, history
<1>6. CASE EndOfFile(c)
  BY <1>6 DEF TypeOK, Own, EndOfFile, Done, logs, history
<1>7. CASE OpenResponse(c)
  BY <1>7 DEF TypeOK, Own, OpenResponse, logs, history
<1>8. CASE TakeResponse(c)
  BY <1>8 DEF TypeOK, Own, TakeResponse, logs, history
<1>9. CASE Cancel(c)
  BY <1>9 DEF TypeOK, Own, Cancel, Done, logs, history
<1> QED BY <1>1, <1>2, <1>3, <1>4, <1>5, <1>6, <1>7, <1>8, <1>9 DEF Receive

\* After the head of a line comes its end, if anything comes.
LEMMA WholeLineFacts ==
  ASSUME TypeOK, LogInv, NEW c \in Clients, file[c] \in 1..Len(log), WholeLine(c)
  PROVE  /\ pos[c] + 2 <= Len(log[file[c]])
         /\ log[file[c]][pos[c] + 2] = LastHalf(Piece(c).msg)
         /\ Piece(c).msg \in Messages
<1> DEFINE l == log[file[c]]
           i == pos[c] + 2
<1>1. Len(l) \in Nat /\ pos[c] \in Nat /\ \A j \in 1..Len(l) : l[j] \in Pieces
  BY LogTypes, ReaderTypes
<1>2. i <= Len(l) /\ i \in 2..Len(l) /\ i \in 1..Len(l) /\ i - 1 = pos[c] + 1 /\ i - 1 \in 1..Len(l)
  BY <1>1, SMTT(20) DEF WholeLine, Left
<1>3. l[i - 1] = Piece(c) /\ ~Piece(c).end
  BY <1>2 DEF WholeLine, Piece
<1>4. IF l[i].end THEN l[i - 1] = FirstHalf(l[i].msg) ELSE l[i - 1].end
  BY <1>2 DEF LogInv
<1>5. l[i] \in Pieces
  BY <1>1, <1>2
<1>6. l[i].end /\ Piece(c) = FirstHalf(l[i].msg)
  BY <1>3, <1>4
<1>7. l[i] = LastHalf(l[i].msg) /\ l[i].msg \in Messages /\ Piece(c).msg = l[i].msg
  BY <1>5, <1>6, PieceFacts
<1> QED BY <1>2, <1>7

LEMMA ReaderMoves ==
  ASSUME TypeOK, LogInv, NEW c \in Clients, ReaderInv(c), Receive(c) \/ Cancel(c)
  PROVE  ReaderInv(c)'
<1>0. log' = log
  BY ClientOwn DEF Own
<1>1. CASE OpenLog(c)
  <2>1. /\ reader[c] = "poll" /\ pos' = pos /\ offset' = offset /\ seen' = seen /\ fresh' = fresh
        /\ at' = at /\ got' = got
    BY <1>1 DEF OpenLog, history
  <2>2. \/ out = 0 /\ reader'[c] = "response" /\ file' = file
        \/ out = Len(log) /\ out \in 1..Len(log) /\ reader'[c] = "opened" /\ file'[c] = out
    BY <1>1, LogTypes DEF OpenLog, LogInv, TypeOK
  <2> QED BY <1>0, <2>1, <2>2, ReaderTypes DEF ReaderInv, NothingFresh
<1>2. CASE Measure(c)
  <2> DEFINE s == Resume(c)
  <2>1. /\ reader[c] = "opened" /\ offset'[c] = s /\ seen' = seen /\ fresh' = fresh
        /\ at' = at /\ got' = got
    BY <1>2 DEF Measure, ReadFrom, TypeOK, history
  <2>2. \/ Len(log[file[c]]) > s /\ reader'[c] = "lines" /\ pos'[c] = s /\ file' = file
        \/ reader'[c] = "response" /\ file'[c] = 0 /\ pos' = pos
    BY <1>2 DEF Measure, ReadFrom, TypeOK
  <2>3. file[c] \in 1..Len(log) /\ Len(log[file[c]]) \in Nat /\ s \in Nat
    BY <2>1, LogTypes, ReaderTypes DEF ReaderInv, Resume
  <2>4. at[c][1] = file[c] => s = offset[c] /\ at[c][2] <= s /\ s <= Len(log[file[c]])
    BY <2>1, <2>3, ReaderTypes DEF ReaderInv, Resume
  <2>5. at[c][1] = Len(log) => at[c][1] = file[c]
    BY <2>1, <2>3, ReaderTypes DEF ReaderInv
  <2> HIDE DEF s
  <2> QED BY <1>0, <2>1, <2>2, <2>3, <2>4, <2>5, ReaderTypes DEF ReaderInv, NothingFresh
<1>3. CASE SkipLine(c)
  <2>1. /\ reader[c] = "lines" /\ reader' = reader /\ file' = file /\ offset' = offset
        /\ seen' = seen /\ fresh' = fresh /\ at' = at /\ got' = got
    BY <1>3 DEF SkipLine, history
  <2>2. file[c] \in 1..Len(log) /\ Len(log[file[c]]) \in Nat
    BY <2>1, LogTypes DEF ReaderInv
  <2>3. pos'[c] \in Nat /\ pos[c] <= pos'[c] /\ pos'[c] <= Len(log[file[c]])
    <3>1. CASE WholeLine(c)
      <4>1. pos'[c] = pos[c] + 2
        BY <1>3, <3>1 DEF SkipLine, TypeOK
      <4> QED BY <2>2, <3>1, <4>1, ReaderTypes DEF WholeLine, Left
    <3>2. CASE ~WholeLine(c)
      <4>1. pos'[c] = pos[c] + 1 /\ Left(c) > 0
        BY <1>3, <3>2 DEF SkipLine, TypeOK
      <4> QED BY <2>2, <4>1, ReaderTypes DEF Left
    <3> QED BY <3>1, <3>2
  <2> QED BY <1>0, <2>1, <2>2, <2>3, ReaderTypes DEF ReaderInv, NothingFresh
<1>4. CASE TakeLine(c)
  <2>1. /\ reader[c] = "lines" /\ WholeLine(c) /\ Piece(c).msg \notin seen[c]
        /\ file' = file /\ offset' = offset /\ at' = at /\ got' = got
    BY <1>4 DEF TakeLine, history
  <2>2. file[c] \in 1..Len(log)
    BY <2>1 DEF ReaderInv
  <2>3. /\ seen'[c] = seen[c] \cup {Piece(c).msg}
        /\ fresh'[c] = [msg |-> Piece(c).msg, place |-> <<file[c], pos[c] + 2>>]
        /\ pos'[c] = pos[c] + 2
        /\ reader'[c] = "marked"
    BY <1>4 DEF TakeLine, TypeOK
  <2>4. /\ pos[c] + 2 <= Len(log[file[c]])
        /\ log[file[c]][pos[c] + 2] = LastHalf(Piece(c).msg)
        /\ Piece(c).msg \in Messages
    BY <2>1, <2>2, WholeLineFacts
  <2>5. fresh'[c].msg = Piece(c).msg /\ fresh'[c].place = <<file'[c], pos'[c]>>
    BY <2>1, <2>3
  <2>6. fresh'[c].msg \notin got'[c] /\ fresh'[c].msg \in seen'[c] /\ got'[c] \subseteq seen'[c]
    BY <2>1, <2>3, <2>5 DEF ReaderInv
  <2>7. pos'[c] > 0 /\ (at[c][1] = file[c] => at[c][2] < pos'[c])
    BY <2>1, <2>3, ReaderTypes DEF ReaderInv
  <2>8. log'[file'[c]][pos'[c]] = LastHalf(fresh'[c].msg)
    BY <1>0, <2>1, <2>3, <2>4, <2>5
  <2>9. pos'[c] <= Len(log'[file'[c]]) /\ fresh'[c].msg \in Messages
    BY <1>0, <2>1, <2>3, <2>4, <2>5
  <2> QED BY <1>0, <2>1, <2>2, <2>3, <2>5, <2>6, <2>7, <2>8, <2>9 DEF ReaderInv
<1>5. CASE ReturnLine(c)
  <2>1. /\ reader[c] = "marked" /\ reader'[c] = "poll" /\ offset'[c] = pos[c]
        /\ at'[c] = <<file[c], pos[c]>> /\ got'[c] = got[c] \cup {fresh[c].msg}
        /\ fresh'[c] = NothingFresh /\ seen' = seen
    BY <1>5 DEF ReturnLine, Done, TypeOK, ReaderInv
  <2>2. at'[c][1] = file[c] /\ at'[c][2] = pos[c]
    BY <2>1
  <2>3. got'[c] \subseteq seen'[c]
    BY <2>1 DEF ReaderInv
  <2>4. file[c] \in 1..Len(log) /\ pos[c] <= Len(log[file[c]])
    BY <2>1 DEF ReaderInv
  <2> QED BY <1>0, <2>1, <2>2, <2>3, <2>4, ReaderTypes DEF ReaderInv
<1>6. CASE EndOfFile(c)
  <2>1. /\ reader[c] = "lines" /\ reader'[c] = "response" /\ offset'[c] = pos[c]
        /\ Left(c) = 0 /\ seen' = seen /\ fresh' = fresh /\ at' = at /\ got' = got
    BY <1>6 DEF EndOfFile, Done, TypeOK, history
  <2>2. file[c] \in 1..Len(log) /\ pos[c] <= Len(log[file[c]])
    BY <2>1 DEF ReaderInv
  <2>3. at[c][1] = Len(log) => at[c][1] = file[c]
    BY <2>1, <2>2, ReaderTypes DEF ReaderInv
  <2> QED BY <1>0, <2>1, <2>2, <2>3, ReaderTypes DEF ReaderInv, NothingFresh
<1>7. CASE OpenResponse(c) \/ TakeResponse(c)
  <2>1. /\ reader[c] \in {"response", "taking"} /\ reader'[c] \in {"poll", "taking"}
        /\ file' = file /\ pos' = pos /\ offset' = offset
        /\ seen' = seen /\ fresh' = fresh /\ at' = at /\ got' = got
    BY <1>7 DEF OpenResponse, TakeResponse, TypeOK, history
  <2> QED BY <1>0, <2>1 DEF ReaderInv, NothingFresh
<1>8. CASE Cancel(c)
  <2>1. /\ reader'[c] = "poll" /\ fresh'[c] = NothingFresh
        /\ offset' = offset /\ seen' = seen /\ at' = at /\ got' = got
    BY <1>8 DEF Cancel, Done, TypeOK, history
  <2> QED BY <1>0, <2>1 DEF ReaderInv
<1> QED BY <1>1, <1>2, <1>3, <1>4, <1>5, <1>6, <1>7, <1>8 DEF Receive

\* What is not a client's step leaves the readers alone.
LEMMA ReadersAlone ==
  ASSUME [Next]_vars
  PROVE  \/ UNCHANGED <<reading, history>>
         \/ \E c \in Clients : Receive(c) \/ Cancel(c)
<1>1. ASSUME NEW m \in Messages, Create(m) \/ GiveUp(m) \/ Write(m)
      PROVE  UNCHANGED <<reading, history>>
  BY <1>1 DEF Create, GiveUp, Write, WriteHalf, WriteRest
<1>2. ASSUME Serve PROVE UNCHANGED <<reading, history>>
  BY <1>2 DEF Serve, Take, Remove, Respond, Broadcast
<1>3. ASSUME Flush PROVE UNCHANGED <<reading, history>>
  BY <1>3 DEF Flush, AppendLine, AppendHead, AppendTail
<1>4. ASSUME Start \/ Stop \/ Clean \/ Crash PROVE UNCHANGED <<reading, history>>
  BY <1>4 DEF Start, Stop, Clean, Exit, CleanResponse, CleanOut, Sweep, Crash
<1>5. ASSUME UNCHANGED vars PROVE UNCHANGED <<reading, history>>
  BY <1>5 DEF vars
<1> QED BY <1>1, <1>2, <1>3, <1>4, <1>5 DEF Next

LEMMA ReadStep ==
  ASSUME TypeOK, LogInv, ReadInv, [Next]_vars
  PROVE  ReadInv'
<1>1. Grows
  BY StepGrows
<1>2. ASSUME UNCHANGED <<reading, history>>, NEW c \in Clients PROVE ReaderInv(c)'
  <2>1. ReaderInv(c)
    BY DEF ReadInv
  <2>2. /\ reader' = reader /\ file' = file /\ pos' = pos /\ offset' = offset
        /\ fresh' = fresh /\ at' = at /\ got' = got /\ seen' = seen
    BY <1>2 DEF reading, history
  <2> QED BY <1>1, <2>1, <2>2, QuietReader
<1>3. ASSUME NEW d \in Clients, Receive(d) \/ Cancel(d), NEW c \in Clients PROVE ReaderInv(c)'
  <2>1. ReaderInv(c)
    BY DEF ReadInv
  <2>2. CASE c = d
    BY <1>3, <2>1, <2>2, ReaderMoves
  <2>3. CASE c # d
    <3>1. Own(d)
      BY <1>3, ClientOwn
    <3>2. /\ reader'[c] = reader[c] /\ file'[c] = file[c] /\ pos'[c] = pos[c]
          /\ offset'[c] = offset[c] /\ fresh'[c] = fresh[c] /\ at'[c] = at[c]
          /\ got'[c] = got[c] /\ seen'[c] = seen[c]
      BY <2>3, <3>1 DEF Own
    <3> QED BY <1>1, <2>1, <3>2, QuietReader
  <2> QED BY <2>2, <2>3
<1> QED BY <1>2, <1>3, ReadersAlone DEF ReadInv

-----------------------------------------------------------------------------
(* Nothing is skipped.                                                     *)

LEMMA SameFaults ==
  ASSUME [Next]_vars
  PROVE  faults' = faults
<1>1. ASSUME NEW m \in Messages, Create(m) \/ GiveUp(m) \/ Write(m) PROVE faults' = faults
  BY <1>1 DEF Create, GiveUp, Write, WriteHalf, WriteRest
<1>2. ASSUME Serve PROVE faults' = faults
  BY <1>2 DEF Serve, Take, Remove, Respond, Broadcast
<1>3. ASSUME Flush PROVE faults' = faults
  BY <1>3 DEF Flush, AppendLine, AppendHead, AppendTail
<1>4. ASSUME Start \/ Stop \/ Clean \/ Crash PROVE faults' = faults
  BY <1>4 DEF Start, Stop, Clean, Exit, CleanResponse, CleanOut, Sweep, Crash
<1>5. ASSUME NEW c \in Clients, Receive(c) \/ Cancel(c) PROVE faults' = faults
  BY <1>5 DEF Receive, OpenLog, Measure, ReadFrom, SkipLine, TakeLine, ReturnLine,
     EndOfFile, OpenResponse, TakeResponse, Cancel
<1>6. ASSUME UNCHANGED vars PROVE faults' = faults
  BY <1>6 DEF vars
<1> QED BY <1>1, <1>2, <1>3, <1>4, <1>5, <1>6 DEF Next

\* What was passed stays passed when the log grows.
LEMMA PassedGrows ==
  ASSUME TypeOK, Grows, Len(log) = 1, NEW c \in Clients, NEW p \in Nat, Passed(c, p),
         seen[c] \subseteq seen'[c]
  PROVE  /\ p <= Len(log'[1])
         /\ p > 0 => log'[1][p].end
         /\ \A i \in 1..p : log'[1][i].msg \in seen'[c]
<1>1. 1 \in 1..Len(log)
  OBVIOUS
<1>2. /\ Len(log[1]) \in Nat /\ Len(log'[1]) \in Nat /\ Len(log[1]) <= Len(log'[1])
      /\ \A i \in 1..Len(log[1]) : log'[1][i] = log[1][i]
  BY <1>1 DEF Grows
<1>3. p <= Len(log[1]) /\ 1..p \subseteq 1..Len(log[1]) /\ (p > 0 => p \in 1..Len(log[1]))
  BY <1>2 DEF Passed
<1> QED BY <1>2, <1>3 DEF Passed

LEMMA QuietSkipper ==
  ASSUME TypeOK, Grows, NEW c \in Clients, ReaderInv(c), SkipperInv(c), faults' = faults,
         reader'[c] = reader[c], pos'[c] = pos[c],
         offset'[c] = offset[c], fresh'[c] = fresh[c], got'[c] = got[c],
         seen'[c] = seen[c]
  PROVE  SkipperInv(c)'
<1>1. "torn" \notin faults /\ Len(log') = 1 =>
         /\ Passed(c, offset[c])'
         /\ reader[c] \in {"lines", "marked"} => Passed(c, pos[c])'
  <2> SUFFICES ASSUME "torn" \notin faults, Len(log') = 1
               PROVE  /\ Passed(c, offset[c])'
                      /\ reader[c] \in {"lines", "marked"} => Passed(c, pos[c])'
    OBVIOUS
  <2>1. CASE Len(log) = 1
    <3>1. Passed(c, offset[c]) /\ (reader[c] \in {"lines", "marked"} => Passed(c, pos[c]))
      BY <2>1 DEF SkipperInv
    <3>2. offset[c] \in Nat /\ pos[c] \in Nat /\ seen[c] \subseteq seen'[c]
      BY ReaderTypes
    <3>3. Passed(c, offset[c])'
      BY <2>1, <3>1, <3>2, PassedGrows DEF Passed
    <3>4. reader[c] \in {"lines", "marked"} => Passed(c, pos[c])'
      BY <2>1, <3>1, <3>2, PassedGrows DEF Passed
    <3> QED BY <3>3, <3>4
  <2>2. CASE Len(log) = 0
    <3>1. offset[c] = 0 /\ reader[c] \notin {"lines", "marked"}
      BY <2>2 DEF SkipperInv, ReaderInv
    <3>2. Len(log'[1]) \in Nat
      BY DEF Grows
    <3> QED BY <3>1, <3>2 DEF Passed
  <2>3. Len(log) = 1 \/ Len(log) = 0
    <3>1. Len(log) \in Nat /\ Len(log) <= 1
      BY DEF Grows
    <3>2. \A k \in Nat : k <= 1 => k = 1 \/ k = 0
      OBVIOUS
    <3> QED BY <3>1, <3>2
  <2> QED BY <2>1, <2>2, <2>3
<1>2. "torn" \notin faults /\ Len(log') = 0 => offset[c] = 0
  BY DEF SkipperInv, Grows
<1> QED BY <1>1, <1>2 DEF SkipperInv

\* Between lines of a log without torn appends, a whole line is next.
LEMMA NextLine ==
  ASSUME TypeOK, LogInv, NEW c \in Clients, "torn" \notin faults, Len(log) = 1,
         file[c] = 1, Passed(c, pos[c]), Left(c) > 0
  PROVE  WholeLine(c)
<1> DEFINE l == log[1]
           p == pos[c]
<1>1. Len(l) \in Nat /\ p \in Nat /\ p + 1 <= Len(l) /\ Piece(c) = l[p + 1] /\ Left(c) = Len(l) - p
  BY LogTypes, ReaderTypes DEF Left, Piece
<1>2. /\ \A i \in 2..Len(l) : IF l[i].end THEN l[i - 1] = FirstHalf(l[i].msg) ELSE l[i - 1].end
      /\ Len(l) > 0 => ~l[1].end
      /\ ~HalfLine(1)
  BY DEF LogInv
<1>3. ~l[p + 1].end
  <2>1. CASE p = 0
    BY <1>1, <1>2, <2>1
  <2>2. CASE p > 0
    <3>1. p + 1 \in 2..Len(l) /\ (p + 1) - 1 = p
      BY <1>1, <2>2
    <3>2. l[p].end
      BY <2>2 DEF Passed
    <3>3. ~FirstHalf(l[p + 1].msg).end
      BY DEF FirstHalf
    <3>4. l[p + 1].end => l[(p + 1) - 1] = FirstHalf(l[p + 1].msg)
      BY <1>2, <3>1
    <3>5. l[p + 1].end => l[p] = FirstHalf(l[p + 1].msg)
      BY <3>1, <3>4
    <3>6. l[p + 1].end => ~l[p].end
      BY <3>3, <3>5
    <3> QED BY <3>2, <3>6
  <2> QED BY <1>1, <2>1, <2>2
<1>4. l[Len(l)].end
  BY <1>1, <1>2 DEF HalfLine
<1>5. p + 1 # Len(l)
  BY <1>3, <1>4
<1> QED BY <1>1, <1>3, <1>5 DEF WholeLine

\* After the line, it has been passed if its message is among the seen ones.
LEMMA PassedLine ==
  ASSUME TypeOK, LogInv, NEW c \in Clients, Len(log) = 1, file[c] = 1, Passed(c, pos[c]),
         WholeLine(c), log' = log, seen[c] \subseteq seen'[c], Piece(c).msg \in seen'[c],
         pos'[c] = pos[c] + 2
  PROVE  Passed(c, pos[c])'
<1> DEFINE l == log[1]
           p == pos[c]
<1>1. /\ p \in Nat /\ Piece(c) = l[p + 1]
      /\ p + 2 <= Len(l) /\ l[p + 2] = LastHalf(Piece(c).msg)
      /\ LastHalf(Piece(c).msg).end /\ LastHalf(Piece(c).msg).msg = Piece(c).msg
  BY WholeLineFacts, ReaderTypes DEF Piece, LastHalf
<1>2. \A i \in 1..(p + 2) : l[i].msg \in seen'[c]
  <2> TAKE i \in 1..(p + 2)
  <2>1. CASE i \in 1..p
    BY <2>1 DEF Passed
  <2>2. CASE i = p + 1
    BY <1>1, <2>2
  <2>3. CASE i = p + 2
    BY <1>1, <2>3
  <2> QED BY <1>1, <2>1, <2>2, <2>3
<1> QED BY <1>1, <1>2 DEF Passed

LEMMA SkipperMoves ==
  ASSUME TypeOK, LogInv, NEW c \in Clients, ReaderInv(c), SkipperInv(c), faults' = faults,
         Receive(c) \/ Cancel(c)
  PROVE  SkipperInv(c)'
<1>0. log' = log
  BY ClientOwn DEF Own
<1>1. CASE OpenLog(c)
  <2>1. /\ reader'[c] \in {"response", "opened"} /\ offset' = offset /\ seen' = seen
        /\ fresh' = fresh /\ got' = got
    BY <1>1 DEF OpenLog, TypeOK, history
  <2> QED BY <1>0, <2>1 DEF SkipperInv, Passed
<1>2. CASE Measure(c)
  <2> DEFINE s == Resume(c)
  <2>1. /\ reader[c] = "opened" /\ offset'[c] = s /\ seen' = seen /\ fresh' = fresh /\ got' = got
    BY <1>2 DEF Measure, ReadFrom, TypeOK, history
  <2>2. \/ reader'[c] = "lines" /\ pos'[c] = s
        \/ reader'[c] = "response"
    BY <1>2 DEF Measure, ReadFrom, TypeOK
  <2>3. file[c] \in 1..Len(log)
    BY <2>1 DEF ReaderInv
  <2>4. "torn" \notin faults /\ Len(log) = 1 => s = offset[c]
    <3> SUFFICES ASSUME "torn" \notin faults, Len(log) = 1 PROVE s = offset[c]
      OBVIOUS
    <3>1. file[c] = 1
      BY <2>3
    <3>2. offset[c] <= Len(log[1])
      BY DEF SkipperInv, Passed
    <3>3. Len(log[1]) \in Nat /\ offset[c] \in Nat
      BY LogTypes, ReaderTypes
    <3> QED BY <3>1, <3>2, <3>3 DEF Resume
  <2> HIDE DEF s
  <2>5. Len(log) # 0
    BY <2>3
  <2> QED BY <1>0, <2>1, <2>2, <2>4, <2>5 DEF SkipperInv, Passed
<1>3. CASE SkipLine(c)
  <2>1. /\ reader[c] = "lines" /\ reader' = reader /\ offset' = offset /\ Left(c) > 0
        /\ seen' = seen /\ fresh' = fresh /\ got' = got
    BY <1>3 DEF SkipLine, history
  <2>2. "torn" \notin faults /\ Len(log) = 1 => Passed(c, pos[c])'
    <3> SUFFICES ASSUME "torn" \notin faults, Len(log) = 1 PROVE Passed(c, pos[c])'
      OBVIOUS
    <3>1. file[c] = 1 /\ Passed(c, pos[c])
      BY <2>1 DEF ReaderInv, SkipperInv
    <3>2. WholeLine(c)
      BY <2>1, <3>1, NextLine
    <3>3. Piece(c).msg \in seen'[c] /\ pos'[c] = pos[c] + 2
      BY <1>3, <3>2 DEF SkipLine, TypeOK
    <3> QED BY <1>0, <2>1, <3>1, <3>2, <3>3, PassedLine
  <2> QED BY <1>0, <2>1, <2>2 DEF SkipperInv, Passed
<1>4. CASE TakeLine(c)
  <2>1. /\ reader[c] = "lines" /\ WholeLine(c) /\ offset' = offset /\ got' = got
    BY <1>4 DEF TakeLine, history
  <2>2. /\ seen'[c] = seen[c] \cup {Piece(c).msg}
        /\ fresh'[c].msg = Piece(c).msg
        /\ pos'[c] = pos[c] + 2
    BY <1>4 DEF TakeLine, TypeOK
  <2>3. "torn" \notin faults /\ Len(log) = 1 => Passed(c, pos[c])'
    <3> SUFFICES ASSUME "torn" \notin faults, Len(log) = 1 PROVE Passed(c, pos[c])'
      OBVIOUS
    <3>1. file[c] = 1 /\ Passed(c, pos[c])
      BY <2>1 DEF ReaderInv, SkipperInv
    <3>2. seen[c] \subseteq seen'[c] /\ Piece(c).msg \in seen'[c]
      BY <2>2
    <3> QED BY <1>0, <2>1, <2>2, <3>1, <3>2, PassedLine
  <2>4. "torn" \notin faults /\ Len(log) = 1 => Passed(c, offset[c])'
    BY <1>0, <2>1, <2>2 DEF SkipperInv, Passed
  <2>5. "cancel" \notin faults => seen'[c] \subseteq got'[c] \cup {fresh'[c].msg}
    <3>1. fresh[c].msg = None
      BY <2>1 DEF ReaderInv, NothingFresh
    <3>2. seen[c] \subseteq Messages
      BY ReaderTypes
    <3> QED BY <2>1, <2>2, <3>1, <3>2, NoneAssumption DEF SkipperInv
  <2> QED BY <1>0, <2>1, <2>3, <2>4, <2>5 DEF SkipperInv
<1>5. CASE ReturnLine(c)
  <2>1. /\ reader[c] = "marked" /\ reader'[c] = "poll" /\ offset'[c] = pos[c]
        /\ got'[c] = got[c] \cup {fresh[c].msg} /\ seen' = seen
    BY <1>5 DEF ReturnLine, Done, TypeOK
  <2>2. Len(log) # 0
    BY <2>1 DEF ReaderInv
  <2> QED BY <1>0, <2>1, <2>2 DEF SkipperInv, Passed
<1>6. CASE EndOfFile(c)
  <2>1. /\ reader[c] = "lines" /\ reader'[c] = "response" /\ offset'[c] = pos[c]
        /\ seen' = seen /\ fresh' = fresh /\ got' = got
    BY <1>6 DEF EndOfFile, Done, TypeOK, history
  <2>2. Len(log) # 0
    BY <2>1 DEF ReaderInv
  <2> QED BY <1>0, <2>1, <2>2 DEF SkipperInv, Passed
<1>7. CASE OpenResponse(c) \/ TakeResponse(c)
  <2>1. /\ reader'[c] \in {"poll", "taking"} /\ offset' = offset
        /\ seen' = seen /\ fresh' = fresh /\ got' = got
    BY <1>7 DEF OpenResponse, TakeResponse, TypeOK, history
  <2> QED BY <1>0, <2>1 DEF SkipperInv, Passed
<1>8. CASE Cancel(c)
  <2>1. /\ reader'[c] = "poll" /\ "cancel" \in faults /\ offset' = offset /\ seen' = seen
    BY <1>8 DEF Cancel, Done, TypeOK, history
  <2> QED BY <1>0, <2>1 DEF SkipperInv, Passed
<1> QED BY <1>1, <1>2, <1>3, <1>4, <1>5, <1>6, <1>7, <1>8 DEF Receive

LEMMA SkipStep ==
  ASSUME TypeOK, LogInv, ReadInv, SkipInv, [Next]_vars
  PROVE  SkipInv'
<1>1. Grows /\ faults' = faults
  BY StepGrows, SameFaults
<1>2. ASSUME UNCHANGED <<reading, history>>, NEW c \in Clients PROVE SkipperInv(c)'
  <2>1. ReaderInv(c) /\ SkipperInv(c)
    BY DEF ReadInv, SkipInv
  <2>2. /\ reader' = reader /\ pos' = pos /\ offset' = offset
        /\ fresh' = fresh /\ got' = got /\ seen' = seen
    BY <1>2 DEF reading, history
  <2> QED BY <1>1, <2>1, <2>2, QuietSkipper
<1>3. ASSUME NEW d \in Clients, Receive(d) \/ Cancel(d), NEW c \in Clients PROVE SkipperInv(c)'
  <2>1. ReaderInv(c) /\ SkipperInv(c)
    BY DEF ReadInv, SkipInv
  <2>2. CASE c = d
    BY <1>1, <1>3, <2>1, <2>2, SkipperMoves
  <2>3. CASE c # d
    <3>1. Own(d)
      BY <1>3, ClientOwn
    <3>2. /\ reader'[c] = reader[c] /\ pos'[c] = pos[c]
          /\ offset'[c] = offset[c] /\ fresh'[c] = fresh[c]
          /\ got'[c] = got[c] /\ seen'[c] = seen[c]
      BY <2>3, <3>1 DEF Own
    <3> QED BY <1>1, <2>1, <3>2, QuietSkipper
  <2> QED BY <2>2, <2>3
<1> QED BY <1>2, <1>3, ReadersAlone DEF SkipInv

-----------------------------------------------------------------------------
(* The theorems.                                                           *)

LEMMA InitInv ==
  Init => IInv
<1> SUFFICES ASSUME Init PROVE IInv
  OBVIOUS
<1>1. TypeOK
  <2>1. <<>> \in Seq(Seq(Pieces)) /\ Len(<<>>) = 0
    OBVIOUS
  <2> QED BY <2>1 DEF Init, TypeOK
<1>2. RequestInv
  BY NoneAssumption DEF Init, RequestInv
<1>3. Len(log) = 0 /\ \A f : f \notin 1..Len(log)
  BY DEF Init
<1>4. LogInv
  BY <1>3 DEF Init, LogInv
<1>5. OnceInv
  BY <1>3 DEF Init, OnceInv, Nowhere, Logged, Queued
<1>6. ReadInv
  BY <1>3 DEF Init, ReadInv, ReaderInv, NothingFresh
<1>7. SkipInv
  BY <1>3 DEF Init, SkipInv, SkipperInv
<1> QED BY <1>1, <1>2, <1>4, <1>5, <1>6, <1>7 DEF IInv

LEMMA StepInv ==
  IInv /\ [Next]_vars => IInv'
<1> SUFFICES ASSUME IInv, [Next]_vars PROVE IInv'
  OBVIOUS
<1>1. TypeOK /\ RequestInv /\ LogInv /\ ReadInv /\ SkipInv
  BY DEF IInv
<1>2. TypeOK'
  BY TypeStep
<1>3. RequestInv'
  BY <1>1, RequestStep
<1>4. LogInv'
  BY <1>1, LogStep
<1>5. OnceInv'
  BY OnceStep
<1>6. ReadInv'
  BY <1>1, ReadStep
<1>7. SkipInv'
  BY <1>1, SkipStep
<1> QED BY <1>2, <1>3, <1>4, <1>5, <1>6, <1>7 DEF IInv

LEMMA Invariant ==
  Spec => []IInv
BY InitInv, StepInv, PTL DEF Spec

\* Every variable of the transport keeps its type.
THEOREM TypeCorrect ==
  Spec => []TypeOK
BY Invariant, PTL DEF IInv

\* A request is handed to the handler at most once, over any number of
\* overlapping sends, crashes, stops and restarts (file_based.rs:101-138).
THEOREM HandledAtMostOnce ==
  Spec => []HandledOnce
<1>1. IInv => HandledOnce
  BY DEF IInv, RequestInv, HandledOnce
<1> QED BY <1>1, Invariant, PTL

\* With whole appends to one file no client's offset passes a broadcast it has
\* not seen, and what it has seen it has returned or is about to return, unless
\* a call was dropped (file_based.rs:498-539).
THEOREM OffsetsSkipNothing ==
  Spec => []NothingSkipped
<1>1. IInv => NothingSkipped
  <2> SUFFICES ASSUME IInv, NEW c \in Clients
               PROVE  /\ "torn" \notin faults /\ Len(log) = 1 =>
                           \A i \in 1..offset[c] : i <= Len(log[1]) /\ log[1][i].msg \in seen[c]
                      /\ "cancel" \notin faults => seen[c] \subseteq got[c] \cup {fresh[c].msg}
    BY DEF NothingSkipped
  <2>1. SkipperInv(c) /\ TypeOK
    BY DEF IInv, SkipInv
  <2>2. ASSUME "torn" \notin faults, Len(log) = 1, NEW i \in 1..offset[c]
        PROVE  i <= Len(log[1]) /\ log[1][i].msg \in seen[c]
    <3>1. Passed(c, offset[c])
      BY <2>1, <2>2 DEF SkipperInv
    <3>2. Len(log[1]) \in Nat /\ offset[c] \in Nat
      BY <2>1, <2>2, LogTypes, ReaderTypes
    <3> QED BY <3>1, <3>2 DEF Passed
  <2> QED BY <2>1, <2>2 DEF SkipperInv
<1> QED BY <1>1, Invariant, PTL

\* The published entries are the ends of the lines, with their places.
Wholes(l) ==
  UNION {{[msg |-> l[f][i].msg, epoch |-> f, index |-> i] :
            i \in {j \in DOMAIN l[f] : l[f][j].end}} : f \in DOMAIN l}

Entry(m, f, i) == [msg |-> m, epoch |-> f, index |-> i]

EntryOf(l, e) ==
  \E m \in Messages : \E f \in 1..Len(l) : \E i \in 1..Len(l[f]) :
    l[f][i] = LastHalf(m) /\ e = Entry(m, f, i)

LEMMA WholesFacts ==
  ASSUME NEW l \in Seq(Seq(Pieces)), NEW e
  PROVE  e \in Wholes(l) <=> EntryOf(l, e)
<1>1. DOMAIN l = 1..Len(l) /\ \A f \in 1..Len(l) : l[f] \in Seq(Pieces)
  OBVIOUS
<1>2. \A f \in 1..Len(l) : DOMAIN l[f] = 1..Len(l[f]) /\ \A i \in 1..Len(l[f]) : l[f][i] \in Pieces
  BY <1>1
<1>3. e \in Wholes(l) <=>
        \E f \in 1..Len(l) : \E i \in 1..Len(l[f]) :
          l[f][i].end /\ e = [msg |-> l[f][i].msg, epoch |-> f, index |-> i]
  BY <1>1, <1>2 DEF Wholes
<1>4. \A f \in 1..Len(l) : \A i \in 1..Len(l[f]) :
        l[f][i].end /\ e = [msg |-> l[f][i].msg, epoch |-> f, index |-> i]
        <=> \E m \in Messages : l[f][i] = LastHalf(m) /\ e = Entry(m, f, i)
  <2> TAKE f \in 1..Len(l)
  <2> TAKE i \in 1..Len(l[f])
  <2>1. PICK p \in Pieces : p = l[f][i]
    BY <1>2
  <2>2. p.msg \in Messages /\ (p.end => p = LastHalf(p.msg))
    BY PieceFacts
  <2>3. \A m \in Messages : p = LastHalf(m) => p.end /\ p.msg = m
    BY PieceFacts
  <2> QED BY <2>1, <2>2, <2>3 DEF Entry
<1>5. ASSUME e \in Wholes(l)
      PROVE  EntryOf(l, e)
  <2>1. PICK f \in 1..Len(l) : \E i \in 1..Len(l[f]) :
          l[f][i].end /\ e = [msg |-> l[f][i].msg, epoch |-> f, index |-> i]
    BY <1>3, <1>5
  <2>2. PICK i \in 1..Len(l[f]) :
          l[f][i].end /\ e = [msg |-> l[f][i].msg, epoch |-> f, index |-> i]
    BY <2>1
  <2>3. PICK m \in Messages : l[f][i] = LastHalf(m) /\ e = Entry(m, f, i)
    BY <1>4, <2>2
  <2> QED BY <2>3 DEF EntryOf
<1>6. ASSUME NEW m \in Messages, NEW f \in 1..Len(l), NEW i \in 1..Len(l[f]),
             l[f][i] = LastHalf(m), e = Entry(m, f, i)
      PROVE  e \in Wholes(l)
  <2>1. l[f][i].end /\ e = [msg |-> l[f][i].msg, epoch |-> f, index |-> i]
    BY <1>4, <1>6
  <2> QED BY <1>3, <2>1
<1> QED BY <1>5, <1>6 DEF EntryOf

LEMMA PublishedFacts ==
  ASSUME TypeOK, NEW e
  PROVE  e \in Published <=> \E m \in Messages : \E f, i : Ended(m, f, i) /\ e = Entry(m, f, i)
<1>1. Published = Wholes(log) /\ log \in Seq(Seq(Pieces))
  BY DEF Published, Wholes, TypeOK
<1>2. e \in Wholes(log) <=> EntryOf(log, e)
  BY <1>1, WholesFacts
<1> QED BY <1>1, <1>2 DEF Ended, EntryOf

LEMMA PublishedNext ==
  ASSUME TypeOK', NEW e
  PROVE  e \in Published' <=> \E m \in Messages : \E f, i : Ended(m, f, i)' /\ e = Entry(m, f, i)
<1>1. Published' = Wholes(log') /\ log' \in Seq(Seq(Pieces))
  BY DEF Published, Wholes, TypeOK
<1>2. e \in Wholes(log') <=> EntryOf(log', e)
  BY <1>1, WholesFacts
<1> QED BY <1>1, <1>2 DEF Ended, EntryOf

\* The end of a line is published after all other ends of its file.
LEMMA PublishStep ==
  ASSUME TypeOK, TypeOK', NEW m \in Messages, NEW f \in 1..Len(log), NEW k \in Nat,
         EndsLine(m, f, k), k > Len(log[f]), ~Logged(m), UNCHANGED <<at, got>>
  PROVE  Broadcasts!Next
<1> DEFINE e == Entry(m, f, k)
<1>1. Published' = Published \cup {e}
  <2>1. \A x : x \in Published' <=> x \in Published \cup {e}
    BY PublishedFacts, PublishedNext DEF EndsLine
  <2> QED BY <2>1
<1>2. \A g \in Published : g.msg # m
  <2> TAKE g \in Published
  <2>0. PICK x \in Messages : \E h, i : Ended(x, h, i) /\ g = Entry(x, h, i)
    BY PublishedFacts
  <2>1. PICK h, i : Ended(x, h, i) /\ g = Entry(x, h, i)
    BY <2>0
  <2>2. x # m
    BY <2>1, LoggedEnded
  <2> QED BY <2>1, <2>2 DEF Entry
<1>3. \A g \in Published : g.epoch = f => g.index < k
  <2> TAKE g \in Published
  <2>0. PICK x \in Messages : \E h, i : Ended(x, h, i) /\ g = Entry(x, h, i)
    BY PublishedFacts
  <2>1. PICK h, i : Ended(x, h, i) /\ g = Entry(x, h, i)
    BY <2>0
  <2>2. g.epoch = h /\ g.index = i
    BY <2>1 DEF Entry
  <2>3. i \in 1..Len(log[h])
    BY <2>1 DEF Ended
  <2>4. Len(log[f]) \in Nat
    BY LogTypes
  <2> QED BY <2>2, <2>3, <2>4
<1>4. e.msg = m /\ e.epoch = f /\ e.index = k /\ e \in Broadcasts!Entries
  BY LogTypes DEF Entry, Broadcasts!Entries
<1>5. Broadcasts!Publish(e)
  BY <1>1, <1>2, <1>3, <1>4 DEF Broadcasts!Publish
<1>6. e \in Published'
  BY <1>1
<1> QED BY <1>4, <1>5, <1>6 DEF Broadcasts!Next

LEMMA SamePublished ==
  ASSUME TypeOK, TypeOK', \A x, g, i : Ended(x, g, i)' <=> Ended(x, g, i), UNCHANGED <<at, got>>
  PROVE  UNCHANGED Broadcasts!vars
<1>1. \A x : x \in Published' <=> x \in Published
  BY PublishedFacts, PublishedNext
<1> QED BY <1>1 DEF Broadcasts!vars

LEMMA DeliverStep ==
  ASSUME TypeOK, ReadInv, NEW c \in Clients, ReturnLine(c)
  PROVE  Broadcasts!Next
<1> DEFINE e == Entry(fresh[c].msg, file[c], pos[c])
<1>1. ReaderInv(c)
  BY DEF ReadInv
<1>2. /\ reader[c] = "marked" /\ log' = log
      /\ at' = [at EXCEPT ![c] = fresh[c].place]
      /\ got' = [got EXCEPT ![c] = got[c] \cup {fresh[c].msg}]
  BY DEF ReturnLine, logs
<1>3. /\ fresh[c].msg \in Messages /\ fresh[c].msg \notin got[c]
      /\ fresh[c].place = <<file[c], pos[c]>>
      /\ file[c] \in 1..Len(log) /\ pos[c] \in 1..Len(log[file[c]])
      /\ log[file[c]][pos[c]] = LastHalf(fresh[c].msg)
      /\ at[c][1] < file[c] \/ (at[c][1] = file[c] /\ at[c][2] < pos[c])
  BY <1>1, <1>2, ReaderTypes, LogTypes DEF ReaderInv
<1>4. Ended(fresh[c].msg, file[c], pos[c])
  BY <1>3 DEF Ended
<1>5. e \in Published
  BY <1>3, <1>4, PublishedFacts
<1>6. e.msg = fresh[c].msg /\ e.epoch = file[c] /\ e.index = pos[c]
  BY DEF Entry
<1>7. Broadcasts!PlaceOf(e) = <<file[c], pos[c]>>
  BY <1>6 DEF Broadcasts!PlaceOf
<1>8. Broadcasts!Before(at[c], <<file[c], pos[c]>>)
  BY <1>3 DEF Broadcasts!Before
<1>9. Published' = Published
  BY <1>2 DEF Published
<1>10. Broadcasts!Deliver(c, e)
  BY <1>2, <1>3, <1>5, <1>6, <1>7, <1>8, <1>9 DEF Broadcasts!Deliver
<1> QED BY <1>5, <1>10 DEF Broadcasts!Next

LEMMA RefineStep ==
  IInv /\ [Next]_vars => [Broadcasts!Next]_(Broadcasts!vars)
<1> SUFFICES ASSUME IInv, [Next]_vars PROVE [Broadcasts!Next]_(Broadcasts!vars)
  OBVIOUS
<1>1. TypeOK /\ TypeOK' /\ LogInv /\ OnceInv /\ ReadInv
  BY StepInv DEF IInv
<1>2. ASSUME NEW a \in pending, AppendLine(a[1], a[2]) PROVE Broadcasts!Next
  <2>1. a[1] \in Messages /\ a[2] \in 1..Len(log) /\ Len(log[a[2]]) \in Nat
    BY <1>1, <1>2, LineFacts, LogTypes
  <2>2. EndsLine(a[1], a[2], Len(log[a[2]]) + 2)
    BY <1>1, <1>2, LineEnds
  <2>3. ~Logged(a[1])
    BY <1>1 DEF OnceInv, Queued
  <2>4. UNCHANGED <<at, got>>
    BY <1>2 DEF AppendLine, history
  <2>5. Len(log[a[2]]) + 2 \in Nat /\ Len(log[a[2]]) + 2 > Len(log[a[2]])
    BY <2>1
  <2> QED BY <1>1, <2>1, <2>2, <2>3, <2>4, <2>5, PublishStep
<1>3. ASSUME NEW a \in writing, AppendTail(a[1], a[2]) PROVE Broadcasts!Next
  <2>1. a[1] \in Messages /\ a[2] \in 1..Len(log) /\ Len(log[a[2]]) \in Nat
    BY <1>1, <1>3, TailFacts, LogTypes
  <2>2. EndsLine(a[1], a[2], Len(log[a[2]]) + 1)
    BY <1>1, <1>3, TailEnds
  <2>3. ~Logged(a[1])
    BY <1>1 DEF OnceInv, Queued
  <2>4. UNCHANGED <<at, got>>
    BY <1>3 DEF AppendTail, history
  <2>5. Len(log[a[2]]) + 1 \in Nat /\ Len(log[a[2]]) + 1 > Len(log[a[2]])
    BY <2>1
  <2> QED BY <1>1, <2>1, <2>2, <2>3, <2>4, <2>5, PublishStep
<1>4. ASSUME NEW a \in pending, AppendHead(a[1], a[2]) PROVE UNCHANGED Broadcasts!vars
  <2>1. \A x, g, i : Ended(x, g, i)' <=> Ended(x, g, i)
    BY <1>1, <1>4, HeadEnds
  <2>2. UNCHANGED <<at, got>>
    BY <1>4 DEF AppendHead, history
  <2> QED BY <1>1, <2>1, <2>2, SamePublished
<1>5. CASE Broadcast
  <2>1. \A x, g, i : Ended(x, g, i)' <=> Ended(x, g, i)
    BY <1>1, <1>5, BroadcastEnds
  <2>2. UNCHANGED <<at, got>>
    BY <1>5 DEF Broadcast, history
  <2> QED BY <1>1, <2>1, <2>2, SamePublished
<1>6. ASSUME UNCHANGED <<log, at, got>> PROVE UNCHANGED Broadcasts!vars
  BY <1>6 DEF Published, Broadcasts!vars
<1>7. ASSUME NEW m \in Messages, Create(m) \/ GiveUp(m) \/ Write(m)
      PROVE  UNCHANGED <<log, at, got>>
  BY <1>7 DEF Create, GiveUp, Write, WriteHalf, WriteRest, logs, history
<1>8. ASSUME Take \/ Remove \/ Respond PROVE UNCHANGED <<log, at, got>>
  BY <1>8 DEF Take, Remove, Respond, logs, history
<1>9. ASSUME Start \/ Stop \/ Clean \/ Crash PROVE UNCHANGED <<log, at, got>>
  BY <1>9 DEF Start, Stop, Clean, Exit, CleanResponse, CleanOut, Sweep, Crash, logs, history
<1>10. ASSUME UNCHANGED vars PROVE UNCHANGED <<log, at, got>>
  BY <1>10 DEF vars, logs, history
<1>11. ASSUME NEW c \in Clients, Receive(c) \/ Cancel(c), ~ReturnLine(c)
       PROVE  UNCHANGED <<log, at, got>>
  BY <1>11 DEF Receive, OpenLog, Measure, ReadFrom, SkipLine, TakeLine,
     EndOfFile, OpenResponse, TakeResponse, Cancel, logs, history
<1>12. ASSUME NEW c \in Clients, ReturnLine(c) PROVE Broadcasts!Next
  BY <1>1, <1>12, DeliverStep
<1> QED BY <1>2, <1>3, <1>4, <1>5, <1>6, <1>7, <1>8, <1>9, <1>10, <1>11, <1>12
        DEF Next, Serve, Flush

\* The transport implements OrderedBroadcast: whatever is torn, dropped,
\* stopped or crashed, a client returns whole messages of the log, each once
\* and in the order of their places (file_based.rs:301-345, 490-546).
THEOREM BroadcastsInOrder ==
  Spec => InOrder
<1>1. Init => Broadcasts!Init
  BY DEF Init, Broadcasts!Init, Published
<1> QED BY <1>1, Invariant, RefineStep, PTL DEF Spec, InOrder, Broadcasts!Spec
=============================================================================
