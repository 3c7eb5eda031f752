---------------------------- MODULE FileChannel ----------------------------
(***************************************************************************)
(* The FileBased transport (src/src/communication/file_based.rs), file     *)
(* operation by file operation.                                            *)
(*                                                                         *)
(* Clients put requests into one file, identifier.msg, which the server    *)
(* polls, reads and unlinks.  It answers through one response file and     *)
(* appends every request as a broadcast to identifier.out, which every     *)
(* client reads from an offset of its own.  Names are separate from the    *)
(* files they refer to: who has opened a file keeps it when the name goes, *)
(* and writes to it in vain.  tokio hands a write to a thread, and neither *)
(* a send nor an append flushes: the write happens after the call returns. *)
(*                                                                         *)
(* A request file is named after the message whose send created it, a      *)
(* broadcast file by its number.  Writing takes two steps, since a reader  *)
(* can see a write half done; writers of one file exclude each other (the  *)
(* kernel locks the file).  The lock file only serves to have one server   *)
(* at a time, which is assumed here (see SingleInstance).                  *)
(***************************************************************************)
EXTENDS Naturals, Sequences

CONSTANTS
  Messages,   \* the requests, each sent at most once
  Clients,    \* the clients that receive, one task each
  None,       \* no file, no message
  Garbage,    \* what does not parse: a partial or an overlaid request
  FaultSets   \* which faults may happen together: sets of the names below

ASSUME NoneAssumption == None \notin Messages /\ Garbage \notin Messages
                         /\ None # Garbage
ASSUME FaultAssumption ==
  FaultSets \subseteq SUBSET {"torn", "cancel", "crash", "stop"}

VARIABLES
  faults,    \* the faults of this execution
  send,      \* send[m]: where the send of m, and its write, is
  fd,        \* fd[m]: the request file that send has open
  msgFile,   \* the request file at its name
  content,   \* content[f]: what request file f holds, None if nothing
  srv,       \* where the server task is
  took,      \* what the server task has read
  running,   \* is_running
  cleanup,   \* what stopped server tasks still have to remove
  handled,   \* handled[m]: how often the handler was called with m
  response,  \* the message the response file answers
  out,       \* the broadcast file at its name, 0 if there is none
  log,       \* log[f]: the pieces broadcast file f holds
  pending,   \* appends handed to a thread and not begun
  writing,   \* appends half done
  reader,    \* reader[c]: where c is in receive_message
  file,      \* file[c]: the broadcast file c has open
  pos,       \* pos[c]: how far c has read it
  offset,    \* last_broadcast_size of c
  seen,      \* seen_message_ids of c
  fresh,     \* fresh[c]: the message c is about to return, with its place
  at,        \* at[c]: the place of the last broadcast c returned (history)
  got        \* got[c]: the broadcasts c returned (history)

requests == <<send, fd, msgFile, content>>
server   == <<srv, took, running, cleanup, handled>>
logs     == <<out, log, pending, writing>>
reading  == <<reader, file, pos, offset, seen, fresh>>
history  == <<at, got>>
vars     == <<faults, requests, server, response, logs, reading, history>>

\* A line is two pieces: up to where it does not parse yet, and the rest.
Pieces == [msg : Messages, end : BOOLEAN]
FirstHalf(m) == [msg |-> m, end |-> FALSE]
LastHalf(m) == [msg |-> m, end |-> TRUE]

Appends == Messages \X (Nat \ {0})

Init ==
  /\ faults \in FaultSets
  /\ send = [m \in Messages |-> "idle"]
  /\ fd = [m \in Messages |-> None]
  /\ msgFile = None
  /\ content = [f \in Messages |-> None]
  /\ srv = "idle" /\ took = None /\ running = TRUE /\ cleanup = {}
  /\ handled = [m \in Messages |-> 0]
  /\ response = None
  /\ out = 0 /\ log = <<>> /\ pending = {} /\ writing = {}
  /\ reader = [c \in Clients |-> "poll"]
  /\ file = [c \in Clients |-> 0]
  /\ pos = [c \in Clients |-> 0]
  /\ offset = [c \in Clients |-> 0]
  /\ seen = [c \in Clients |-> {}]
  /\ fresh = [c \in Clients |-> [msg |-> None, place |-> <<0, 0>>]]
  /\ at = [c \in Clients |-> <<0, 0>>]
  /\ got = [c \in Clients |-> {}]

-----------------------------------------------------------------------------
(* send_message.                                                           *)

\* A write(2) under way keeps others from writing or truncating the file.
Unlocked(f) == \A m \in Messages : fd[m] = f => send[m] \notin {"half", "over"}

\* File::create: a new file if the name is free, else the one there, emptied.
Create(m) ==
  /\ send[m] = "idle"
  /\ IF msgFile = None
     THEN /\ msgFile' = m
          /\ fd' = [fd EXCEPT ![m] = m]
          /\ UNCHANGED content
     ELSE /\ Unlocked(msgFile)
          /\ fd' = [fd EXCEPT ![m] = msgFile]
          /\ content' = [content EXCEPT ![msgFile] = None]
          /\ UNCHANGED msgFile
  /\ send' = [send EXCEPT ![m] = "created"]
  /\ UNCHANGED <<faults, server, response, logs, reading, history>>

\* Five failed creates: the message is dropped, and send_message returns Ok.
GiveUp(m) ==
  /\ send[m] = "idle"
  /\ send' = [send EXCEPT ![m] = "done"]
  /\ UNCHANGED <<faults, fd, msgFile, content, server, response, logs, reading, history>>

\* The write starts at the beginning of the file: over an earlier message, if
\* one was written since the file was emptied.
WriteHalf(m) ==
  /\ send[m] = "created"
  /\ Unlocked(fd[m])
  /\ send' = [send EXCEPT ![m] = IF content[fd[m]] = None THEN "half" ELSE "over"]
  /\ content' = [content EXCEPT ![fd[m]] = Garbage]
  /\ UNCHANGED <<faults, fd, msgFile, server, response, logs, reading, history>>

\* A shorter message leaves the rest of the longer one behind itself.
WriteRest(m) ==
  /\ send[m] \in {"half", "over"}
  /\ \E x \in IF send[m] = "over" THEN {m, Garbage} ELSE {m} :
       content' = [content EXCEPT ![fd[m]] = x]
  /\ send' = [send EXCEPT ![m] = "done"]
  /\ UNCHANGED <<faults, fd, msgFile, server, response, logs, reading, history>>

Write(m) == WriteHalf(m) \/ WriteRest(m)

-----------------------------------------------------------------------------
(* The server task.                                                        *)

\* wait_for_message: the file exists, is opened and read.
Take ==
  /\ srv = "idle" /\ running
  /\ msgFile # None
  /\ srv' = "read"
  /\ took' = content[msgFile]
  /\ UNCHANGED <<faults, requests, running, cleanup, handled, response, logs,
                 reading, history>>

\* An empty file is passed over, one that does not parse is an error; a message
\* goes to the handler.
Parse ==
  IF took \in Messages
  THEN /\ srv' = "handling"
       /\ handled' = [handled EXCEPT ![took] = @ + 1]
       /\ UNCHANGED took
  ELSE /\ srv' = "idle"
       /\ took' = None
       /\ UNCHANGED handled

\* Mutant: the file stays when it has been read.
RemoveNot ==
  /\ srv = "read"
  /\ Parse
  /\ UNCHANGED <<faults, requests, running, cleanup, response, logs, reading, history>>

\* The name is removed, whatever its file holds by now.
Remove ==
  /\ srv = "read"
  /\ msgFile' = None
  /\ Parse
  /\ UNCHANGED <<faults, send, fd, content, running, cleanup, response, logs,
                 reading, history>>

\* send_response: a temporary file, renamed over whatever response is there.
Respond ==
  /\ srv = "handling"
  /\ srv' = "answered"
  /\ response' = took
  /\ UNCHANGED <<faults, requests, took, running, cleanup, handled, logs,
                 reading, history>>

\* Mutant: the file is opened without create.
BroadcastNoCreate ==
  /\ srv = "answered"
  /\ srv' = "idle"
  /\ took' = None
  /\ pending' = pending \cup {<<took, out>>}
  /\ UNCHANGED <<faults, requests, running, cleanup, handled, response, out, log,
                 writing, reading, history>>

\* broadcast: opens the file at the name, or creates it, and hands the append
\* to a thread.
Broadcast ==
  /\ srv = "answered"
  /\ srv' = "idle"
  /\ took' = None
  /\ IF out = 0
     THEN /\ out' = Len(log) + 1
          /\ log' = Append(log, <<>>)
     ELSE UNCHANGED <<out, log>>
  /\ pending' = pending \cup {<<took, out'>>}
  /\ UNCHANGED <<faults, requests, running, cleanup, handled, response, writing,
                 reading, history>>

Serve == Take \/ Remove \/ Respond \/ Broadcast

\* Mutant: the file is truncated where it should be appended to.
OverwriteLine(m, f) ==
  /\ "torn" \notin faults
  /\ <<m, f>> \in pending
  /\ pending' = pending \ {<<m, f>>}
  /\ log' = [log EXCEPT ![f] = <<FirstHalf(m), LastHalf(m)>>]
  /\ UNCHANGED <<faults, requests, server, response, out, writing, reading, history>>

\* The thread's append, whole ...
AppendLine(m, f) ==
  /\ "torn" \notin faults
  /\ <<m, f>> \in pending
  /\ pending' = pending \ {<<m, f>>}
  /\ log' = [log EXCEPT ![f] = Append(Append(@, FirstHalf(m)), LastHalf(m))]
  /\ UNCHANGED <<faults, requests, server, response, out, writing, reading, history>>

\* ... or seen half done.
AppendHead(m, f) ==
  /\ "torn" \in faults
  /\ <<m, f>> \in pending
  /\ \A a \in writing : a[2] # f
  /\ pending' = pending \ {<<m, f>>}
  /\ writing' = writing \cup {<<m, f>>}
  /\ log' = [log EXCEPT ![f] = Append(@, FirstHalf(m))]
  /\ UNCHANGED <<faults, requests, server, response, out, reading, history>>

AppendTail(m, f) ==
  /\ <<m, f>> \in writing
  /\ writing' = writing \ {<<m, f>>}
  /\ log' = [log EXCEPT ![f] = Append(@, LastHalf(m))]
  /\ UNCHANGED <<faults, requests, server, response, out, pending, reading, history>>

Flush ==
  \/ \E a \in pending : AppendLine(a[1], a[2]) \/ AppendHead(a[1], a[2])
  \/ \E a \in writing : AppendTail(a[1], a[2])

-----------------------------------------------------------------------------
(* The server's life.                                                      *)

\* start(): the lock is free (a server that stopped removed it, or the launch's
\* cleanup did), the broadcast file of an earlier server goes, its request and
\* response files stay.
Start ==
  /\ srv = "down"
  /\ srv' = "idle"
  /\ running' = TRUE
  /\ out' = 0
  /\ UNCHANGED <<faults, requests, took, cleanup, handled, response, log, pending,
                 writing, reading, history>>

Stop ==
  /\ "stop" \in faults
  /\ srv # "down" /\ running
  /\ running' = FALSE
  /\ UNCHANGED <<faults, requests, srv, took, cleanup, handled, response, logs,
                 reading, history>>

\* The task sees is_running before it looks for the next message.  Once it has
\* removed the lock file, another server can start.
Exit ==
  /\ srv = "idle" /\ ~running
  /\ srv' = "down"
  /\ msgFile' = None
  /\ cleanup' = cleanup \cup {"response"}
  /\ UNCHANGED <<faults, send, fd, content, took, running, handled, response, logs,
                 reading, history>>

CleanResponse ==
  /\ "response" \in cleanup
  /\ cleanup' = (cleanup \ {"response"}) \cup {"out"}
  /\ response' = None
  /\ UNCHANGED <<faults, requests, srv, took, running, handled, logs, reading, history>>

CleanOut ==
  /\ "out" \in cleanup
  /\ cleanup' = cleanup \ {"out"}
  /\ out' = 0
  /\ UNCHANGED <<faults, requests, srv, took, running, handled, response, log, pending,
                 writing, reading, history>>

\* A launch that finds no server removes what an earlier one has left, the
\* broadcast file excepted (cleanup_stale_resources).
Sweep ==
  /\ srv = "down"
  /\ msgFile' = None
  /\ response' = None
  /\ UNCHANGED <<faults, send, fd, content, server, logs, reading, history>>

Clean == Exit \/ CleanResponse \/ CleanOut \/ Sweep

\* The process ends: what its threads have not written is lost.
Crash ==
  /\ "crash" \in faults
  /\ srv # "down"
  /\ srv' = "down"
  /\ took' = None
  /\ cleanup' = {}
  /\ pending' = {}
  /\ writing' = {}
  /\ UNCHANGED <<faults, requests, running, handled, response, out, log, reading, history>>

-----------------------------------------------------------------------------
(* receive_message.                                                        *)

NothingFresh == [msg |-> None, place |-> <<0, 0>>]

OpenLog(c) ==
  /\ reader[c] = "poll"
  /\ IF out = 0
     THEN reader' = [reader EXCEPT ![c] = "response"] /\ UNCHANGED file
     ELSE /\ reader' = [reader EXCEPT ![c] = "opened"]
          /\ file' = [file EXCEPT ![c] = out]
  /\ UNCHANGED <<faults, requests, server, response, logs, pos, offset, seen, fresh, history>>

ReadFrom(c, start, otherwise) ==
  /\ reader[c] = "opened"
  /\ offset' = [offset EXCEPT ![c] = start]
  /\ IF Len(log[file[c]]) > start
     THEN /\ reader' = [reader EXCEPT ![c] = "lines"]
          /\ pos' = [pos EXCEPT ![c] = start]
          /\ UNCHANGED file
     ELSE /\ reader' = [reader EXCEPT ![c] = otherwise]
          /\ file' = [file EXCEPT ![c] = 0]
          /\ UNCHANGED pos
  /\ UNCHANGED <<faults, requests, server, response, logs, seen, fresh, history>>

\* A file shorter than the offset is taken for a new one.
Resume(c) == IF Len(log[file[c]]) < offset[c] THEN 0 ELSE offset[c]

\* Mutant: the offset is not used.
MeasureFromStart(c) == ReadFrom(c, 0, "response")

\* Mutant: with nothing new in the file, the loop starts over.
MeasureOnly(c) == ReadFrom(c, Resume(c), "poll")

Measure(c) == ReadFrom(c, Resume(c), "response")

\* What is left of the file at the reader's position.
Left(c) == Len(log[file[c]]) - pos[c]
Piece(c) == log[file[c]][pos[c] + 1]
WholeLine(c) == Left(c) > 1 /\ ~Piece(c).end

\* A line that does not parse, or whose id was seen, is passed over.
SkipLine(c) ==
  /\ reader[c] = "lines"
  /\ Left(c) > 0
  /\ WholeLine(c) => Piece(c).msg \in seen[c]
  /\ pos' = [pos EXCEPT ![c] = @ + IF WholeLine(c) THEN 2 ELSE 1]
  /\ UNCHANGED <<faults, requests, server, response, logs, reader, file, offset, seen,
                 fresh, history>>

\* The message is marked as seen before the await for the position.
TakeLine(c) ==
  /\ reader[c] = "lines"
  /\ Left(c) > 0
  /\ WholeLine(c)
  /\ Piece(c).msg \notin seen[c]
  /\ seen' = [seen EXCEPT ![c] = @ \cup {Piece(c).msg}]
  /\ fresh' = [fresh EXCEPT ![c] = [msg |-> Piece(c).msg,
                                    place |-> <<file[c], pos[c] + 2>>]]
  /\ pos' = [pos EXCEPT ![c] = @ + 2]
  /\ reader' = [reader EXCEPT ![c] = "marked"]
  /\ UNCHANGED <<faults, requests, server, response, logs, file, offset, history>>

Done(c, where) ==
  /\ reader' = [reader EXCEPT ![c] = where]
  /\ file' = [file EXCEPT ![c] = 0]
  /\ pos' = [pos EXCEPT ![c] = 0]

\* Mutant: the offset goes to the end of the file.
ReturnLineAtEnd(c) ==
  /\ reader[c] = "marked"
  /\ offset' = [offset EXCEPT ![c] = Len(log[file[c]])]
  /\ at' = [at EXCEPT ![c] = fresh[c].place]
  /\ got' = [got EXCEPT ![c] = @ \cup {fresh[c].msg}]
  /\ fresh' = [fresh EXCEPT ![c] = NothingFresh]
  /\ Done(c, "poll")
  /\ UNCHANGED <<faults, requests, server, response, logs, seen>>

ReturnLine(c) ==
  /\ reader[c] = "marked"
  /\ offset' = [offset EXCEPT ![c] = pos[c]]
  /\ at' = [at EXCEPT ![c] = fresh[c].place]
  /\ got' = [got EXCEPT ![c] = @ \cup {fresh[c].msg}]
  /\ fresh' = [fresh EXCEPT ![c] = NothingFresh]
  /\ Done(c, "poll")
  /\ UNCHANGED <<faults, requests, server, response, logs, seen>>

EndOfFile(c) ==
  /\ reader[c] = "lines"
  /\ Left(c) = 0
  /\ offset' = [offset EXCEPT ![c] = pos[c]]
  /\ Done(c, "response")
  /\ UNCHANGED <<faults, requests, server, response, logs, seen, fresh, history>>

\* check_response, after the broadcasts.
OpenResponse(c) ==
  /\ reader[c] = "response"
  /\ reader' = [reader EXCEPT ![c] = IF response = None THEN "poll" ELSE "taking"]
  /\ UNCHANGED <<faults, requests, server, response, logs, file, pos, offset, seen,
                 fresh, history>>

\* The response read is returned, and the name removed, whatever it holds now.
TakeResponse(c) ==
  /\ reader[c] = "taking"
  /\ response' = None
  /\ reader' = [reader EXCEPT ![c] = "poll"]
  /\ UNCHANGED <<faults, requests, server, logs, file, pos, offset, seen, fresh, history>>

Receive(c) ==
  \/ OpenLog(c) \/ Measure(c) \/ SkipLine(c) \/ TakeLine(c) \/ ReturnLine(c)
  \/ EndOfFile(c) \/ OpenResponse(c) \/ TakeResponse(c)

\* The caller drops the future at an await, with a timeout for instance; a
\* removal of the response that has begun goes on.
Cancel(c) ==
  /\ "cancel" \in faults
  /\ reader[c] # "poll"
  /\ response' \in IF reader[c] = "taking" THEN {response, None} ELSE {response}
  /\ fresh' = [fresh EXCEPT ![c] = NothingFresh]
  /\ Done(c, "poll")
  /\ UNCHANGED <<faults, requests, server, logs, offset, seen, history>>

Next ==
  \/ \E m \in Messages : Create(m) \/ GiveUp(m) \/ Write(m)
  \/ Serve \/ Flush \/ Start \/ Stop \/ Clean \/ Crash
  \/ \E c \in Clients : Receive(c) \/ Cancel(c)

Spec == Init /\ [][Next]_vars

\* The server task and the receiving clients poll; threads finish their writes.
\* Nobody has to send, to stop the server or to start another one.
Fairness ==
  /\ \A m \in Messages : WF_vars(Write(m))
  /\ WF_vars(Serve) /\ WF_vars(Flush)
  /\ \A c \in Clients : WF_vars(Receive(c))

FairSpec == Spec /\ Fairness

-----------------------------------------------------------------------------
(* Properties.                                                             *)

\* Every variable has its type.
TypeOK ==
  /\ faults \in FaultSets
  /\ send \in [Messages -> {"idle", "created", "half", "over", "done"}]
  /\ fd \in [Messages -> Messages \cup {None}]
  /\ msgFile \in Messages \cup {None}
  /\ content \in [Messages -> Messages \cup {None, Garbage}]
  /\ srv \in {"down", "idle", "read", "handling", "answered"}
  /\ took \in Messages \cup {None, Garbage}
  /\ running \in BOOLEAN
  /\ cleanup \subseteq {"response", "out"}
  /\ handled \in [Messages -> Nat]
  /\ response \in Messages \cup {None}
  /\ out \in 0..Len(log)
  /\ log \in Seq(Seq(Pieces))
  /\ pending \subseteq Appends
  /\ writing \subseteq Appends
  /\ reader \in [Clients -> {"poll", "opened", "lines", "marked", "response", "taking"}]
  /\ file \in [Clients -> 0..Len(log)]
  /\ pos \in [Clients -> Nat]
  /\ offset \in [Clients -> Nat]
  /\ seen \in [Clients -> SUBSET Messages]
  /\ fresh \in [Clients -> [msg : Messages \cup {None}, place : Nat \X Nat]]
  /\ at \in [Clients -> Nat \X Nat]
  /\ got \in [Clients -> SUBSET Messages]

\* A request reaches the handler at most once, whatever sends overlap and
\* wherever the server crashes, stops or is restarted.
HandledOnce == \A m \in Messages : handled[m] <= 1

\* The broadcasts a client returns are whole messages of the log, each once
\* and in the order of the log, over torn appends, dropped calls and restarts.
Published ==
  UNION {{[msg |-> log[f][i].msg, epoch |-> f, index |-> i] :
            i \in {j \in DOMAIN log[f] : log[f][j].end}} : f \in DOMAIN log}

Broadcasts == INSTANCE OrderedBroadcast WITH published <- Published
InOrder == Broadcasts!Spec

\* Without torn appends and within one file, whatever lies below the offset has
\* been seen; and what was seen was returned, but for a call that was dropped
\* in between.
NothingSkipped ==
  \A c \in Clients :
    /\ "torn" \notin faults /\ Len(log) = 1 =>
         \A i \in 1..offset[c] : i <= Len(log[1]) /\ log[1][i].msg \in seen[c]
    /\ "cancel" \notin faults => seen[c] \subseteq got[c] \cup {fresh[c].msg}

\* Without faults every client returns every request that was handled: appends
\* that overtake each other and reads that end anywhere lose nothing.
Delivered ==
  \A m \in Messages, c \in Clients :
    faults = {} /\ handled[m] = 1 ~> m \in got[c]

\* Without faults an answer does not stay in the response file while a client
\* receives: broadcasts come first, but not for ever.
AnswerTaken == faults = {} /\ response # None ~> response = None
=============================================================================
