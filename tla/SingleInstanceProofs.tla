------------------------ MODULE SingleInstanceProofs ------------------------
(* Theorems about SingleInstance, for any number of processes, any         *)
(* configuration and any bound on the exits.                               *)
EXTENDS SingleInstance, TLAPS

\* The places where a process has neither a stream nor a server nor a
\* primary to rely on.
Quiet == Labels \ {"send", "receive", "write_pid", "primary", "secondary"}

\* A step moves p, and only p, to one of the places S.
Moves(p, S) ==
  /\ pc' \in [Procs -> Labels]
  /\ site' \in [Procs -> Sites]
  /\ retried' \in [Procs -> BOOLEAN]
  /\ pc'[p] \in S
  /\ \A q \in Procs \ {p} : pc'[q] = pc[q]

-----------------------------------------------------------------------------
(* Lemmas about the operators the actions are built from.                  *)

LEMMA ProtocolType ==
  ASSUME TypeOK, NEW p \in Procs
  PROVE  Protocol(p) \in Protocols
<1>1. InitialProtocols \subseteq Protocols /\ Fallbacks \in Seq(Protocols)
  BY ConfigAssumption
<1>2. initial \in Protocols /\ fb[p] \in 0..Len(Fallbacks)
  BY <1>1 DEF TypeOK
<1>3. CASE fb[p] = 0
  BY <1>2, <1>3 DEF Protocol
<1>4. CASE fb[p] # 0
  <2>1. fb[p] \in 1..Len(Fallbacks)
    BY <1>1, <1>2, <1>4
  <2> QED BY <1>1, <1>4, <2>1 DEF Protocol
<1> QED BY <1>3, <1>4

LEMMA GotoMoves ==
  ASSUME TypeOK, NEW p \in Procs, NEW l \in Labels, Goto(p, l)
  PROVE  Moves(p, {l})
BY DEF TypeOK, Goto, Moves

LEMMA HandshakeMoves ==
  ASSUME TypeOK, NEW p \in Procs, NEW s \in Sites, Handshake(p, s)
  PROVE  Moves(p, Quiet)
<1>1. "connect" \in Labels /\ "connect" \in Quiet
  BY DEF Labels, Enforcing, Quiet
<1> QED BY <1>1 DEF TypeOK, Handshake, Moves

LEMMA CleanupEntryQuiet ==
  ASSUME TypeOK
  PROVE  CleanupEntry(initial) \in Quiet
<1>1. CleanupEntry(initial) \in {"clean_sock", "clean_lock", "clean_shm", "start"}
  BY ConfigAssumption DEF TypeOK, CleanupEntry, Protocols
<1> QED BY <1>1 DEF Quiet, Labels, Enforcing

LEMMA SecondCleanupMoves ==
  ASSUME TypeOK, NEW p \in Procs, SecondCleanup(p)
  PROVE  Moves(p, Quiet)
<1>1. CleanupEntry(initial) \in Quiet /\ Quiet \subseteq Labels
  BY CleanupEntryQuiet DEF Quiet
<1> QED BY <1>1 DEF TypeOK, SecondCleanup, Moves

LEMMA QuietMoves ==
  ASSUME TypeOK, NEW p \in Procs, NEW l \in Quiet, Goto(p, l)
  PROVE  Moves(p, Quiet)
<1>1. Quiet \subseteq Labels
  BY DEF Quiet
<1> QED BY <1>1, GotoMoves DEF Moves

LEMMA CleanupDoneMoves ==
  ASSUME TypeOK, NEW p \in Procs, CleanupDone(p)
  PROVE  Moves(p, Quiet)
<1>1. "final" \in Sites /\ "start" \in Quiet
  BY DEF Sites, Quiet, Labels, Enforcing
<1> QED BY <1>1, HandshakeMoves, QuietMoves DEF CleanupDone

LEMMA StartFailedMoves ==
  ASSUME TypeOK, NEW p \in Procs, StartFailed(p)
  PROVE  Moves(p, Quiet)
<1>1. "recheck" \in Sites /\ "next_fallback" \in Quiet
  BY DEF Sites, Quiet, Labels, Enforcing
<1> QED BY <1>1, HandshakeMoves, QuietMoves DEF StartFailed

LEMMA HandshakeOkMoves ==
  ASSUME TypeOK, NEW p \in Procs, HandshakeOk(p)
  PROVE  Moves(p, Quiet \cup {"secondary"}) /\ HangUp(p)
<1>1. "secondary" \in Labels
  BY DEF Labels, Returned
<1> QED BY <1>1, CleanupDoneMoves, GotoMoves DEF HandshakeOk, Moves

LEMMA HandshakeErrMoves ==
  ASSUME TypeOK, NEW p \in Procs, HandshakeErr(p)
  PROVE  Moves(p, Quiet) /\ HangUp(p)
<1>1. HangUp(p)
  BY DEF HandshakeErr
<1>2. {"clean_pid", "clean_lockfile", "owner_pid", "start"} \subseteq Quiet
  BY DEF Quiet, Labels, Enforcing
<1>3. site[p] \in Sites
  BY DEF TypeOK
<1>4. \/ \E l \in Quiet : Goto(p, l)
      \/ \E s \in Sites : Handshake(p, s)
      \/ SecondCleanup(p)
  BY <1>2, <1>3, CleanupEntryQuiet DEF HandshakeErr, Sites, Probes
<1> QED BY <1>1, <1>4, QuietMoves, HandshakeMoves, SecondCleanupMoves

LEMMA FilesUpdate ==
  ASSUME TypeOK, NEW q \in Procs
  PROVE  /\ [fs EXCEPT !.sock = q] \in Files
         /\ [fs EXCEPT !.sock = NoProc] \in Files
         /\ [fs EXCEPT !.lock = TRUE] \in Files
         /\ [fs EXCEPT !.lock = FALSE] \in Files
         /\ [fs EXCEPT !.pid = q] \in Files
         /\ [fs EXCEPT !.msg = TRUE] \in Files
         /\ [fs EXCEPT !.msg = FALSE] \in Files
         /\ [fs EXCEPT !.pid = NoProc] \in Files
         /\ [fs EXCEPT !.msg = FALSE, !.resp = TRUE, !.out = TRUE] \in Files
         /\ [fs EXCEPT !.resp = FALSE] \in Files
         /\ [fs EXCEPT !.out = FALSE] \in Files
         /\ [fs EXCEPT !.shm = "absent"] \in Files
         /\ [fs EXCEPT !.shm = "idle"] \in Files
         /\ [fs EXCEPT !.shm = "request"] \in Files
         /\ [fs EXCEPT !.shm = "response", !.bcast = TRUE] \in Files
BY DEF TypeOK, Files

-----------------------------------------------------------------------------
(* Type correctness.                                                       *)

\* A step that leaves p without a stream and does not touch the servers.
LEMMA QuietStep ==
  ASSUME TypeOK, NEW p \in Procs, Moves(p, Quiet \cup {"secondary"}),
         pc[p] \notin {"write_pid", "primary"},
         UNCHANGED <<initial, serving, exits, met>>, early' \in BOOLEAN,
         fb' \in [Procs -> 0..Len(Fallbacks)],
         fs' \in Files,
         \/ HangUp(p)
         \/ UNCHANGED <<conn, inbox>> /\ pc[p] \notin {"send", "receive"}
  PROVE  TypeOK'
<1>1. NoProc \notin Procs
  BY NoProcAssumption
<1>2. /\ conn' \in [Procs -> Procs \cup {NoProc}]
      /\ inbox' \in [Procs -> BOOLEAN]
      /\ conn'[p] = NoProc /\ ~inbox'[p]
      /\ \A q \in Procs \ {p} : conn'[q] = conn[q] /\ inbox'[q] = inbox[q]
  BY DEF TypeOK, HangUp
<1>3. pc'[p] \notin {"send", "receive", "write_pid", "primary"}
  BY DEF Moves, Quiet
<1>4. serving[p] = "none"
  BY DEF TypeOK
<1>5. /\ pc' \in [Procs -> Labels] /\ site' \in [Procs -> Sites]
      /\ retried' \in [Procs -> BOOLEAN]
      /\ \A q \in Procs \ {p} : pc'[q] = pc[q]
  BY DEF Moves
<1> QED BY <1>2, <1>3, <1>4, <1>5 DEF TypeOK

\* A step that brings p's server up.
LEMMA ServerUpStep ==
  ASSUME TypeOK, NEW p \in Procs, ServerUp(p),
         pc[p] \in {"start", "listen", "file_serve", "shm_create_lock"},
         UNCHANGED <<initial, fb, conn, inbox, exits, early>>, fs' \in Files
  PROVE  TypeOK'
<1>1. "write_pid" \in Labels
  BY DEF Labels, Enforcing
<1>2. Moves(p, {"write_pid"})
  BY <1>1, GotoMoves DEF ServerUp
<1>3. /\ pc' \in [Procs -> Labels] /\ site' \in [Procs -> Sites]
      /\ retried' \in [Procs -> BOOLEAN] /\ pc'[p] = "write_pid"
      /\ \A q \in Procs \ {p} : pc'[q] = pc[q]
  BY <1>2 DEF Moves
<1>4. Protocol(p) \in Protocols /\ "none" \notin Protocols
  BY ProtocolType DEF Protocols
<1>5. /\ serving' \in [Procs -> Protocols \cup {"none"}]
      /\ serving'[p] # "none"
      /\ \A q \in Procs \ {p} : serving'[q] = serving[q]
  BY <1>4 DEF ServerUp, TypeOK
<1>6. met' \in [Procs -> BOOLEAN]
  BY DEF ServerUp, TypeOK
<1>7. conn[p] = NoProc /\ ~inbox[p]
  BY DEF TypeOK
<1> QED BY <1>3, <1>5, <1>6, <1>7 DEF TypeOK

LEMMA ConnectType ==
  ASSUME TypeOK, NEW p \in Procs, Connect(p)
  PROVE  TypeOK'
<1>1. CASE Connectable(Protocol(p))
  <2>1. "send" \in Labels
    BY DEF Labels, Enforcing
  <2>2. Moves(p, {"send"}) /\ pc[p] = "connect"
    BY <1>1, <2>1, GotoMoves DEF Connect
  <2>3. /\ pc' \in [Procs -> Labels] /\ site' \in [Procs -> Sites]
        /\ retried' \in [Procs -> BOOLEAN] /\ pc'[p] = "send"
        /\ \A q \in Procs \ {p} : pc'[q] = pc[q]
    BY <2>2 DEF Moves
  <2>4. fs.sock \in Procs \cup {NoProc}
    BY DEF TypeOK, Files
  <2>5. /\ conn' \in [Procs -> Procs \cup {NoProc}]
        /\ \A q \in Procs \ {p} : conn'[q] = conn[q]
        /\ UNCHANGED <<initial, inbox, fb, serving, fs, exits, met, early>>
    BY <1>1, <2>4 DEF Connect, TypeOK
  <2>6. ~inbox[p] /\ serving[p] = "none"
    BY <2>2 DEF TypeOK
  <2> QED BY <2>3, <2>5, <2>6 DEF TypeOK
<1>2. CASE ~Connectable(Protocol(p))
  <2>1. HandshakeErr(p) /\ pc[p] = "connect"
    BY <1>2 DEF Connect
  <2>2. UNCHANGED <<initial, fb, serving, fs, exits, met, early>>
    BY DEF Connect
  <2> QED BY <2>1, <2>2, HandshakeErrMoves, QuietStep DEF TypeOK, Moves
<1> QED BY <1>1, <1>2

LEMMA SendType ==
  ASSUME TypeOK, NEW p \in Procs, Send(p)
  PROVE  TypeOK'
<1>0. pc[p] = "send" /\ UNCHANGED <<initial, fb, serving, exits, met, early>>
  BY DEF Send
<1>1. CASE HandshakeErr(p) /\ UNCHANGED fs
  <2>1. fb' \in [Procs -> 0..Len(Fallbacks)] /\ fs' \in Files /\ early' \in BOOLEAN
    BY <1>0, <1>1 DEF TypeOK
  <2>2. pc[p] \notin {"write_pid", "primary"} /\ UNCHANGED <<initial, serving, exits, met>>
    BY <1>0
  <2>3. Moves(p, Quiet \cup {"secondary"}) /\ HangUp(p)
    BY <1>1, HandshakeErrMoves DEF Moves
  <2> QED BY <2>1, <2>2, <2>3, QuietStep
<1>2. CASE ~(HandshakeErr(p) /\ UNCHANGED fs)
  <2>1. /\ Goto(p, "receive") /\ UNCHANGED <<conn, inbox>>
        /\ Protocol(p) # "InMemory"
        /\ fs' = CASE Protocol(p) = "FileBased"    -> FileSend
                   [] Protocol(p) = "SharedMemory" -> ShmSend
                   [] Protocol(p) = "UnixSocket"   -> fs
    BY <1>2 DEF Send, SendFails
  <2>2. "receive" \in Labels
    BY DEF Labels, Enforcing
  <2>3. /\ pc' \in [Procs -> Labels] /\ site' \in [Procs -> Sites]
        /\ retried' \in [Procs -> BOOLEAN] /\ pc'[p] = "receive"
        /\ \A q \in Procs \ {p} : pc'[q] = pc[q]
    BY <2>1, <2>2, GotoMoves DEF Moves
  <2>4. Protocol(p) \in {"FileBased", "SharedMemory", "UnixSocket"}
    BY <2>1, ProtocolType DEF Protocols
  <2>5. fs' \in Files
    BY <2>1, <2>4, FilesUpdate DEF TypeOK, FileSend, ShmSend
  <2> QED BY <1>0, <2>1, <2>3, <2>5 DEF TypeOK
<1> QED BY <1>1, <1>2

LEMMA ReceiveType ==
  ASSUME TypeOK, NEW p \in Procs,
         Receive(p) \/ ReceiveErr(p) \/ HandshakeTimeout(p)
  PROVE  TypeOK'
<1>1. pc[p] = "receive" /\ UNCHANGED <<initial, fb, serving, exits, met, early>>
  BY DEF Receive, ReceiveErr, HandshakeTimeout
<1>2. HandshakeOk(p) \/ HandshakeErr(p)
  BY DEF Receive, ReceiveErr, HandshakeTimeout
<1>3. Moves(p, Quiet \cup {"secondary"}) /\ HangUp(p)
  BY <1>2, HandshakeOkMoves, HandshakeErrMoves DEF Moves
<1>4. \/ fs' = fs
      \/ fs' = [fs EXCEPT !.resp = FALSE]
      \/ fs' = [fs EXCEPT !.shm = "idle"]
  <2>1. Protocol(p) \in Protocols
    BY ProtocolType
  <2> QED BY <2>1 DEF Receive, ReceiveErr, HandshakeTimeout, FileTake, ShmTake, Protocols
<1>5. fs' \in Files
  BY <1>4, FilesUpdate DEF TypeOK
<1>6. fb' \in [Procs -> 0..Len(Fallbacks)] /\ early' \in BOOLEAN
  BY <1>1 DEF TypeOK
<1>7. pc[p] \notin {"write_pid", "primary"} /\ UNCHANGED <<initial, serving, exits, met>>
  BY <1>1
<1> QED BY <1>3, <1>5, <1>6, <1>7, QuietStep

LEMMA CleanupMoves ==
  ASSUME TypeOK, NEW p \in Procs, Cleanup(p)
  PROVE  Moves(p, Quiet)
<1>1. \/ CleanupDone(p)
      \/ \E l \in Quiet : Goto(p, l)
      \/ \E s \in Sites : Handshake(p, s)
  <2>1. {"clean_sock_probe", "clean_sock_unlink", "clean_pid",
         "clean_lockfile", "clean_msgfile", "clean_pidfile", "clean_respfile", "clean_shm_unlink"} \subseteq Quiet
    BY DEF Quiet, Labels, Enforcing
  <2>2. {"lock_probe", "pid_probe1"} \subseteq Sites
    BY DEF Sites, Probes
  <2> QED BY <2>1, <2>2 DEF Cleanup, CleanSock, CleanSockProbe,
             CleanSockUnlink, CleanLock, CleanPid, CleanLockFile, CleanMsgFile,
         CleanPidFile, CleanRespFile,
             CleanShm, CleanShmUnlink
<1> QED BY <1>1, CleanupDoneMoves, QuietMoves, HandshakeMoves

LEMMA CleanupType ==
  ASSUME TypeOK, NEW p \in Procs, Cleanup(p)
  PROVE  TypeOK'
<1>1. /\ UNCHANGED <<initial, fb, serving, exits, met, conn, inbox>>
      /\ pc[p] \notin {"send", "receive", "write_pid", "primary"}
  BY DEF Cleanup, CleanSock, CleanSockProbe, CleanSockUnlink, CleanLock,
         CleanPid, CleanLockFile, CleanMsgFile,
         CleanPidFile, CleanRespFile, CleanShm, CleanShmUnlink
<1>2. fs' \in Files
  BY FilesUpdate DEF TypeOK, Cleanup, CleanSock, CleanSockProbe,
         CleanSockUnlink, CleanLock, CleanPid, CleanLockFile, CleanMsgFile,
         CleanPidFile, CleanRespFile,
         CleanShm, CleanShmUnlink
<1>3. early' \in BOOLEAN
  BY DEF TypeOK, BoundNotListening, Cleanup, CleanSock, CleanSockProbe, CleanSockUnlink,
         CleanLock, CleanPid, CleanLockFile, CleanMsgFile, CleanPidFile, CleanRespFile,
         CleanShm, CleanShmUnlink
<1> QED BY <1>1, <1>2, <1>3, CleanupMoves, QuietStep DEF TypeOK, Moves

LEMMA WritePidType ==
  ASSUME TypeOK, NEW p \in Procs, WritePid(p)
  PROVE  TypeOK'
<1>1. "primary" \in Labels
  BY DEF Labels, Returned
<1>2. /\ pc' \in [Procs -> Labels] /\ site' \in [Procs -> Sites]
      /\ retried' \in [Procs -> BOOLEAN] /\ pc'[p] = "primary"
      /\ \A q \in Procs \ {p} : pc'[q] = pc[q]
  BY <1>1, GotoMoves DEF Moves, WritePid
<1>3. fs' \in Files
  BY FilesUpdate DEF WritePid
<1>4. /\ pc[p] = "write_pid"
      /\ UNCHANGED <<initial, fb, serving, conn, inbox, exits, met, early>>
  BY DEF WritePid
<1> QED BY <1>2, <1>3, <1>4 DEF TypeOK

LEMMA StartType ==
  ASSUME TypeOK, NEW p \in Procs, Start(p)
  PROVE  TypeOK'
<1> DEFINE Up == /\ ServerUp(p)
                 /\ pc[p] \in {"start", "listen", "file_serve", "shm_create_lock"}
                 /\ UNCHANGED <<initial, fb, conn, inbox, exits, early>>
                 /\ fs' \in Files
           On == /\ UNCHANGED <<initial, fb, serving, conn, inbox, exits, met, early>>
                 /\ pc[p] \in {"start", "shm_unlink", "shm_lock", "shm_lock_unlink", "shm_create"}
                 /\ StartFailed(p) \/ \E l \in Quiet : Goto(p, l)
                 /\ fs' \in Files
<1>1. {"listen", "file_serve", "shm_unlink", "shm_lock", "shm_lock_unlink", "shm_create",
       "shm_create_lock"} \subseteq Quiet
  BY DEF Quiet, Labels, Enforcing
<1>2. fs \in Files
  BY DEF TypeOK
<1>4. CASE ListenUnix(p) \/ StartInMemory(p) \/ FileServe(p) \/ ShmCreateLock(p)
  <2>1. Up
    BY <1>2, <1>4, FilesUpdate DEF ListenUnix, StartInMemory, FileServe, ShmCreateLock
  <2> QED BY <2>1, ServerUpStep
<1>5. CASE \/ StartUnix(p) \/ StartFile(p) \/ StartShm(p) \/ ShmUnlink(p)
           \/ ShmLock(p) \/ ShmLockUnlink(p) \/ ShmCreate(p)
  <2>1. On
    BY <1>1, <1>2, <1>5, FilesUpdate
       DEF StartUnix, StartFile, StartShm, ShmUnlink, ShmLock, ShmLockUnlink, ShmCreate
  <2> QED BY <2>1, StartFailedMoves, QuietMoves, QuietStep DEF TypeOK, Moves
<1>6. CASE WritePid(p)
  BY <1>6, WritePidType
<1> QED BY <1>4, <1>5, <1>6 DEF Start

LEMMA RestMoves ==
  ASSUME TypeOK, NEW p \in Procs, OwnerPid(p) \/ NextFallback(p)
  PROVE  Moves(p, Quiet)
<1>1. {"owner_wait", "fallback"} \subseteq Sites /\ "failed" \in Quiet
  BY DEF Sites, Quiet, Labels, Returned
<1>2. \/ SecondCleanup(p) \/ Handshake(p, "owner_wait")
      \/ Handshake(p, "fallback") \/ Goto(p, "failed")
  BY DEF OwnerPid, NextFallback
<1> QED BY <1>1, <1>2, SecondCleanupMoves, HandshakeMoves, QuietMoves

LEMMA RestType ==
  ASSUME TypeOK, NEW p \in Procs, OwnerPid(p) \/ NextFallback(p)
  PROVE  TypeOK'
<1>1. /\ UNCHANGED <<initial, serving, conn, inbox, exits, met, early, fs>>
      /\ pc[p] \notin {"send", "receive", "write_pid", "primary"}
  BY DEF OwnerPid, NextFallback
<1>3. Moves(p, Quiet)
  BY RestMoves
<1>4. fb' \in [Procs -> 0..Len(Fallbacks)]
  <2>1. fb \in [Procs -> 0..Len(Fallbacks)] /\ Len(Fallbacks) \in Nat
    BY ConfigAssumption DEF TypeOK
  <2>2. CASE fb' = fb
    BY <2>1, <2>2
  <2>3. CASE \E i \in (fb[p] + 1)..Len(Fallbacks) : fb' = [fb EXCEPT ![p] = i]
    BY <2>1, <2>3
  <2> QED BY <2>2, <2>3 DEF OwnerPid, NextFallback
<1> QED BY <1>1, <1>3, <1>4, QuietStep DEF TypeOK, Moves

LEMMA LaunchType ==
  ASSUME TypeOK, NEW p \in Procs, Launch(p)
  PROVE  TypeOK'
<1>1. pc[p] = "idle" /\ UNCHANGED <<initial, fb, serving, conn, inbox, fs, exits, early>>
  BY DEF Launch
<1>2. "fast" \in Sites
  BY DEF Sites
<1>3. Moves(p, Quiet)
  BY <1>2, HandshakeMoves DEF Launch
<1>4. met' \in [Procs -> BOOLEAN]
  BY DEF Launch, TypeOK, SomeServer
<1>5. pc'[p] \notin {"send", "receive", "write_pid", "primary"}
  BY <1>3 DEF Moves, Quiet
<1> QED BY <1>1, <1>3, <1>4, <1>5 DEF TypeOK, Moves

LEMMA ServeType ==
  ASSUME TypeOK, NEW q \in Procs, Serve(q)
  PROVE  TypeOK'
<1>1. CASE ServeFile(q) \/ ServeShm(q)
  BY <1>1, FilesUpdate DEF ServeFile, ServeShm, TypeOK
<1>2. CASE \E p \in Procs : ServeUnix(q, p)
  <2>1. NoProc \notin Procs
    BY NoProcAssumption
  <2> QED BY <1>2, <2>1 DEF ServeUnix, TypeOK
<1> QED BY <1>1, <1>2 DEF Serve

LEMMA ExitType ==
  ASSUME TypeOK, NEW p \in Procs, Exit(p)
  PROVE  TypeOK'
<1>1. "exited" \in Labels
  BY DEF Labels
<1>2. /\ pc' \in [Procs -> Labels] /\ site' \in [Procs -> Sites]
      /\ retried' \in [Procs -> BOOLEAN] /\ pc'[p] = "exited"
      /\ \A q \in Procs \ {p} : pc'[q] = pc[q]
  BY <1>1, GotoMoves DEF Moves, Exit
<1>3. exits' \in 0..MaxExits
  BY ConfigAssumption DEF Exit, TypeOK
<1>4. NoProc \notin Procs
  BY NoProcAssumption
<1> QED BY <1>2, <1>3, <1>4 DEF Exit, HangUp, TypeOK

\* In every configuration each variable keeps its type, streams stay inside
\* handshakes and servers inside processes that won.
THEOREM TypeCorrect == Spec => []TypeOK
<1>1. Init => TypeOK
  <2>1. "idle" \in Labels /\ "fast" \in Sites
    BY DEF Labels, Sites
  <2>2. Len(Fallbacks) \in Nat /\ MaxExits \in Nat
    BY ConfigAssumption
  <2> SUFFICES ASSUME Init PROVE TypeOK
    OBVIOUS
  <2>3. /\ initial \in InitialProtocols
        /\ pc \in [Procs -> Labels] /\ site \in [Procs -> Sites]
        /\ retried \in [Procs -> BOOLEAN] /\ fb \in [Procs -> 0..Len(Fallbacks)]
        /\ serving \in [Procs -> Protocols \cup {"none"}]
        /\ conn \in [Procs -> Procs \cup {NoProc}] /\ inbox \in [Procs -> BOOLEAN]
        /\ exits \in 0..MaxExits
    BY <2>1, <2>2 DEF Init
  <2>4. fs \in Files /\ met \in [Procs -> BOOLEAN] /\ early \in BOOLEAN
    BY DEF Init, Files
  <2>5. \A p \in Procs : conn[p] = NoProc /\ ~inbox[p] /\ serving[p] = "none" /\ pc[p] = "idle"
    BY DEF Init
  <2> QED BY <2>3, <2>4, <2>5 DEF TypeOK
<1>2. TypeOK /\ [Next]_vars => TypeOK'
  <2> SUFFICES ASSUME TypeOK, [Next]_vars PROVE TypeOK'
    OBVIOUS
  <2>1. CASE UNCHANGED vars
    BY <2>1 DEF vars, TypeOK
  <2>2. ASSUME NEW p \in Procs, Launch(p) PROVE TypeOK'
    BY <2>2, LaunchType
  <2>3. ASSUME NEW p \in Procs, Step(p) PROVE TypeOK'
    BY <2>3, ConnectType, SendType, ReceiveType, CleanupType, StartType, RestType
       DEF Step
  <2>4. ASSUME NEW p \in Procs, Serve(p) PROVE TypeOK'
    BY <2>4, ServeType
  <2>5. ASSUME NEW p \in Procs, Exit(p) PROVE TypeOK'
    BY <2>5, ExitType
  <2> QED BY <2>1, <2>2, <2>3, <2>4, <2>5 DEF Next
<1> QED BY <1>1, <1>2, PTL DEF Spec

-----------------------------------------------------------------------------
(* A secondary has a server.  Nothing a handshake can read, and no process *)
(* that was told it is secondary, exists before some server has answered;  *)
(* and a server, once up, stays up as long as nobody exits.                *)

FileEvidence == fs.out \/ fs.resp \/ fs.bcast \/ fs.shm = "response"

Evidence == \/ FileEvidence
            \/ \E p \in Procs : inbox[p] \/ pc[p] = "secondary"

EvidenceInv == exits = 0 /\ Evidence => SomeServer

\* What no step of enforce_single_instance does: produce something to read
\* or take a server down; and only reading makes a process secondary.
Frame(p) ==
  /\ exits' = exits
  /\ FileEvidence' => FileEvidence
  /\ \A c \in Procs : inbox'[c] => inbox[c]
  /\ SomeServer => SomeServer'
  /\ \A q \in Procs \ {p} : pc'[q] = pc[q]
  /\ pc'[p] = "secondary" => Receive(p)

LEMMA QuietFrame ==
  ASSUME NEW p \in Procs, Moves(p, Quiet),
         UNCHANGED <<serving, exits>>,
         FileEvidence' => FileEvidence,
         \A c \in Procs : inbox'[c] => inbox[c]
  PROVE  Frame(p)
<1>1. pc'[p] # "secondary" /\ \A q \in Procs \ {p} : pc'[q] = pc[q]
  BY DEF Moves, Quiet
<1>2. SomeServer => SomeServer'
  BY DEF SomeServer
<1> QED BY <1>1, <1>2 DEF Frame

LEMMA HangUpInbox ==
  ASSUME TypeOK, NEW p \in Procs, HangUp(p)
  PROVE  \A c \in Procs : inbox'[c] => inbox[c]
BY DEF HangUp, TypeOK

LEMMA HandshakeFrame ==
  ASSUME TypeOK, NEW p \in Procs,
         Connect(p) \/ Send(p) \/ Receive(p) \/ ReceiveErr(p) \/ HandshakeTimeout(p)
  PROVE  Frame(p)
<1>1. exits' = exits /\ serving' = serving
  BY DEF Connect, Send, Receive, ReceiveErr, HandshakeTimeout
<1>2. SomeServer => SomeServer'
  BY <1>1 DEF SomeServer
<1>3. FileEvidence' => FileEvidence
  <2>1. CASE Send(p)
    <3>1. Protocol(p) \in Protocols
      BY ProtocolType
    <3>2. \/ fs' = fs \/ fs' = [fs EXCEPT !.msg = TRUE]
          \/ fs' = [fs EXCEPT !.shm = "request"]
      BY <2>1, <3>1 DEF Send, SendFails, FileSend, ShmSend, Protocols
    <3> QED BY <3>2 DEF FileEvidence, TypeOK, Files
  <2>2. CASE ~Send(p)
    <3>1. \/ fs' = fs \/ fs' = [fs EXCEPT !.resp = FALSE]
          \/ fs' = [fs EXCEPT !.shm = "idle"]
      BY <2>2, ProtocolType
         DEF Connect, Receive, ReceiveErr, HandshakeTimeout, FileTake, ShmTake, Protocols
    <3> QED BY <3>1 DEF FileEvidence, TypeOK, Files
  <2> QED BY <2>1, <2>2
<1>4. \A c \in Procs : inbox'[c] => inbox[c]
  <2>1. HangUp(p) \/ inbox' = inbox
    BY DEF Connect, Send, Receive, ReceiveErr, HandshakeTimeout, HandshakeOk, HandshakeErr
  <2> QED BY <2>1, HangUpInbox
<1>5. (\A q \in Procs \ {p} : pc'[q] = pc[q]) /\ (pc'[p] = "secondary" => Receive(p))
  <2>1. {"send", "receive"} \subseteq Labels
    BY DEF Labels, Enforcing
  <2>2. CASE Goto(p, "send") \/ Goto(p, "receive")
    BY <2>1, <2>2, GotoMoves DEF Moves
  <2>3. CASE HandshakeErr(p)
    BY <2>3, HandshakeErrMoves DEF Moves, Quiet
  <2>4. CASE Receive(p)
    BY <2>4, HandshakeOkMoves DEF Moves, Receive
  <2> QED BY <2>2, <2>3, <2>4 DEF Connect, Send, ReceiveErr, HandshakeTimeout
<1> QED BY <1>1, <1>2, <1>3, <1>4, <1>5 DEF Frame

LEMMA CleanupFrame ==
  ASSUME TypeOK, NEW p \in Procs, Cleanup(p)
  PROVE  Frame(p)
<1>1. UNCHANGED <<serving, exits, inbox>>
  BY DEF Cleanup, CleanSock, CleanSockProbe, CleanSockUnlink, CleanLock,
         CleanPid, CleanLockFile, CleanMsgFile,
         CleanPidFile, CleanRespFile, CleanShm, CleanShmUnlink
<1>2. Moves(p, Quiet)
  BY CleanupMoves
<1>3. FileEvidence' => FileEvidence
  BY DEF FileEvidence, TypeOK, Files, Cleanup, CleanSock, CleanSockProbe,
         CleanSockUnlink, CleanLock, CleanPid, CleanLockFile, CleanMsgFile,
         CleanPidFile, CleanRespFile,
         CleanShm, CleanShmUnlink
<1> QED BY <1>1, <1>2, <1>3, QuietFrame

LEMMA StartFrame ==
  ASSUME TypeOK, NEW p \in Procs, Start(p)
  PROVE  Frame(p)
<1>1. UNCHANGED <<exits, inbox>>
  BY DEF Start, StartUnix, ListenUnix, StartInMemory, StartFile, FileServe, StartShm,
         ShmUnlink, ShmLock, ShmLockUnlink, ShmCreate,
         ShmCreateLock, WritePid
<1>2. FileEvidence' => FileEvidence
  BY ZenonT(30) DEF FileEvidence, TypeOK, Files, Start, StartUnix, ListenUnix, StartInMemory, StartFile,
         FileServe, StartShm, ShmUnlink, ShmLock, ShmLockUnlink, ShmCreate,
         ShmCreateLock, WritePid
<1>3. SomeServer => SomeServer'
  <2>1. CASE serving' = serving
    BY <2>1 DEF SomeServer
  <2>2. CASE ServerUp(p)
    <3>1. Protocol(p) # "none"
      BY ProtocolType DEF Protocols
    <3> QED BY <2>2, <3>1 DEF ServerUp, SomeServer, TypeOK
  <2> QED BY <2>1, <2>2 DEF Start, StartUnix, ListenUnix, StartInMemory, StartFile, FileServe,
             StartShm, ShmUnlink, ShmLock, ShmLockUnlink, ShmCreate,
         ShmCreateLock, WritePid
<1>4. pc'[p] # "secondary" /\ \A q \in Procs \ {p} : pc'[q] = pc[q]
  <2>1. {"write_pid", "primary", "listen", "file_serve", "shm_unlink", "shm_lock",
         "shm_lock_unlink", "shm_create", "shm_create_lock"} \subseteq Labels \ {"secondary"}
    BY DEF Labels, Enforcing, Returned
  <2>2. StartFailed(p) \/ \E l \in Labels \ {"secondary"} : Goto(p, l)
    BY <2>1 DEF Start, StartUnix, ListenUnix, StartInMemory, StartFile, FileServe, StartShm,
           ShmUnlink, ShmLock, ShmLockUnlink, ShmCreate,
         ShmCreateLock, WritePid, ServerUp
  <2>3. CASE StartFailed(p)
    BY <2>3, StartFailedMoves DEF Moves, Quiet
  <2>4. CASE \E l \in Labels \ {"secondary"} : Goto(p, l)
    BY <2>4, GotoMoves DEF Moves
  <2> QED BY <2>2, <2>3, <2>4
<1> QED BY <1>1, <1>2, <1>3, <1>4 DEF Frame

LEMMA RestFrame ==
  ASSUME TypeOK, NEW p \in Procs, OwnerPid(p) \/ NextFallback(p)
  PROVE  Frame(p)
<1>1. UNCHANGED <<serving, exits, inbox, fs>>
  BY DEF OwnerPid, NextFallback
<1>2. FileEvidence' => FileEvidence
  BY <1>1 DEF FileEvidence
<1> QED BY <1>1, <1>2, RestMoves, QuietFrame

\* Nothing is read that nobody wrote.
LEMMA ReceiveEvidence ==
  ASSUME TypeOK, NEW p \in Procs, Receive(p)
  PROVE  Evidence
<1>1. Readable(p) /\ Protocol(p) \in Protocols
  BY ProtocolType DEF Receive
<1>2. fs.out \/ fs.resp \/ fs.bcast \/ fs.shm = "response" \/ inbox[p]
  BY <1>1 DEF Readable, UnixReadable, FileReadable, ShmReadable, Protocols
<1> QED BY <1>2 DEF Evidence, FileEvidence

LEMMA EvidenceStep ==
  ASSUME TypeOK, EvidenceInv, Next
  PROVE  EvidenceInv'
<1> SUFFICES ASSUME exits' = 0, Evidence' PROVE SomeServer'
  BY DEF EvidenceInv
<1>1. ASSUME NEW p \in Procs, Step(p) PROVE SomeServer'
  <2>1. Frame(p)
    BY <1>1, HandshakeFrame, CleanupFrame, StartFrame, RestFrame DEF Step
  <2>2. Evidence
    <3>1. CASE pc'[p] = "secondary"
      BY <2>1, <3>1, ReceiveEvidence DEF Frame
    <3>2. CASE pc'[p] # "secondary"
      BY <2>1, <3>2 DEF Frame, Evidence
    <3> QED BY <3>1, <3>2
  <2> QED BY <2>1, <2>2 DEF Frame, EvidenceInv
<1>2. ASSUME NEW p \in Procs, Launch(p) PROVE SomeServer'
  <2>1. UNCHANGED <<serving, inbox, fs, exits>>
    BY <1>2 DEF Launch
  <2>2. \A q \in Procs : pc'[q] = "secondary" => pc[q] = "secondary"
    BY <1>2 DEF Launch, Handshake, TypeOK
  <2> QED BY <2>1, <2>2 DEF EvidenceInv, Evidence, FileEvidence, SomeServer
<1>3. ASSUME NEW q \in Procs, Serve(q) PROVE SomeServer'
  <2>1. serving[q] # "none" /\ serving' = serving
    BY <1>3 DEF Serve, ServeUnix, ServeFile, ServeShm
  <2> QED BY <2>1 DEF SomeServer
<1>4. ASSUME NEW p \in Procs, Exit(p) PROVE FALSE
  <2>1. exits \in Nat
    BY ConfigAssumption DEF TypeOK
  <2> QED BY <1>4, <2>1 DEF Exit
<1> QED BY <1>1, <1>2, <1>3, <1>4 DEF Next

\* Whatever the configuration, the number of processes and the races at
\* start-up: as long as nobody has exited, Ok(false) is only returned when
\* some process has a server.
THEOREM SecondaryHasServerAlways == Spec => []SecondaryHasServer
<1>1. Init => EvidenceInv
  BY DEF Init, EvidenceInv, Evidence, FileEvidence
<1>2. TypeOK /\ EvidenceInv /\ [Next]_vars => EvidenceInv'
  <2> SUFFICES ASSUME TypeOK, EvidenceInv, [Next]_vars PROVE EvidenceInv'
    OBVIOUS
  <2>1. CASE Next
    BY <2>1, EvidenceStep
  <2>2. CASE UNCHANGED vars
    BY <2>2 DEF vars, EvidenceInv, Evidence, FileEvidence, SomeServer
  <2> QED BY <2>1, <2>2
<1>3. EvidenceInv => SecondaryHasServer
  BY DEF EvidenceInv, Evidence, SecondaryHasServer
<1> QED BY <1>1, <1>2, <1>3, TypeCorrect, PTL DEF Spec

-----------------------------------------------------------------------------
(* Unix sockets without fallback: the one configuration in which the races *)
(* at start-up cannot produce two primaries.                               *)

UnixOnly == InitialProtocols = {"UnixSocket"} /\ Fallbacks = << >>

UnixLabels == {"idle", "exited", "connect", "send", "receive", "clean_sock",
               "clean_sock_probe", "clean_sock_unlink", "start", "listen",
               "write_pid", "next_fallback", "primary", "secondary", "failed"}

\* Only the Unix part of the control flow is reachable.
UnixControl ==
  /\ initial = "UnixSocket"
  /\ \A p \in Procs :
       /\ fb[p] = 0 /\ site[p] = "fast" /\ ~retried[p]
       /\ pc[p] \in UnixLabels

\* The steps of enforce_single_instance, as they are in that part.
UnixMove(p) ==
  /\ UNCHANGED <<initial, fb, site, retried, exits>>
  /\ ~early' => ~early /\ (pc[p] = "clean_sock_probe" => ~BoundNotListening)
  /\ \/ /\ pc[p] = "connect" /\ Connectable("UnixSocket") /\ Goto(p, "send")
        /\ UNCHANGED <<inbox, fs, serving, met>>
     \/ /\ pc[p] \in {"connect", "receive"} /\ HangUp(p) /\ Goto(p, "clean_sock")
        /\ UNCHANGED <<fs, serving, met>>
     \/ /\ pc[p] = "send" /\ Goto(p, "receive")
        /\ UNCHANGED <<inbox, fs, serving, met>>
     \/ /\ pc[p] = "receive" /\ inbox[p] /\ HangUp(p) /\ Goto(p, "secondary")
        /\ UNCHANGED <<fs, serving, met>>
     \/ /\ pc[p] = "clean_sock"
        /\ Goto(p, "start") \/ (fs.sock # NoProc /\ Goto(p, "clean_sock_probe"))
        /\ UNCHANGED <<inbox, fs, serving, met>>
     \/ /\ pc[p] = "clean_sock_probe"
        /\ \/ Connectable("UnixSocket") /\ Goto(p, "start")
           \/ ~Connectable("UnixSocket") /\ Goto(p, "clean_sock_unlink")
        /\ UNCHANGED <<inbox, fs, serving, met>>
     \/ /\ pc[p] = "clean_sock_unlink" /\ Goto(p, "start")
        /\ fs' = [fs EXCEPT !.sock = NoProc]
        /\ UNCHANGED <<inbox, serving, met>>
     \/ /\ pc[p] = "start" /\ fs.sock = NoProc /\ Goto(p, "listen")
        /\ fs' = [fs EXCEPT !.sock = p]
        /\ UNCHANGED <<inbox, serving, met>>
     \/ /\ pc[p] = "listen" /\ Goto(p, "write_pid")
        /\ serving' = [serving EXCEPT ![p] = "UnixSocket"]
        /\ met' = [q \in Procs |-> met[q] \/ pc[q] \in Enforcing]
        /\ UNCHANGED <<inbox, fs>>
     \/ /\ pc[p] = "start" /\ Goto(p, "next_fallback")
        /\ UNCHANGED <<inbox, fs, serving, met>>
     \/ /\ pc[p] = "write_pid" /\ Goto(p, "primary")
        /\ fs' = [fs EXCEPT !.pid = p]
        /\ UNCHANGED <<inbox, serving, met>>
     \/ /\ pc[p] = "next_fallback" /\ Goto(p, "failed")
        /\ UNCHANGED <<inbox, fs, serving, met>>

LEMMA UnixStep ==
  ASSUME UnixOnly, TypeOK, UnixControl, NEW p \in Procs, Step(p)
  PROVE  UnixMove(p)
<1>1. Protocol(p) = "UnixSocket" /\ site[p] = "fast" /\ ~retried[p] /\ fb[p] = 0
      /\ initial = "UnixSocket" /\ pc[p] \in UnixLabels
  BY DEF UnixControl, Protocol
<1>2. HandshakeErr(p) => HangUp(p) /\ Goto(p, "clean_sock")
  BY <1>1 DEF HandshakeErr, CleanupEntry
<1>3. HandshakeOk(p) => HangUp(p) /\ Goto(p, "secondary")
  BY <1>1 DEF HandshakeOk, Probes
<1>4. CleanupDone(p) => Goto(p, "start")
  BY <1>1 DEF CleanupDone
<1>5. StartFailed(p) => Goto(p, "next_fallback")
  BY <1>1 DEF StartFailed
<1>6. \A l \in Labels : Goto(p, l) => UNCHANGED <<site, retried>>
  BY DEF Goto
<1>7. UnixLabels \subseteq Labels
  BY DEF UnixLabels, Labels, Enforcing, Returned
<1>8. CASE Connect(p)
  BY <1>1, <1>2, <1>6, <1>7, <1>8 DEF Connect, UnixMove, UnixLabels
<1>9. CASE Send(p)
  BY <1>1, <1>6, <1>7, <1>9 DEF Send, SendFails, UnixMove, UnixLabels
<1>10. CASE Receive(p)
  BY <1>1, <1>3, <1>6, <1>7, <1>10 DEF Receive, Readable, UnixReadable, UnixMove, UnixLabels
<1>11. CASE ReceiveErr(p) \/ HandshakeTimeout(p)
  BY <1>1, <1>2, <1>6, <1>7, <1>11 DEF ReceiveErr, HandshakeTimeout, UnixMove, UnixLabels
<1>12. CASE Cleanup(p)
  <2>1. CleanSock(p) \/ CleanSockProbe(p) \/ CleanSockUnlink(p)
    BY <1>1, <1>12 DEF Cleanup, CleanLock, CleanPid, CleanLockFile, CleanMsgFile,
         CleanPidFile, CleanRespFile,
           CleanShm, CleanShmUnlink, UnixLabels
  <2>2. CASE CleanSock(p)
    BY <1>1, <1>4, <1>6, <1>7, <2>2 DEF CleanSock, UnixMove, UnixLabels
  <2>3. CASE CleanSockProbe(p)
    <3>1. ~early' => ~early /\ ~BoundNotListening
      BY <2>3 DEF CleanSockProbe, TypeOK
    <3> QED BY <1>1, <1>4, <1>6, <1>7, <2>3, <3>1 DEF CleanSockProbe, UnixMove, UnixLabels
  <2>4. CASE CleanSockUnlink(p)
    BY <1>1, <1>4, <1>6, <1>7, <2>4 DEF CleanSockUnlink, UnixMove, UnixLabels
  <2> QED BY <2>1, <2>2, <2>3, <2>4
<1>13. CASE Start(p)
  <2>1. StartUnix(p) \/ ListenUnix(p) \/ WritePid(p)
    BY <1>1, <1>13 DEF Start, StartInMemory, StartFile, FileServe, StartShm,
           ShmUnlink, ShmLock, ShmLockUnlink, ShmCreate, ShmCreateLock, UnixLabels
  <2>2. CASE StartUnix(p)
    BY <1>1, <1>5, <1>6, <1>7, <2>2 DEF StartUnix, UnixMove, UnixLabels
  <2>4. CASE ListenUnix(p)
    BY <1>1, <1>6, <1>7, <2>4 DEF ListenUnix, ServerUp, UnixMove, UnixLabels
  <2>3. CASE WritePid(p)
    BY <1>1, <1>6, <1>7, <2>3 DEF WritePid, UnixMove, UnixLabels
  <2> QED BY <2>1, <2>2, <2>3, <2>4
<1>14. CASE OwnerPid(p) \/ NextFallback(p)
  <2>1. NextFallback(p)
    BY <1>1, <1>14 DEF OwnerPid, UnixLabels
  <2>2. Len(Fallbacks) = 0
    BY DEF UnixOnly
  <2>3. {i \in (fb[p] + 1)..Len(Fallbacks) : Fallbacks[i] # initial} = {}
    BY <1>1, <2>2
  <2> QED BY <1>1, <1>6, <1>7, <2>1, <2>3 DEF NextFallback, UnixMove, UnixLabels
<1> QED BY <1>8, <1>9, <1>10, <1>11, <1>12, <1>13, <1>14 DEF Step

LEMMA UnixControlStep ==
  ASSUME UnixOnly, TypeOK, UnixControl, [Next]_vars
  PROVE  UnixControl'
<1>1. ASSUME NEW p \in Procs, Step(p) PROVE UnixControl'
  <2>1. UnixMove(p)
    BY <1>1, UnixStep
  <2>2. pc' = pc \/ \E l \in UnixLabels : pc' = [pc EXCEPT ![p] = l]
    BY <2>1 DEF UnixMove, Goto, UnixLabels
  <2>3. UNCHANGED <<initial, fb, site, retried>>
    BY <2>1 DEF UnixMove
  <2> QED BY <2>2, <2>3 DEF UnixControl, TypeOK
<1>2. ASSUME NEW p \in Procs, Launch(p) PROVE UnixControl'
  BY <1>2 DEF Launch, Handshake, UnixControl, UnixLabels, TypeOK
<1>3. ASSUME NEW p \in Procs, Serve(p) PROVE UnixControl'
  BY <1>3 DEF Serve, ServeUnix, ServeFile, ServeShm, UnixControl
<1>4. ASSUME NEW p \in Procs, Exit(p) PROVE UnixControl'
  BY <1>4 DEF Exit, Goto, UnixControl, UnixLabels, TypeOK
<1>5. CASE UNCHANGED vars
  BY <1>5 DEF vars, UnixControl
<1> QED BY <1>1, <1>2, <1>3, <1>4, <1>5 DEF Next

LEMMA UnixInit ==
  ASSUME UnixOnly, Init
  PROVE  UnixControl
BY DEF UnixOnly, Init, UnixControl, UnixLabels

\* While nobody has exited and no cleanup has knocked too early: the socket
\* path is bound exactly by the live server, or by the one about to listen, so
\* a probe succeeds and the cleanup never unlinks it.
Exclusive ==
  /\ \A p \in Procs :
       /\ serving[p] # "none" \/ pc[p] = "listen" => fs.sock = p
       /\ serving[p] \in {"none", "UnixSocket"}
       /\ pc[p] = "clean_sock_probe" => fs.sock # NoProc
       /\ pc[p] # "clean_sock_unlink"
  /\ fs.sock # NoProc => serving[fs.sock] = "UnixSocket" \/ pc[fs.sock] = "listen"

ExclusiveInv == exits = 0 /\ ~early => Exclusive

LEMMA ExclusiveMove ==
  ASSUME TypeOK, UnixControl, Exclusive, NEW p \in Procs, UnixMove(p), ~early'
  PROVE  Exclusive'
<1>1. NoProc \notin Procs
  BY NoProcAssumption
<1>2. Connectable("UnixSocket") <=> fs.sock # NoProc /\ serving[fs.sock] = "UnixSocket"
  BY DEF Connectable, UnixListening
<1>3. CASE /\ pc[p] = "start" /\ fs.sock = NoProc /\ Goto(p, "listen")
           /\ fs' = [fs EXCEPT !.sock = p] /\ serving' = serving
  BY <1>1, <1>3 DEF Exclusive, TypeOK, Files, Goto
<1>6. CASE /\ pc[p] = "listen" /\ Goto(p, "write_pid") /\ fs' = fs
           /\ serving' = [serving EXCEPT ![p] = "UnixSocket"]
  BY <1>1, <1>6 DEF Exclusive, TypeOK, Files, Goto
<1>4. CASE /\ pc[p] # "listen" /\ fs'.sock = fs.sock /\ serving' = serving
           /\ \E l \in UnixLabels \ {"clean_sock_probe", "clean_sock_unlink", "listen"} :
                Goto(p, l)
  BY <1>1, <1>4 DEF Exclusive, TypeOK, Files, Goto
<1>5. CASE /\ pc[p] # "listen" /\ fs' = fs /\ serving' = serving
           /\ fs.sock # NoProc /\ Goto(p, "clean_sock_probe")
  BY <1>1, <1>5 DEF Exclusive, TypeOK, Files, Goto
<1> QED
  <2>1. pc[p] # "clean_sock_unlink"
    BY DEF Exclusive
  <2>2. pc[p] = "clean_sock_probe" => Connectable("UnixSocket")
    BY <1>2 DEF Exclusive, UnixMove, BoundNotListening
  <2>3. [fs EXCEPT !.pid = p].sock = fs.sock
    BY DEF TypeOK, Files
  <2> QED BY <1>3, <1>4, <1>5, <1>6, <2>1, <2>2, <2>3 DEF UnixMove, UnixLabels

LEMMA ExclusiveStep ==
  ASSUME UnixOnly, TypeOK, UnixControl, ExclusiveInv, [Next]_vars
  PROVE  ExclusiveInv'
<1> SUFFICES ASSUME exits' = 0, ~early' PROVE Exclusive'
  BY DEF ExclusiveInv
<1>1. ASSUME NEW p \in Procs, Step(p) PROVE Exclusive'
  <2>1. UnixMove(p)
    BY <1>1, UnixStep
  <2>2. Exclusive
    BY <2>1 DEF UnixMove, ExclusiveInv
  <2> QED BY <2>1, <2>2, ExclusiveMove
<1>2. ASSUME NEW p \in Procs, Launch(p) PROVE Exclusive'
  BY <1>2 DEF Launch, Handshake, Exclusive, ExclusiveInv, TypeOK
<1>3. ASSUME NEW q \in Procs, Serve(q) PROVE Exclusive'
  <2>1. Exclusive /\ UNCHANGED <<pc, serving>>
    BY <1>3 DEF Serve, ServeUnix, ServeFile, ServeShm, ExclusiveInv
  <2>2. fs'.sock = fs.sock
    BY <1>3 DEF Serve, ServeUnix, ServeFile, ServeShm, TypeOK, Files
  <2> QED BY <2>1, <2>2 DEF Exclusive
<1>4. ASSUME NEW p \in Procs, Exit(p) PROVE FALSE
  <2>1. exits \in Nat
    BY ConfigAssumption DEF TypeOK
  <2> QED BY <1>4, <2>1 DEF Exit
<1>5. CASE UNCHANGED vars
  BY <1>5 DEF vars, ExclusiveInv, Exclusive
<1> QED BY <1>1, <1>2, <1>3, <1>4, <1>5 DEF Next

\* Over Unix sockets without fallback, any number of processes started at
\* any speed: until one of them exits, or a cleanup knocks between a bind and
\* its listen (unix_socket.rs:226), there is at most one primary and its
\* socket path stays bound to it.
THEOREM UnixBindDecides ==
  ASSUME UnixOnly
  PROVE  Spec => []BindDecides
<1>1. Init => UnixControl /\ ExclusiveInv
  <2>1. Init => Exclusive
    BY DEF Init, Exclusive
  <2> QED BY <2>1, UnixInit DEF ExclusiveInv
<1>2. TypeOK /\ UnixControl /\ ExclusiveInv /\ [Next]_vars => (UnixControl /\ ExclusiveInv)'
  BY UnixControlStep, ExclusiveStep
<1>3. TypeOK /\ UnixControl /\ ExclusiveInv => BindDecides
  <2> SUFFICES ASSUME TypeOK, Exclusive PROVE AtMostOnePrimary /\ EndpointKept
    BY DEF ExclusiveInv, BindDecides
  <2>1. EndpointKept
    BY DEF Exclusive, EndpointKept
  <2>2. \A p \in Procs : pc[p] = "primary" => serving[p] # "none"
    BY DEF TypeOK
  <2>3. AtMostOnePrimary
    BY <2>2 DEF Exclusive, AtMostOnePrimary
  <2> QED BY <2>1, <2>3
<1> QED BY <1>1, <1>2, <1>3, TypeCorrect, PTL DEF Spec

\* The history variable met, and what depends on it: a stream, and a message
\* in it, come from a server that was live while p was enforcing.
MetInv ==
  \A p \in Procs :
    /\ pc[p] \in Enforcing /\ SomeServer => met[p]
    /\ inbox[p] => met[p]
    /\ pc[p] = "secondary" => met[p]

LEMMA MetStep ==
  ASSUME UnixOnly, TypeOK, UnixControl, MetInv, [Next]_vars
  PROVE  MetInv'
<1>1. {"connect", "send", "receive", "clean_sock", "clean_sock_probe",
       "clean_sock_unlink", "start", "listen", "write_pid", "next_fallback"} \subseteq Enforcing
  BY DEF Enforcing
<1>2. {"idle", "exited", "primary", "secondary", "failed"} \cap Enforcing = {}
  BY DEF Enforcing
<1>3. ASSUME NEW p \in Procs, Step(p) PROVE MetInv'
  <2>1. UnixMove(p)
    BY <1>3, UnixStep
  <2>2. \A c \in Procs : inbox'[c] => inbox[c]
    BY <1>3, HandshakeFrame, CleanupFrame, StartFrame, RestFrame DEF Step, Frame
  <2>3. CASE /\ serving' = [serving EXCEPT ![p] = "UnixSocket"]
             /\ pc[p] = "listen" /\ Goto(p, "write_pid")
             /\ met' = [q \in Procs |-> met[q] \/ pc[q] \in Enforcing]
    BY <1>1, <2>2, <2>3 DEF MetInv, Goto, TypeOK
  <2>4. CASE /\ UNCHANGED <<serving, met>> /\ pc[p] \in Enforcing
             /\ \E l \in Labels \ {"secondary"} : Goto(p, l)
    BY <2>2, <2>4 DEF MetInv, Goto, SomeServer, TypeOK
  <2>5. CASE UNCHANGED <<serving, met>> /\ inbox[p] /\ Goto(p, "secondary")
    BY <1>2, <2>2, <2>5 DEF MetInv, Goto, SomeServer, TypeOK
  <2>6. {"send", "clean_sock", "receive", "start", "listen", "clean_sock_probe",
         "clean_sock_unlink", "write_pid", "next_fallback", "primary", "failed"}
            \subseteq Labels \ {"secondary"}
    BY DEF Labels, Enforcing, Returned
  <2> QED BY <1>1, <2>1, <2>3, <2>4, <2>5, <2>6 DEF UnixMove
<1>4. ASSUME NEW p \in Procs, Launch(p) PROVE MetInv'
  <2>1. pc[p] = "idle" /\ ~inbox[p] /\ UNCHANGED <<serving, inbox>>
    BY <1>4, NoProcAssumption DEF Launch, TypeOK
  <2>2. pc' = [pc EXCEPT ![p] = "connect"] /\ met' = [met EXCEPT ![p] = SomeServer]
    BY <1>4 DEF Launch, Handshake
  <2>3. SomeServer' <=> SomeServer
    BY <2>1 DEF SomeServer
  <2> QED BY <2>1, <2>2, <2>3 DEF MetInv, TypeOK
<1>5. ASSUME NEW q \in Procs, Serve(q) PROVE MetInv'
  <2>1. UNCHANGED <<pc, serving, met>> /\ serving[q] # "none"
    BY <1>5 DEF Serve, ServeUnix, ServeFile, ServeShm
  <2>2. SomeServer /\ SomeServer'
    BY <2>1 DEF SomeServer
  <2>3. \A c \in Procs : inbox'[c] => inbox[c] \/ conn[c] = q
    BY <1>5 DEF Serve, ServeUnix, ServeFile, ServeShm
  <2>4. \A c \in Procs : conn[c] = q => pc[c] \in Enforcing
    BY <1>1, NoProcAssumption DEF TypeOK
  <2> QED BY <2>1, <2>2, <2>3, <2>4 DEF MetInv
<1>6. ASSUME NEW p \in Procs, Exit(p) PROVE MetInv'
  <2>1. \A c \in Procs : inbox'[c] => inbox[c]
    BY <1>6, HangUpInbox DEF Exit
  <2>2. met' = met /\ pc' = [pc EXCEPT ![p] = "exited"]
    BY <1>6 DEF Exit, Goto
  <2>3. SomeServer' => SomeServer
    BY <1>6 DEF Exit, SomeServer, TypeOK
  <2> QED BY <1>2, <2>1, <2>2, <2>3 DEF MetInv, TypeOK
<1>7. CASE UNCHANGED vars
  BY <1>7 DEF vars, MetInv, SomeServer
<1> QED BY <1>3, <1>4, <1>5, <1>6, <1>7 DEF Next

\* Over Unix sockets without fallback, with any number of exits and any
\* speed of the servers: Ok(false) means that a server was really there.
THEOREM UnixSecondaryMetServer ==
  ASSUME UnixOnly
  PROVE  Spec => []SecondaryMetServer
<1>1. Init => UnixControl /\ MetInv
  <2>1. Init => MetInv
    BY DEF Init, MetInv, SomeServer, Enforcing
  <2> QED BY <2>1, UnixInit
<1>2. TypeOK /\ UnixControl /\ MetInv /\ [Next]_vars => (UnixControl /\ MetInv)'
  BY UnixControlStep, MetStep
<1>3. MetInv => SecondaryMetServer
  BY DEF MetInv, SecondaryMetServer
<1> QED BY <1>1, <1>2, <1>3, TypeCorrect, PTL DEF Spec

-----------------------------------------------------------------------------
(* Launches that do not overlap.  With any fallback list and any number of  *)
(* exits, what one process leaves behind neither keeps the next one from    *)
(* starting nor makes it start beside a server.                             *)

\* One process enforces at a time, servers answer before the timeout, and the
\* cleanup looks for the socket where it is.
SerialOnly ==
  /\ Serialized /\ Prompt
  /\ SockInTempDir \/ "UnixSocket" \notin InitialProtocols
  /\ "InMemory" \notin InitialProtocols

InHandshake(p) == pc[p] \in {"connect", "send", "receive"}

\* p has looked for a server and has not found one.
Past(p) ==
  /\ pc[p] \in Enforcing \ {"write_pid"}
  /\ ~(InHandshake(p) /\ site[p] = "fast")

\* The places between the handshake and a server that is up.
PathOf(protocol) ==
  CASE protocol = "UnixSocket" -> {"clean_sock", "clean_sock_probe", "clean_sock_unlink",
                                   "start", "listen"}
    [] protocol = "FileBased" -> {"clean_lock", "clean_pid", "clean_lockfile", "clean_msgfile", "clean_pidfile", "clean_respfile",
                                  "start", "file_serve"}
    [] protocol = "SharedMemory" -> {"clean_shm", "clean_shm_unlink", "start", "shm_lock",
                                     "shm_lock_unlink", "shm_create", "shm_create_lock"}

\* No start fails: there is no second attempt and no fallback.
ControlOf(p) ==
  /\ fb[p] = 0 /\ ~retried[p]
  /\ pc[p] \in {"idle", "exited", "connect", "send", "receive", "write_pid",
                "primary", "secondary"} \cup PathOf(initial)
  /\ InHandshake(p) => site[p] = "fast" \/ (site[p] = "lock_probe" /\ initial = "FileBased")

SerialControl ==
  /\ initial \in {"UnixSocket", "FileBased", "SharedMemory"}
  /\ initial = "UnixSocket" => SockInTempDir
  /\ \A p \in Procs : ControlOf(p)

Alone == \A p, q \in Procs : pc[p] \in Enforcing /\ pc[q] \in Enforcing => p = q

\* The one server has its endpoint, and whoever is beside it has not looked for
\* it yet or has found it.
ServerInv ==
  /\ \A p, q \in Procs : serving[p] # "none" /\ serving[q] # "none" => p = q
  /\ \A p \in Procs : serving[p] # "none" =>
       /\ serving[p] = initial
       /\ initial = "UnixSocket" => fs.sock = p
       /\ initial = "FileBased" => fs.lock
       /\ initial = "SharedMemory" => fs.shm # "absent"
  /\ \A p \in Procs : Past(p) => ~SomeServer

\* The server has the request, or has answered it.
AnswerInv ==
  \A p, q \in Procs : serving[q] # "none" =>
    /\ initial = "UnixSocket" /\ pc[p] \in {"send", "receive"} => conn[p] = q
    /\ initial = "FileBased" /\ pc[p] = "receive" => fs.msg \/ fs.out \/ fs.resp
    /\ initial = "SharedMemory" /\ pc[p] = "receive" =>
         fs.shm \in {"request", "response"} \/ fs.bcast

\* What earlier servers left does not keep p from starting.
StaleOf(p) ==
  /\ initial = "UnixSocket" =>
       /\ pc[p] = "start" => fs.sock = NoProc
       /\ pc[p] = "listen" => fs.sock = p
  /\ initial = "FileBased" =>
       /\ pc[p] = "clean_lock" /\ fs.lock => ~fs.out /\ ~fs.resp
       /\ InHandshake(p) /\ site[p] = "lock_probe" => fs.lock /\ ~fs.out /\ ~fs.resp
       /\ pc[p] \in {"clean_msgfile", "clean_pidfile", "clean_respfile", "start"} => ~fs.lock
       /\ pc[p] = "file_serve" => fs.lock
  /\ initial = "SharedMemory" =>
       /\ pc[p] = "start" => fs.shm = "absent"
       /\ pc[p] = "shm_lock_unlink" => fs.lock
       /\ pc[p] = "shm_create_lock" => fs.shm # "absent"

StaleInv == \A p \in Procs : StaleOf(p)

\* The pid file names the primary, or one that was.
PidInv ==
  /\ fs.pid = NoProc \/ pc[fs.pid] \in {"primary", "exited"}
  /\ \A p \in Procs : pc[p] = "primary" => fs.pid = p

SerialInv == SerialControl /\ Alone /\ ServerInv /\ AnswerInv /\ StaleInv /\ PidInv

\* The places by what is asked about them below.
LEMMA SerialPlaces ==
  ASSUME SerialControl, NEW p \in Procs
  PROVE  /\ fb[p] = 0 /\ ~retried[p] /\ Protocol(p) = initial
         /\ pc[p] \in Enforcing => InHandshake(p) \/ pc[p] = "write_pid" \/ pc[p] \in PathOf(initial)
         /\ PathOf(initial) \subseteq Enforcing \ {"write_pid", "connect", "send", "receive"}
<1>1. initial \in {"UnixSocket", "FileBased", "SharedMemory"} /\ ControlOf(p)
  BY DEF SerialControl
<1>2. PathOf(initial) \subseteq Enforcing \ {"write_pid", "connect", "send", "receive"}
  BY <1>1 DEF PathOf, Enforcing
<1>3. {"idle", "exited", "primary", "secondary"} \cap Enforcing = {}
  BY DEF Enforcing
<1> QED BY <1>1, <1>2, <1>3 DEF ControlOf, Protocol, InHandshake

\* Nobody else is on its way.
LEMMA SerialOthers ==
  ASSUME Alone, NEW p \in Procs, pc[p] \in Enforcing
  PROVE  \A q \in Procs : q # p => pc[q] \notin Enforcing
BY DEF Alone

\* A step of p, on its way and without a server, that leaves it on its way.
LEMMA OnTheWay ==
  ASSUME TypeOK, SerialInv, NEW p \in Procs, pc[p] \in Enforcing, ~SomeServer,
         NEW l \in Enforcing \ {"write_pid"}, pc' = [pc EXCEPT ![p] = l],
         UNCHANGED <<initial, fb, retried, serving>>,
         \A q \in Procs : q # p => site'[q] = site[q],
         fs'.pid \in {fs.pid, NoProc},
         ControlOf(p)', StaleOf(p)'
  PROVE  SerialInv'
<1>1. /\ pc'[p] = l /\ pc[p] \in Enforcing
      /\ \A q \in Procs : q # p => pc'[q] = pc[q] /\ pc[q] \notin Enforcing
  BY SerialOthers DEF SerialInv, TypeOK
<1>2. \A q \in Procs : serving[q] = "none" /\ serving'[q] = "none"
  BY DEF SomeServer
<1>3. {"primary", "exited", "write_pid"} \cap (Enforcing \ {"write_pid"}) = {}
  BY DEF Enforcing
<1>4. SerialControl'
  <2>1. \A q \in Procs : q # p => ControlOf(q)'
    BY <1>1 DEF SerialInv, SerialControl, ControlOf, InHandshake
  <2> QED BY <2>1 DEF SerialInv, SerialControl
<1>5. Alone'
  BY <1>1 DEF Alone
<1>6. ServerInv' /\ AnswerInv'
  BY <1>2 DEF ServerInv, AnswerInv, SomeServer
<1>7. StaleInv'
  <2>1. {"start", "clean_lock", "connect", "send", "receive", "clean_msgfile", "clean_pidfile", "clean_respfile", "file_serve",
          "listen", "shm_create_lock", "shm_lock_unlink"}
          \subseteq Enforcing
    BY DEF Enforcing
  <2>2. \A q \in Procs : q # p => StaleOf(q)'
    BY <1>1, <2>1 DEF StaleOf, InHandshake
  <2> QED BY <2>2 DEF StaleInv
<1>8. PidInv'
  <2>1. fs.pid = NoProc \/ fs.pid \in Procs
    BY DEF TypeOK, Files
  <2>2. \A q \in Procs : pc[q] # "primary"
    BY <1>2 DEF TypeOK
  <2>3. \A q \in Procs : pc'[q] # "primary"
    BY <1>1, <1>3, <2>2
  <2>4. pc[p] \notin {"primary", "exited"}
    BY DEF Enforcing
  <2> QED BY <1>1, <2>1, <2>3, <2>4 DEF PidInv, SerialInv
<1> QED BY <1>4, <1>5, <1>6, <1>7, <1>8 DEF SerialInv

\* A server comes up where there is none, at its place.
LEMMA SerialUp ==
  ASSUME TypeOK, SerialInv, NEW p \in Procs, pc[p] \in Enforcing, ~SomeServer,
         pc' = [pc EXCEPT ![p] = "write_pid"],
         UNCHANGED <<initial, fb, retried, site>>,
         serving' = [serving EXCEPT ![p] = initial],
         fs'.pid = fs.pid,
         initial = "UnixSocket" => fs'.sock = p,
         initial = "FileBased" => fs'.lock,
         initial = "SharedMemory" => fs'.shm # "absent"
  PROVE  SerialInv'
<1>1. /\ pc'[p] = "write_pid" /\ pc[p] \in Enforcing
      /\ \A q \in Procs : q # p => pc'[q] = pc[q] /\ pc[q] \notin Enforcing
  BY SerialOthers DEF SerialInv, TypeOK
<1>2. /\ serving'[p] = initial
      /\ \A q \in Procs : q # p => serving'[q] = "none"
  BY DEF SomeServer, TypeOK
<1>3. /\ {"primary", "exited"} \cap Enforcing = {}
      /\ {"start", "clean_lock", "connect", "send", "receive", "clean_msgfile", "clean_pidfile", "clean_respfile", "file_serve",
          "listen", "shm_create_lock", "shm_lock_unlink"}
          \subseteq Enforcing \ {"write_pid"}
  BY DEF Enforcing
<1>4. SerialControl'
  <2>1. \A q \in Procs : q # p => ControlOf(q)'
    BY <1>1 DEF SerialInv, SerialControl, ControlOf, InHandshake
  <2>2. ControlOf(p)'
    BY <1>1 DEF SerialInv, SerialControl, ControlOf, InHandshake
  <2> QED BY <2>1, <2>2 DEF SerialInv, SerialControl
<1>5. Alone'
  BY <1>1 DEF Alone
<1>6. \A q \in Procs : ~Past(q)' /\ ~InHandshake(q)'
  BY <1>1, <1>3 DEF Past, InHandshake
<1>7. ServerInv'
  BY <1>2, <1>6 DEF ServerInv
<1>8. AnswerInv'
  BY <1>6 DEF AnswerInv, InHandshake
<1>9. StaleInv'
  BY <1>1, <1>3, <1>6 DEF StaleInv, StaleOf
<1>10. PidInv'
  <2>1. fs.pid = NoProc \/ fs.pid \in Procs
    BY DEF TypeOK, Files
  <2>2. \A q \in Procs : pc[q] # "primary"
    BY DEF TypeOK, SomeServer
  <2>3. \A q \in Procs : pc'[q] # "primary"
    BY <1>1, <2>2
  <2> QED BY <1>1, <1>3, <2>1, <2>3 DEF PidInv, SerialInv
<1> QED BY <1>4, <1>5, <1>7, <1>8, <1>9, <1>10 DEF SerialInv

\* A step of p in its first handshake, that may find a server.
LEMMA InFast ==
  ASSUME TypeOK, SerialInv, NEW p \in Procs, InHandshake(p), site[p] = "fast",
         NEW l \in {"send", "receive", "secondary"}, pc' = [pc EXCEPT ![p] = l],
         UNCHANGED <<initial, fb, retried, serving, site>>,
         fs'.pid = fs.pid, fs'.sock = fs.sock, fs'.lock = fs.lock,
         fs.shm # "absent" => fs'.shm # "absent",
         \A q \in Procs : serving[q] # "none" =>
           /\ initial = "UnixSocket" /\ l \in {"send", "receive"} => conn'[p] = q
           /\ initial = "FileBased" /\ l = "receive" => fs'.msg \/ fs'.out \/ fs'.resp
           /\ initial = "SharedMemory" /\ l = "receive" =>
                fs'.shm \in {"request", "response"} \/ fs'.bcast
  PROVE  SerialInv'
<1>0. pc[p] \in Enforcing
  BY DEF InHandshake, Enforcing
<1>1. /\ pc'[p] = l
      /\ \A q \in Procs : q # p => pc'[q] = pc[q] /\ pc[q] \notin Enforcing
  BY <1>0, SerialOthers DEF SerialInv, TypeOK
<1>2. /\ {"primary", "exited", "secondary"} \cap Enforcing = {}
      /\ {"start", "clean_lock", "connect", "send", "receive", "clean_msgfile", "clean_pidfile", "clean_respfile", "file_serve",
          "listen", "shm_create_lock", "shm_lock_unlink"}
          \subseteq Enforcing \ {"write_pid"}
  BY DEF Enforcing
<1>3. SerialControl'
  <2>1. \A q \in Procs : q # p => ControlOf(q)'
    BY <1>1 DEF SerialInv, SerialControl, ControlOf, InHandshake
  <2>2. ControlOf(p)'
    BY <1>1 DEF SerialInv, SerialControl, ControlOf, InHandshake
  <2> QED BY <2>1, <2>2 DEF SerialInv, SerialControl
<1>4. Alone'
  BY <1>1 DEF Alone
<1>5. ServerInv'
  <2>1. \A q \in Procs : ~Past(q)'
    BY <1>1, <1>2 DEF Past, InHandshake
  <2> QED BY <2>1 DEF SerialInv, ServerInv
<1>6. AnswerInv'
  <2>1. \A q \in Procs : q # p => pc'[q] \notin {"send", "receive"}
    BY <1>1, <1>2
  <2> QED BY <1>1, <2>1 DEF AnswerInv
<1>7. StaleInv'
  <2>1. \A q \in Procs : q # p => StaleOf(q)'
    BY <1>1, <1>2 DEF StaleOf, InHandshake
  <2>2. StaleOf(p)'
    BY <1>1 DEF StaleOf, InHandshake
  <2> QED BY <2>1, <2>2 DEF StaleInv
<1>8. PidInv'
  <2>1. fs.pid = NoProc \/ fs.pid \in Procs
    BY DEF TypeOK, Files
  <2>2. pc'[p] # "primary" /\ fs.pid # p
    BY <1>0, <1>1, <1>2, NoProcAssumption DEF PidInv, SerialInv
  <2> QED BY <1>1, <2>1, <2>2 DEF PidInv, SerialInv
<1> QED BY <1>3, <1>4, <1>5, <1>6, <1>7, <1>8 DEF SerialInv

\* A handshake that fails because there is no server.
LEMMA SerialErr ==
  ASSUME TypeOK, SerialInv, NEW p \in Procs, InHandshake(p), ~SomeServer,
         HandshakeErr(p), UNCHANGED <<initial, fb, serving, fs>>,
         initial = "FileBased" /\ fs.lock => ~fs.out /\ ~fs.resp
  PROVE  SerialInv'
<1>0. /\ pc[p] \in Enforcing /\ initial \in {"UnixSocket", "FileBased", "SharedMemory"}
      /\ fb[p] = 0 /\ ~retried[p] /\ pc \in [Procs -> Labels]
      /\ site[p] = "fast" \/ (site[p] = "lock_probe" /\ initial = "FileBased")
  BY DEF InHandshake, Enforcing, SerialInv, SerialControl, ControlOf, TypeOK
<1>1. CASE site[p] = "fast"
  <2>1. PICK l : /\ l = CleanupEntry(initial) /\ pc' = [pc EXCEPT ![p] = l]
                 /\ UNCHANGED <<site, retried>>
    BY <1>1 DEF HandshakeErr, Goto
  <2>2. l = IF initial = "UnixSocket" THEN "clean_sock"
            ELSE IF initial = "FileBased" THEN "clean_lock" ELSE "clean_shm"
    BY <1>0, <2>1 DEF CleanupEntry
  <2>3. l \in Enforcing \ {"write_pid"} /\ pc'[p] = l
    BY <1>0, <2>1, <2>2 DEF Enforcing
  <2>4. ControlOf(p)'
    BY <1>0, <2>1, <2>2, <2>3 DEF ControlOf, InHandshake, PathOf
  <2>5. StaleOf(p)'
    BY <1>0, <2>1, <2>2, <2>3 DEF StaleOf, InHandshake
  <2> QED BY <1>0, <2>1, <2>3, <2>4, <2>5, OnTheWay
<1>2. CASE site[p] = "lock_probe" /\ initial = "FileBased"
  <2>1. pc' = [pc EXCEPT ![p] = "clean_pid"] /\ UNCHANGED <<site, retried>>
    BY <1>2 DEF HandshakeErr, Goto
  <2>2. "clean_pid" \in Enforcing \ {"write_pid"} /\ pc'[p] = "clean_pid"
    BY <1>0, <2>1 DEF Enforcing
  <2>3. ControlOf(p)'
    BY <1>0, <1>2, <2>1, <2>2 DEF ControlOf, InHandshake, PathOf
  <2>4. StaleOf(p)'
    BY <1>2, <2>1, <2>2 DEF StaleOf, InHandshake
  <2> QED BY <1>0, <2>1, <2>2, <2>3, <2>4, OnTheWay
<1> QED BY <1>0, <1>1, <1>2

LEMMA SerialConnect ==
  ASSUME TypeOK, SerialInv, NEW p \in Procs, Connect(p)
  PROVE  SerialInv'
<1>0. /\ pc[p] = "connect" /\ Protocol(p) = initial /\ InHandshake(p)
      /\ UNCHANGED <<initial, fb, serving, fs>> /\ pc \in [Procs -> Labels]
      /\ initial \in {"UnixSocket", "FileBased", "SharedMemory"} /\ ControlOf(p) /\ StaleOf(p)
  BY SerialPlaces DEF Connect, InHandshake, SerialInv, SerialControl, StaleInv, TypeOK
<1>1. CASE Connectable(initial)
  <2>1. /\ pc' = [pc EXCEPT ![p] = "send"] /\ UNCHANGED <<site, retried>> /\ pc'[p] = "send"
        /\ conn' = [conn EXCEPT ![p] = IF initial = "UnixSocket" THEN fs.sock ELSE NoProc]
    BY <1>0, <1>1 DEF Connect, Goto
  <2>2. CASE site[p] = "fast"
    <3>1. \A q \in Procs : serving[q] # "none" /\ initial = "UnixSocket" => conn'[p] = q
      BY <2>1 DEF SerialInv, ServerInv, TypeOK
    <3> QED BY <1>0, <2>1, <2>2, <3>1, InFast
  <2>3. CASE site[p] # "fast"
    <3>1. ~SomeServer /\ "send" \in Enforcing \ {"write_pid"} /\ pc[p] \in Enforcing
      BY <1>0, <2>3 DEF SerialInv, ServerInv, Past, Enforcing
    <3>2. ControlOf(p)' /\ StaleOf(p)'
      BY <1>0, <2>1, <2>3 DEF ControlOf, StaleOf, InHandshake
    <3> QED BY <1>0, <2>1, <3>1, <3>2, OnTheWay
  <2> QED BY <2>2, <2>3
<1>2. CASE ~Connectable(initial)
  <2>1. ~SomeServer
    <3>1. ASSUME NEW q \in Procs, serving[q] # "none" PROVE FALSE
      BY <1>0, <1>2, <3>1, NoProcAssumption DEF SerialInv, ServerInv, Connectable,
         UnixListening, FileListening, ShmListening
    <3> QED BY <3>1 DEF SomeServer
  <2>2. HandshakeErr(p)
    BY <1>0, <1>2 DEF Connect
  <2>3. initial = "FileBased" => ~fs.lock
    BY <1>2 DEF Connectable, FileListening
  <2> QED BY <1>0, <2>1, <2>2, <2>3, SerialErr
<1> QED BY <1>1, <1>2

LEMMA SerialSend ==
  ASSUME TypeOK, SerialInv, NEW p \in Procs, Send(p)
  PROVE  SerialInv'
<1>0. /\ pc[p] = "send" /\ Protocol(p) = initial /\ InHandshake(p)
      /\ UNCHANGED <<initial, fb, serving>> /\ pc \in [Procs -> Labels] /\ fs \in Files
      /\ initial \in {"UnixSocket", "FileBased", "SharedMemory"} /\ ControlOf(p) /\ StaleOf(p)
  BY SerialPlaces DEF Send, InHandshake, SerialInv, SerialControl, StaleInv, TypeOK
<1>1. CASE SendFails(p)
  <2>1. initial = "SharedMemory" /\ fs.shm = "absent"
    BY <1>0, <1>1 DEF SendFails
  <2>2. ~SomeServer
    BY <2>1 DEF SomeServer, SerialInv, ServerInv
  <2> QED BY <1>0, <1>1, <2>1, <2>2, SerialErr DEF Send
<1>2. CASE ~SendFails(p)
  <2>1. /\ pc' = [pc EXCEPT ![p] = "receive"] /\ UNCHANGED <<site, retried, conn>>
        /\ pc'[p] = "receive"
        /\ initial = "FileBased" => fs' = [fs EXCEPT !.msg = TRUE]
        /\ initial = "SharedMemory" => fs' = [fs EXCEPT !.shm = "request"]
        /\ initial = "UnixSocket" => fs' = fs
    BY <1>0, <1>2 DEF Send, Goto, FileSend, ShmSend
  <2>2. /\ fs'.pid = fs.pid /\ fs'.sock = fs.sock /\ fs'.lock = fs.lock
        /\ fs'.out = fs.out /\ fs'.resp = fs.resp
        /\ fs.shm # "absent" => fs'.shm # "absent"
        /\ initial = "FileBased" => fs'.msg
        /\ initial = "SharedMemory" => fs'.shm = "request"
    BY <1>0, <2>1 DEF Files
  <2>3. CASE site[p] = "fast"
    <3>1. \A q \in Procs : serving[q] # "none" /\ initial = "UnixSocket" => conn'[p] = q
      BY <1>0, <2>1 DEF SerialInv, AnswerInv
    <3> QED BY <1>0, <2>1, <2>2, <2>3, <3>1, InFast, ZenonT(30)
  <2>4. CASE site[p] # "fast"
    <3>1. ~SomeServer /\ "receive" \in Enforcing \ {"write_pid"} /\ pc[p] \in Enforcing
      BY <1>0, <2>4 DEF SerialInv, ServerInv, Past, Enforcing
    <3>2. ControlOf(p)' /\ StaleOf(p)'
      BY <1>0, <2>1, <2>2, <2>4 DEF ControlOf, StaleOf, InHandshake
    <3> QED BY <1>0, <2>1, <2>2, <3>1, <3>2, OnTheWay
  <2> QED BY <2>3, <2>4
<1> QED BY <1>1, <1>2

\* A server that is there is read from before the timeout, and a probe reads
\* nothing that an earlier server left.
LEMMA SerialReceive ==
  ASSUME SerialOnly, TypeOK, SerialInv, NEW p \in Procs,
         Receive(p) \/ ReceiveErr(p) \/ HandshakeTimeout(p)
  PROVE  SerialInv'
<1>0. /\ pc[p] = "receive" /\ Protocol(p) = initial /\ InHandshake(p)
      /\ UNCHANGED <<initial, fb, serving>> /\ pc \in [Procs -> Labels] /\ fs \in Files
      /\ initial \in {"UnixSocket", "FileBased", "SharedMemory"} /\ ControlOf(p) /\ StaleOf(p)
  BY SerialPlaces DEF Receive, ReceiveErr, HandshakeTimeout, InHandshake, SerialInv,
     SerialControl, StaleInv, TypeOK
<1>1. CASE Receive(p)
  <2>1. site[p] = "fast"
    <3>1. CASE site[p] = "lock_probe" /\ initial = "FileBased"
      BY <1>0, <1>1, <3>1 DEF Receive, Readable, FileReadable, StaleOf
    <3> QED BY <1>0, <3>1 DEF ControlOf
  <2>2. pc' = [pc EXCEPT ![p] = "secondary"] /\ UNCHANGED <<site, retried>>
    BY <1>1, <2>1 DEF Receive, HandshakeOk, Probes, Goto
  <2>3. \/ fs' = fs
        \/ fs' = [fs EXCEPT !.resp = FALSE]
        \/ fs' = [fs EXCEPT !.shm = "idle"]
    BY <1>0, <1>1 DEF Receive, FileTake, ShmTake
  <2>4. /\ fs'.pid = fs.pid /\ fs'.sock = fs.sock /\ fs'.lock = fs.lock
        /\ fs.shm # "absent" => fs'.shm # "absent"
    BY <1>0, <2>3 DEF Files
  <2> QED BY <1>0, <2>1, <2>2, <2>4, InFast
<1>2. CASE ReceiveErr(p) \/ HandshakeTimeout(p)
  <2>1. HandshakeErr(p) /\ fs' = fs
    BY <1>2 DEF ReceiveErr, HandshakeTimeout
  <2>2. ~SomeServer
    <3>1. ASSUME NEW q \in Procs, serving[q] # "none" PROVE FALSE
      <4>1. /\ serving[q] = initial
            /\ initial = "UnixSocket" => conn[p] = q
            /\ initial = "FileBased" => fs.msg \/ fs.out \/ fs.resp
            /\ initial = "SharedMemory" =>
                 fs.shm # "absent" /\ (fs.shm \in {"request", "response"} \/ fs.bcast)
        BY <1>0, <3>1 DEF SerialInv, ServerInv, AnswerInv
      <4>2. CASE ReceiveErr(p)
        BY <1>0, <4>1, <4>2 DEF ReceiveErr
      <4>3. CASE HandshakeTimeout(p)
        <5>1. ~Readable(p) /\ ~Pending(p)
          BY <4>3 DEF HandshakeTimeout, SerialOnly
        <5>2. CASE initial = "UnixSocket"
          BY <1>0, <4>1, <5>1, <5>2 DEF Pending
        <5>3. CASE initial = "FileBased"
          BY <1>0, <4>1, <5>1, <5>3 DEF Pending, Readable, FileReadable
        <5>4. CASE initial = "SharedMemory"
          BY <1>0, <4>1, <5>1, <5>4 DEF Pending, Readable, ShmReadable
        <5> QED BY <1>0, <5>2, <5>3, <5>4
      <4> QED BY <1>2, <4>2, <4>3
    <3> QED BY <3>1 DEF SomeServer
  <2>3. initial = "FileBased" => ~fs.out /\ ~fs.resp
    BY <1>0, <1>2 DEF ReceiveErr, HandshakeTimeout, SerialOnly, Readable, FileReadable
  <2> QED BY <1>0, <2>1, <2>2, <2>3, SerialErr
<1> QED BY <1>1, <1>2

\* What a process that is past its handshake relies on.
LEMMA PastFacts ==
  ASSUME TypeOK, SerialInv, NEW p \in Procs, pc[p] \in Enforcing \ {"write_pid"},
         pc[p] \notin {"connect", "send", "receive"}
  PROVE  /\ ~SomeServer /\ pc[p] \in PathOf(initial) /\ pc[p] \in Enforcing
         /\ fb[p] = 0 /\ ~retried[p] /\ Protocol(p) = initial
         /\ initial \in {"UnixSocket", "FileBased", "SharedMemory"}
         /\ initial = "UnixSocket" => SockInTempDir
         /\ StaleOf(p) /\ ControlOf(p) /\ pc \in [Procs -> Labels] /\ fs \in Files
<1>1. ~SomeServer
  BY DEF SerialInv, ServerInv, Past, InHandshake
<1> QED BY <1>1, SerialPlaces DEF SerialInv, SerialControl, StaleInv, InHandshake, TypeOK

LEMMA SerialCleanup ==
  ASSUME TypeOK, SerialInv, NEW p \in Procs, Cleanup(p)
  PROVE  SerialInv'
<1>1. /\ UNCHANGED <<initial, fb, serving>>
      /\ pc[p] \in {"clean_sock", "clean_sock_probe", "clean_sock_unlink", "clean_lock",
                    "clean_pid", "clean_lockfile", "clean_msgfile", "clean_pidfile", "clean_respfile", "clean_shm",
                    "clean_shm_unlink"}
  BY DEF Cleanup, CleanSock, CleanSockProbe, CleanSockUnlink, CleanLock, CleanPid,
     CleanLockFile, CleanMsgFile,
         CleanPidFile, CleanRespFile, CleanShm, CleanShmUnlink
<1>2. pc[p] \in Enforcing \ {"write_pid"} /\ pc[p] \notin {"connect", "send", "receive"}
  BY <1>1 DEF Enforcing
<1>3. /\ ~SomeServer /\ pc[p] \in PathOf(initial) /\ pc[p] \in Enforcing
      /\ fb[p] = 0 /\ ~retried[p] /\ Protocol(p) = initial
      /\ initial \in {"UnixSocket", "FileBased", "SharedMemory"}
      /\ initial = "UnixSocket" => SockInTempDir
      /\ StaleOf(p) /\ ControlOf(p) /\ pc \in [Procs -> Labels] /\ fs \in Files
  BY <1>2, PastFacts
<1>4. CleanupDone(p) => Goto(p, "start")
  BY <1>3 DEF CleanupDone
<1>5. \A l \in Enforcing \ {"write_pid", "connect", "send", "receive"} :
        Goto(p, l) => /\ pc' = [pc EXCEPT ![p] = l] /\ pc'[p] = l
                      /\ UNCHANGED <<site, retried>>
                      /\ ~InHandshake(p)'
                      /\ l \in Enforcing \ {"write_pid"}
  BY <1>3 DEF Goto, InHandshake
<1>6. {"clean_sock_probe", "clean_sock_unlink", "clean_pid", "clean_lockfile", "clean_msgfile", "clean_pidfile", "clean_respfile",
       "clean_shm_unlink", "start"} \subseteq Enforcing \ {"write_pid", "connect", "send", "receive"}
  BY DEF Enforcing
\* A step to l, that leaves the files as StaleOf wants them.
<1>7. ASSUME NEW l \in PathOf(initial), Goto(p, l),
             l \in Enforcing \ {"write_pid", "connect", "send", "receive"},
             fs'.pid \in {fs.pid, NoProc},
             initial = "UnixSocket" /\ l = "start" => fs'.sock = NoProc,
             initial = "FileBased" /\ l \in {"clean_msgfile", "clean_pidfile", "clean_respfile", "start"} => ~fs'.lock,
             l \notin {"clean_lock", "listen", "file_serve", "shm_lock_unlink", "shm_create_lock"},
             initial = "SharedMemory" /\ l = "start" => fs'.shm = "absent"
      PROVE  SerialInv'
  <2>1. ControlOf(p)' /\ StaleOf(p)'
    BY <1>1, <1>3, <1>5, <1>7 DEF ControlOf, StaleOf
  <2> QED BY <1>1, <1>3, <1>5, <1>7, <2>1, OnTheWay
<1>8. CASE CleanSock(p) \/ CleanSockProbe(p) \/ CleanSockUnlink(p)
  <2>1. initial = "UnixSocket" /\ SockInTempDir
    BY <1>3, <1>8 DEF PathOf, CleanSock, CleanSockProbe, CleanSockUnlink
  <2>2. {"clean_sock_probe", "clean_sock_unlink", "start"} \subseteq PathOf(initial)
    BY <2>1 DEF PathOf
  <2>3. ~Connectable("UnixSocket")
    BY <1>3, NoProcAssumption DEF Connectable, UnixListening, SomeServer, Files
  <2>4. \E l \in {"clean_sock_probe", "clean_sock_unlink", "start"} :
          /\ Goto(p, l) /\ fs'.pid = fs.pid /\ (l = "start" => fs'.sock = NoProc)
    BY <1>3, <1>4, <1>8, <2>1, <2>3 DEF CleanSock, CleanSockProbe, CleanSockUnlink, Files
  <2> QED BY <1>6, <1>7, <2>1, <2>2, <2>4
<1>9. CASE CleanLock(p) /\ fs.lock
  <2>1. /\ pc' = [pc EXCEPT ![p] = "connect"] /\ site' = [site EXCEPT ![p] = "lock_probe"]
        /\ UNCHANGED <<retried, fs>> /\ pc[p] = "clean_lock"
    BY <1>9 DEF CleanLock, Handshake
  <2>2. initial = "FileBased"
    BY <1>3, <2>1 DEF PathOf
  <2>3. pc'[p] = "connect" /\ site'[p] = "lock_probe" /\ "connect" \in Enforcing \ {"write_pid"}
        /\ \A q \in Procs : q # p => site'[q] = site[q]
    BY <1>3, <2>1 DEF Enforcing, TypeOK
  <2>4. ControlOf(p)' /\ StaleOf(p)'
    BY <1>1, <1>3, <1>9, <2>1, <2>2, <2>3 DEF ControlOf, StaleOf, InHandshake
  <2> QED BY <1>1, <1>3, <2>1, <2>3, <2>4, OnTheWay
<1>10. CASE (CleanLock(p) /\ ~fs.lock) \/ CleanPid(p) \/ CleanLockFile(p)
            \/ CleanMsgFile(p) \/ CleanPidFile(p) \/ CleanRespFile(p)
  <2>1. initial = "FileBased"
    BY <1>3, <1>10 DEF PathOf, CleanLock, CleanPid, CleanLockFile, CleanMsgFile, CleanPidFile,
       CleanRespFile
  <2>2. {"clean_pid", "clean_lockfile", "clean_msgfile", "clean_pidfile", "clean_respfile", "start"} \subseteq PathOf(initial)
    BY <2>1 DEF PathOf
  <2>3. ~PidAlive
    <3>1. ASSUME PidAlive PROVE FALSE
      <4>1. fs.pid \in Procs /\ pc[fs.pid] \in {"primary", "exited"} /\ Alive(fs.pid)
        BY <1>3, <3>1 DEF PidAlive, SerialInv, PidInv, Files
      <4>2. pc[fs.pid] = "primary"
        BY <4>1 DEF Alive
      <4> QED BY <1>3, <4>1, <4>2 DEF TypeOK, SomeServer
    <3> QED BY <3>1
  <2>4. \E l \in {"clean_pid", "clean_lockfile", "clean_msgfile", "clean_pidfile", "clean_respfile", "start"} :
          /\ Goto(p, l) /\ fs'.pid \in {fs.pid, NoProc}
          /\ l \in {"clean_msgfile", "clean_pidfile", "clean_respfile", "start"} => ~fs'.lock
    BY <1>3, <1>4, <1>10, <2>1, <2>3 DEF CleanLock, CleanPid, CleanLockFile, CleanMsgFile,
         CleanPidFile, CleanRespFile,
       Files, StaleOf
  <2> QED BY <1>6, <1>7, <2>1, <2>2, <2>4
<1>11. CASE CleanShm(p) \/ CleanShmUnlink(p)
  <2>1. initial = "SharedMemory"
    BY <1>3, <1>11 DEF PathOf, CleanShm, CleanShmUnlink
  <2>2. {"clean_shm_unlink", "start"} \subseteq PathOf(initial)
    BY <2>1 DEF PathOf
  <2>3. \E l \in {"clean_shm_unlink", "start"} :
          /\ Goto(p, l) /\ fs'.pid = fs.pid /\ (l = "start" => fs'.shm = "absent")
    BY <1>3, <1>4, <1>11 DEF CleanShm, CleanShmUnlink, Files
  <2> QED BY <1>6, <1>7, <2>1, <2>2, <2>3
<1> QED BY <1>8, <1>9, <1>10, <1>11 DEF Cleanup

LEMMA SerialWritePid ==
  ASSUME TypeOK, SerialInv, NEW p \in Procs, WritePid(p)
  PROVE  SerialInv'
<1>0. /\ pc[p] = "write_pid" /\ pc' = [pc EXCEPT ![p] = "primary"]
      /\ fs' = [fs EXCEPT !.pid = p] /\ fs \in Files /\ pc \in [Procs -> Labels]
      /\ UNCHANGED <<initial, fb, retried, site, serving, conn>>
      /\ pc[p] \in Enforcing
  BY DEF WritePid, Goto, TypeOK, Enforcing
<1>1. /\ pc'[p] = "primary"
      /\ \A q \in Procs : q # p => pc'[q] = pc[q] /\ pc[q] \notin Enforcing
  BY <1>0, SerialOthers DEF SerialInv
<1>2. /\ fs'.pid = p /\ fs'.sock = fs.sock /\ fs'.lock = fs.lock /\ fs'.shm = fs.shm
      /\ fs'.out = fs.out /\ fs'.resp = fs.resp /\ fs'.msg = fs.msg /\ fs'.bcast = fs.bcast
  BY <1>0 DEF Files
<1>3. /\ {"primary", "exited"} \cap Enforcing = {}
      /\ {"start", "clean_lock", "connect", "send", "receive", "clean_msgfile", "clean_pidfile", "clean_respfile", "file_serve",
          "listen", "shm_create_lock", "shm_lock_unlink"} \subseteq Enforcing
  BY DEF Enforcing
<1>4. \A q \in Procs : ~Past(q)' /\ ~InHandshake(q)'
  BY <1>1, <1>3 DEF Past, InHandshake
<1>5. SerialControl'
  <2>1. \A q \in Procs : ControlOf(q)'
    BY <1>0, <1>1, <1>4 DEF SerialInv, SerialControl, ControlOf
  <2> QED BY <1>0, <2>1 DEF SerialInv, SerialControl
<1>6. Alone'
  BY <1>1, <1>3 DEF Alone
<1>7. ServerInv'
  BY <1>0, <1>2, <1>4 DEF SerialInv, ServerInv
<1>8. AnswerInv'
  BY <1>4 DEF AnswerInv, InHandshake
<1>9. StaleInv'
  BY <1>1, <1>3, <1>4 DEF StaleInv, StaleOf
<1>10. PidInv'
  <2>1. \A q \in Procs : q # p => pc'[q] # "primary"
    <3>1. serving[p] # "none"
      BY <1>0 DEF TypeOK
    <3>2. \A q \in Procs : pc[q] = "primary" => serving[q] # "none"
      BY DEF TypeOK
    <3> QED BY <1>1, <3>1, <3>2 DEF SerialInv, ServerInv
  <2> QED BY <1>1, <1>2, <2>1 DEF PidInv
<1> QED BY <1>5, <1>6, <1>7, <1>8, <1>9, <1>10 DEF SerialInv

LEMMA SerialStart ==
  ASSUME TypeOK, SerialInv, NEW p \in Procs, Start(p)
  PROVE  SerialInv'
<1>1. CASE WritePid(p)
  BY <1>1, SerialWritePid
<1>2. CASE ~WritePid(p)
  <2>1. pc[p] \in {"start", "file_serve", "shm_unlink", "shm_lock", "shm_lock_unlink",
                   "listen", "shm_create", "shm_create_lock"} /\ UNCHANGED <<initial, fb>>
    BY <1>2 DEF Start, StartUnix, ListenUnix, StartInMemory, StartFile, FileServe, StartShm, ShmUnlink,
       ListenUnix, ShmLock, ShmLockUnlink, ShmCreate, ShmCreateLock
  <2>2. pc[p] \in Enforcing \ {"write_pid"} /\ pc[p] \notin {"connect", "send", "receive"}
    BY <2>1 DEF Enforcing
  <2>3. /\ ~SomeServer /\ pc[p] \in PathOf(initial) /\ pc[p] \in Enforcing
        /\ fb[p] = 0 /\ ~retried[p] /\ Protocol(p) = initial
        /\ initial \in {"UnixSocket", "FileBased", "SharedMemory"}
        /\ StaleOf(p) /\ ControlOf(p) /\ pc \in [Procs -> Labels] /\ fs \in Files
    BY <2>2, PastFacts
  <2>4. ASSUME ServerUp(p), fs'.pid = fs.pid,
               initial = "UnixSocket" => fs'.sock = p,
               initial = "FileBased" => fs'.lock,
               initial = "SharedMemory" => fs'.shm # "absent"
        PROVE  SerialInv'
    <3>1. /\ pc' = [pc EXCEPT ![p] = "write_pid"] /\ UNCHANGED <<retried, site>>
          /\ serving' = [serving EXCEPT ![p] = initial]
      BY <2>3, <2>4 DEF ServerUp, Goto
    <3> QED BY <2>1, <2>3, <2>4, <3>1, SerialUp
  <2>5. ASSUME NEW l \in PathOf(initial), Goto(p, l), serving' = serving,
               l \in {"listen", "file_serve", "shm_lock", "shm_lock_unlink", "shm_create",
                      "shm_create_lock"},
               fs'.pid = fs.pid,
               l = "listen" => fs'.sock = p,
               initial = "FileBased" => fs'.lock,
               l = "shm_lock_unlink" => fs'.lock,
               l = "shm_create_lock" => fs'.shm # "absent"
        PROVE  SerialInv'
    <3>1. /\ pc' = [pc EXCEPT ![p] = l] /\ pc'[p] = l /\ UNCHANGED <<retried, site>>
          /\ l \in Enforcing \ {"write_pid"}
      BY <2>3, <2>5 DEF Goto, Enforcing
    <3>2. ControlOf(p)' /\ StaleOf(p)'
      BY <2>1, <2>3, <2>5, <3>1 DEF ControlOf, StaleOf, InHandshake
    <3> QED BY <2>1, <2>3, <2>5, <3>1, <3>2, OnTheWay
  <2>6. CASE initial = "UnixSocket"
    <3>1. StartUnix(p) \/ ListenUnix(p)
      BY <1>2, <2>3, <2>6 DEF Start, StartInMemory, StartFile, FileServe, StartShm,
         ShmUnlink, ShmLock, ShmLockUnlink, ShmCreate, ShmCreateLock, PathOf
    <3>2. CASE StartUnix(p)
      <4>1. Goto(p, "listen") /\ fs' = [fs EXCEPT !.sock = p] /\ serving' = serving
        BY <2>3, <2>6, <3>2 DEF StartUnix, StaleOf
      <4>2. "listen" \in PathOf(initial) /\ fs'.sock = p /\ fs'.pid = fs.pid
        BY <2>3, <2>6, <4>1 DEF PathOf, Files
      <4> QED BY <2>5, <2>6, <4>1, <4>2
    <3>3. CASE ListenUnix(p)
      <4>1. ServerUp(p) /\ fs' = fs /\ fs.sock = p
        BY <2>3, <2>6, <3>3 DEF ListenUnix, StaleOf
      <4> QED BY <2>4, <2>6, <4>1
    <3> QED BY <3>1, <3>2, <3>3
  <2>7. CASE initial = "FileBased"
    <3>1. StartFile(p) \/ FileServe(p)
      BY <1>2, <2>3, <2>7 DEF Start, StartUnix, ListenUnix, StartInMemory, StartShm, ShmUnlink, ShmLock,
         ListenUnix, ShmLockUnlink, ShmCreate, ShmCreateLock, PathOf
    <3>2. CASE StartFile(p)
      <4>1. Goto(p, "file_serve") /\ fs' = [fs EXCEPT !.lock = TRUE] /\ serving' = serving
        BY <2>3, <2>7, <3>2 DEF StartFile, StaleOf
      <4>2. "file_serve" \in PathOf(initial) /\ fs'.lock /\ fs'.pid = fs.pid
        BY <2>3, <2>7, <4>1 DEF PathOf, Files
      <4> QED BY <2>5, <4>1, <4>2
    <3>3. CASE FileServe(p)
      <4>1. ServerUp(p) /\ fs' = [fs EXCEPT !.out = FALSE] /\ fs.lock
        BY <2>3, <2>7, <3>3 DEF FileServe, StaleOf
      <4> QED BY <2>3, <2>4, <2>7, <4>1 DEF Files
    <3> QED BY <3>1, <3>2, <3>3
  <2>8. CASE initial = "SharedMemory"
    <3>1. \/ StartShm(p) \/ ShmLock(p) \/ ShmLockUnlink(p)
          \/ ShmCreate(p) \/ ShmCreateLock(p)
      BY <1>2, <2>3, <2>8 DEF Start, StartUnix, ListenUnix, StartInMemory, StartFile, FileServe,
         ShmUnlink, PathOf
    <3>2. CASE ShmCreateLock(p)
      <4>1. ServerUp(p) /\ fs' = [fs EXCEPT !.lock = TRUE] /\ fs.shm # "absent"
        BY <2>3, <2>8, <3>2 DEF ShmCreateLock, StaleOf
      <4> QED BY <2>3, <2>4, <2>8, <4>1 DEF Files
    <3>4. CASE ShmCreate(p)
      <4>1. Goto(p, "shm_create_lock") /\ fs' = [fs EXCEPT !.shm = "idle"] /\ serving' = serving
        BY <3>4 DEF ShmCreate
      <4>2. "shm_create_lock" \in PathOf(initial) /\ fs'.shm # "absent" /\ fs'.pid = fs.pid
        BY <2>3, <2>8, <4>1 DEF PathOf, Files
      <4> QED BY <2>5, <2>8, <4>1, <4>2
    <3>3. CASE StartShm(p) \/ ShmLock(p) \/ ShmLockUnlink(p)
      <4>1. {"shm_lock", "shm_lock_unlink", "shm_create"} \subseteq PathOf(initial)
        BY <2>8 DEF PathOf
      <4>2. /\ \E l \in {"shm_lock", "shm_lock_unlink", "shm_create"} :
                 Goto(p, l) /\ (l = "shm_lock_unlink" => fs'.lock)
            /\ fs'.pid = fs.pid /\ serving' = serving
        BY <2>3, <2>8, <3>3 DEF StartShm, ShmLock, ShmLockUnlink, StaleOf, Files
      <4> QED BY <2>5, <2>8, <4>1, <4>2
    <3> QED BY <3>1, <3>2, <3>3, <3>4
  <2> QED BY <2>3, <2>6, <2>7, <2>8
<1> QED BY <1>1, <1>2

LEMMA SerialLaunch ==
  ASSUME SerialOnly, TypeOK, SerialInv, NEW p \in Procs, Launch(p)
  PROVE  SerialInv'
<1>0. /\ pc[p] = "idle" /\ pc' = [pc EXCEPT ![p] = "connect"]
      /\ site' = [site EXCEPT ![p] = "fast"]
      /\ UNCHANGED <<initial, fb, retried, serving, conn, fs>>
      /\ pc \in [Procs -> Labels] /\ site \in [Procs -> Sites]
      /\ \A q \in Procs : pc[q] \notin Enforcing
  BY DEF SerialOnly, Launch, Handshake, TypeOK
<1>1. /\ pc'[p] = "connect" /\ site'[p] = "fast"
      /\ \A q \in Procs : q # p => pc'[q] = pc[q] /\ site'[q] = site[q]
  BY <1>0
<1>2. {"start", "clean_lock", "connect", "send", "receive", "clean_msgfile", "clean_pidfile", "clean_respfile", "file_serve",
       "listen", "shm_create_lock", "shm_lock_unlink"} \subseteq Enforcing
  BY DEF Enforcing
<1>3. \A q \in Procs : ~Past(q)' /\ (q # p => ~InHandshake(q)')
  BY <1>0, <1>1, <1>2 DEF Past, InHandshake
<1>4. SerialControl'
  <2>1. \A q \in Procs : ControlOf(q)'
    BY <1>0, <1>1, <1>3 DEF SerialInv, SerialControl, ControlOf
  <2> QED BY <1>0, <2>1 DEF SerialInv, SerialControl
<1>5. Alone'
  BY <1>0, <1>1 DEF Alone
<1>6. ServerInv'
  BY <1>0, <1>3 DEF SerialInv, ServerInv
<1>7. AnswerInv'
  BY <1>1, <1>3 DEF AnswerInv, InHandshake
<1>8. StaleInv'
  BY <1>0, <1>1, <1>2, <1>3 DEF StaleInv, StaleOf
<1>9. PidInv'
  BY <1>0, <1>1 DEF SerialInv, PidInv, TypeOK, Files
<1> QED BY <1>4, <1>5, <1>6, <1>7, <1>8, <1>9 DEF SerialInv

LEMMA SerialServe ==
  ASSUME TypeOK, SerialInv, NEW q \in Procs, Serve(q)
  PROVE  SerialInv'
<1>0. /\ UNCHANGED <<initial, pc, site, retried, fb, serving, conn>> /\ serving[q] # "none"
      /\ fs \in Files
      /\ \/ fs' = fs
         \/ fs' = [fs EXCEPT !.msg = FALSE, !.resp = TRUE, !.out = TRUE]
         \/ fs' = [fs EXCEPT !.shm = "response", !.bcast = TRUE]
  BY DEF Serve, ServeUnix, ServeFile, ServeShm, TypeOK
<1>1. /\ fs'.sock = fs.sock /\ fs'.lock = fs.lock /\ fs'.pid = fs.pid
      /\ fs.shm # "absent" => fs'.shm # "absent"
      /\ fs.msg \/ fs.out \/ fs.resp => fs'.msg \/ fs'.out \/ fs'.resp
      /\ fs.shm \in {"request", "response"} \/ fs.bcast =>
           fs'.shm \in {"request", "response"} \/ fs'.bcast
  BY <1>0 DEF Files
<1>2. \A p \in Procs : ~Past(p)
  BY <1>0 DEF SerialInv, ServerInv, SomeServer
<1>3. SerialControl' /\ Alone'
  BY <1>0 DEF SerialInv, SerialControl, ControlOf, InHandshake, Alone
<1>4. ServerInv'
  BY <1>0, <1>1, <1>2 DEF SerialInv, ServerInv, Past, InHandshake
<1>5. AnswerInv'
  BY <1>0, <1>1 DEF SerialInv, AnswerInv
<1>6. StaleInv'
  <2>1. \A p \in Procs :
          /\ pc[p] \notin {"start", "clean_lock", "clean_msgfile", "clean_pidfile", "clean_respfile", "file_serve",
                        "listen", "shm_create_lock", "shm_lock_unlink"}
          /\ ~(InHandshake(p) /\ site[p] = "lock_probe")
    BY <1>2 DEF Past, InHandshake, Enforcing
  <2> QED BY <1>0, <2>1 DEF StaleInv, StaleOf, InHandshake
<1>7. PidInv'
  BY <1>0, <1>1 DEF SerialInv, PidInv
<1> QED BY <1>3, <1>4, <1>5, <1>6, <1>7 DEF SerialInv

LEMMA SerialExit ==
  ASSUME TypeOK, SerialInv, NEW p \in Procs, Exit(p)
  PROVE  SerialInv'
<1>0. /\ pc' = [pc EXCEPT ![p] = "exited"] /\ conn' = [conn EXCEPT ![p] = NoProc]
      /\ serving' = [serving EXCEPT ![p] = "none"]
      /\ UNCHANGED <<initial, fb, retried, site, fs>>
  BY DEF Exit, Goto, HangUp
<1>1. /\ pc'[p] = "exited" /\ serving'[p] = "none"
      /\ \A q \in Procs : q # p => /\ pc'[q] = pc[q] /\ conn'[q] = conn[q]
                                   /\ serving'[q] = serving[q]
  BY <1>0 DEF TypeOK
<1>2. /\ "exited" \notin Enforcing
      /\ \A q \in Procs : Past(q)' => q # p /\ Past(q)
      /\ ~InHandshake(p)'
  BY <1>0, <1>1 DEF Past, InHandshake, Enforcing
<1>3. SerialControl'
  <2>1. \A q \in Procs : ControlOf(q)'
    BY <1>0, <1>1 DEF SerialInv, SerialControl, ControlOf, InHandshake
  <2> QED BY <1>0, <2>1 DEF SerialInv, SerialControl
<1>4. Alone'
  BY <1>1, <1>2 DEF SerialInv, Alone
<1>5. ServerInv'
  BY <1>0, <1>1, <1>2 DEF SerialInv, ServerInv, SomeServer
<1>6. AnswerInv'
  BY <1>0, <1>1 DEF SerialInv, AnswerInv
<1>7. StaleInv'
  BY <1>0, <1>1, <1>2 DEF SerialInv, StaleInv, StaleOf, InHandshake
<1>8. PidInv'
  <2>1. fs.pid = NoProc \/ fs.pid \in Procs
    BY DEF TypeOK, Files
  <2> QED BY <1>0, <1>1, <2>1 DEF SerialInv, PidInv
<1> QED BY <1>3, <1>4, <1>5, <1>6, <1>7, <1>8 DEF SerialInv

LEMMA SerialStep ==
  ASSUME SerialOnly, TypeOK, SerialInv, [Next]_vars
  PROVE  SerialInv'
<1>1. ASSUME NEW p \in Procs, Step(p) PROVE SerialInv'
  <2>1. ~OwnerPid(p) /\ ~NextFallback(p)
    <3>1. PathOf(initial) \cap {"owner_pid", "next_fallback"} = {}
      BY DEF SerialInv, SerialControl, PathOf
    <3> QED BY <3>1 DEF SerialInv, SerialControl, ControlOf, OwnerPid, NextFallback
  <2> QED BY <1>1, <2>1, SerialConnect, SerialSend, SerialReceive, SerialCleanup,
          SerialStart DEF Step
<1>2. CASE UNCHANGED vars
  <2>1. UNCHANGED <<initial, pc, site, retried, fb, serving, conn, fs>>
    BY <1>2 DEF vars
  <2> QED BY <2>1 DEF SerialInv, SerialControl, ControlOf, InHandshake, Alone, ServerInv,
          Past, SomeServer, AnswerInv, StaleInv, StaleOf, PidInv
<1> QED BY <1>1, <1>2, SerialLaunch, SerialServe, SerialExit DEF Next

LEMMA SerialInit ==
  ASSUME SerialOnly, Init
  PROVE  SerialInv
<1>0. /\ initial \in InitialProtocols
      /\ \A p \in Procs : /\ pc[p] = "idle" /\ site[p] = "fast" /\ ~retried[p] /\ fb[p] = 0
                          /\ serving[p] = "none"
      /\ fs.pid = NoProc
  BY DEF Init
<1>1. SerialControl
  BY <1>0, ConfigAssumption DEF SerialOnly, SerialControl, ControlOf, InHandshake, Protocols
<1>2. "idle" \notin Enforcing
  BY DEF Enforcing
<1> QED BY <1>0, <1>1, <1>2 DEF SerialInv, Alone, ServerInv, Past, AnswerInv, StaleInv,
        StaleOf, InHandshake, PidInv

LEMMA SerialInvariant ==
  ASSUME SerialOnly
  PROVE  Spec => [](TypeOK /\ SerialInv)
<1>1. Init => SerialInv
  BY SerialInit
<1>2. TypeOK /\ SerialInv /\ [Next]_vars => SerialInv'
  BY SerialStep
<1> QED BY <1>1, <1>2, TypeCorrect, PTL DEF Spec

\* Launches that do not overlap, over any of the three transports, with any
\* fallback list and whatever earlier processes left behind: never two
\* primaries (lib.rs:135-301).
THEOREM SerialOnePrimary ==
  ASSUME SerialOnly
  PROVE  Spec => []AtMostOnePrimary
<1>1. TypeOK /\ SerialInv => AtMostOnePrimary
  BY DEF TypeOK, SerialInv, ServerInv, AtMostOnePrimary
<1> QED BY <1>1, SerialInvariant, PTL

\* The cleanup of a newcomer never takes the endpoint of a live server: who gets
\* past the handshake has met no server (lib.rs:346-490).
THEOREM SerialEndpointKept ==
  ASSUME SerialOnly
  PROVE  Spec => []EndpointKept
<1>1. SerialInv => EndpointKept
  <2> SUFFICES ASSUME SerialInv, NEW p \in Procs
               PROVE  /\ serving[p] = "UnixSocket" => fs.sock = p
                      /\ serving[p] = "FileBased" => fs.lock
                      /\ serving[p] = "SharedMemory" => fs.shm # "absent"
    BY DEF EndpointKept
  <2> QED BY DEF SerialInv, ServerInv
<1> QED BY <1>1, SerialInvariant, PTL

\* The pid file names the primary: no cleanup removes it or finds it naming
\* somebody else (lib.rs:346-510).
THEOREM SerialPidNamesPrimary ==
  ASSUME SerialOnly
  PROVE  Spec => []PidNamesPrimary
<1>1. SerialInv => PidNamesPrimary
  BY DEF SerialInv, PidInv, PidNamesPrimary
<1> QED BY <1>1, SerialInvariant, PTL
=============================================================================
