--------------------------- MODULE SingleInstance ---------------------------
(***************************************************************************)
(* SingleInstanceApp::enforce_single_instance (src/src/lib.rs), run by     *)
(* several processes of one application over the files of one machine.     *)
(*                                                                         *)
(* A process tries to shake hands with an existing primary, removes what   *)
(* it believes is stale, starts a server of its own, and falls back to     *)
(* other protocols.  One step of the model is one file-system operation    *)
(* (exists, create, unlink, write), one socket operation or the end of one *)
(* await; processes interleave between them.  Nothing runs when a process  *)
(* ends (SingleInstanceApp has no Drop and nothing calls server.stop), so  *)
(* a clean exit and a crash are the same step and leave every file behind. *)
(*                                                                         *)
(* The content of messages is abstracted: connect_to_primary accepts any   *)
(* message as the answer, so only "something to read is there" matters.    *)
(***************************************************************************)
EXTENDS Naturals, Sequences

CONSTANTS
  Procs,             \* the processes; each one is launched at most once
  NoProc,            \* "no process": an absent pid file, an unbound socket
  InitialProtocols,  \* values of CommunicationConfig.protocol to consider
  Fallbacks,         \* config.fallback_protocols; << >> if enable_fallback is off
  Serialized,        \* TRUE: a process is launched only when no other is enforcing
  Prompt,            \* TRUE: a live server answers before the client's timeout
  SockInTempDir,     \* TRUE: std::env::temp_dir() is /tmp
  MaxExits           \* bound on the number of exits (or crashes) of a behaviour

Protocols == {"UnixSocket", "FileBased", "SharedMemory", "InMemory"}

ASSUME NoProcAssumption == NoProc \notin Procs
ASSUME ConfigAssumption ==
  /\ InitialProtocols \subseteq Protocols
  /\ Fallbacks \in Seq(Protocols)
  /\ Serialized \in BOOLEAN
  /\ Prompt \in BOOLEAN
  /\ SockInTempDir \in BOOLEAN
  /\ MaxExits \in Nat

VARIABLES
  initial,  \* config.protocol, the same in every process of the application
  pc,       \* pc[p]: where p is in enforce_single_instance
  site,     \* site[p]: which call of connect_to_primary p is in
  retried,  \* retried[p]: p is past the second cleanup, lib.rs:222
  fb,       \* fb[p]: 0, or the index in Fallbacks of p's current protocol
  serving,  \* serving[p]: the protocol of p's running server, or "none"
  conn,     \* conn[p]: the process p's Unix stream is connected to
  inbox,    \* inbox[p]: p's Unix stream has a message to read
  fs,       \* the files named after the application's identifier
  exits,    \* number of exits so far
  met,      \* met[p]: a server was live at some moment of p's enforcement
  early     \* a cleanup knocked at a path bound and not yet listening

vars == <<initial, pc, site, retried, fb, serving, conn, inbox, fs, exits, met, early>>

(***************************************************************************)
(* fs.sock   the process whose listener is bound to the socket path        *)
(* fs.lock   the .lock file (FileBased and SharedMemory share its name)    *)
(* fs.pid    the process named by the .pid file                            *)
(* fs.msg    the .msg file holds a request                                 *)
(* fs.resp   the .msg.response file holds a response                       *)
(* fs.out    the .out file (FileBased broadcasts) holds a message          *)
(* fs.shm    the .shm file: absent, or the flag byte of its one slot       *)
(* fs.bcast  the .shm.broadcast file holds a message                       *)
(***************************************************************************)
Files == [sock : Procs \cup {NoProc}, lock : BOOLEAN,
          pid : Procs \cup {NoProc}, msg : BOOLEAN, resp : BOOLEAN,
          out : BOOLEAN, shm : {"absent", "idle", "request", "response"},
          bcast : BOOLEAN]

\* The calls of connect_to_primary; the probes are those of the cleanup.
Probes == {"lock_probe", "pid_probe1", "pid_probe2"}
Sites  == {"fast", "recheck", "owner_wait", "final", "fallback"} \cup Probes

Enforcing == {"connect", "send", "receive",
              "clean_sock", "clean_sock_probe", "clean_sock_unlink",
              "clean_lock", "clean_pid", "clean_lockfile",
              "clean_msgfile", "clean_pidfile", "clean_respfile",
              "clean_shm", "clean_shm_unlink",
              "start", "listen", "file_serve", "shm_unlink", "shm_lock",
              "shm_lock_unlink", "shm_create", "shm_create_lock", "write_pid",
              "owner_pid", "next_fallback"}
Returned  == {"primary", "secondary", "failed"}
Labels    == {"idle", "exited"} \cup Enforcing \cup Returned

Init ==
  /\ initial \in InitialProtocols
  /\ pc = [p \in Procs |-> "idle"]
  /\ site = [p \in Procs |-> "fast"]
  /\ retried = [p \in Procs |-> FALSE]
  /\ fb = [p \in Procs |-> 0]
  /\ serving = [p \in Procs |-> "none"]
  /\ conn = [p \in Procs |-> NoProc]
  /\ inbox = [p \in Procs |-> FALSE]
  /\ fs = [sock |-> NoProc, lock |-> FALSE, pid |-> NoProc, msg |-> FALSE,
           resp |-> FALSE, out |-> FALSE, shm |-> "absent", bcast |-> FALSE]
  /\ exits = 0
  /\ met = [p \in Procs |-> FALSE]
  /\ early = FALSE

-----------------------------------------------------------------------------
(* Helpers.                                                                *)

\* The protocol p currently works with: self.config.protocol.
Protocol(p) == IF fb[p] = 0 THEN initial ELSE Fallbacks[fb[p]]

Alive(p) == pc[p] \notin {"idle", "exited"}

SomeServer == \E q \in Procs : serving[q] # "none"

Goto(p, label) == pc' = [pc EXCEPT ![p] = label] /\ UNCHANGED <<site, retried>>

\* Call connect_to_primary from the call site s.
Handshake(p, s) == /\ pc' = [pc EXCEPT ![p] = "connect"]
                   /\ site' = [site EXCEPT ![p] = s]
                   /\ UNCHANGED retried

CleanupEntry(protocol) ==
  CASE protocol = "UnixSocket"   -> "clean_sock"
    [] protocol = "FileBased"    -> "clean_lock"
    [] protocol = "SharedMemory" -> "clean_shm"
    [] protocol = "InMemory"     -> "start"

\* The second cleanup of enforce_single_instance, once per process.
SecondCleanup(p) == /\ pc' = [pc EXCEPT ![p] = CleanupEntry(initial)]
                    /\ retried' = [retried EXCEPT ![p] = TRUE]
                    /\ UNCHANGED site

\* cleanup_stale_resources returns: the first call is followed by
\* start_server, the second one by the final connection attempt.
CleanupDone(p) == IF retried[p] THEN Handshake(p, "final") ELSE Goto(p, "start")

\* start_server returned an error.  Only FileBased reports an existing lock
\* ("Server lock file already exists"); every other error goes to fallback.
StartFailed(p) ==
  IF fb[p] = 0 /\ ~retried[p] /\ initial = "FileBased"
  THEN Handshake(p, "recheck")
  ELSE Goto(p, "next_fallback")

-----------------------------------------------------------------------------
(* connect_to_primary: connect, send the arguments, read one message.      *)

HangUp(p) == /\ conn' = [conn EXCEPT ![p] = NoProc]
             /\ inbox' = [inbox EXCEPT ![p] = FALSE]

\* Mutant: the client is not disconnected.
HandshakeOkNoDisconnect(p) ==
  /\ UNCHANGED <<conn, inbox>>
  /\ IF site[p] \in Probes THEN CleanupDone(p) ELSE Goto(p, "secondary")

\* The handshake returned Ok.
HandshakeOk(p) ==
  /\ HangUp(p)
  /\ IF site[p] \in Probes THEN CleanupDone(p) ELSE Goto(p, "secondary")

\* The handshake returned Err.
HandshakeErr(p) ==
  /\ HangUp(p)
  /\ CASE site[p] = "fast"       -> Goto(p, CleanupEntry(initial))
       [] site[p] = "lock_probe" -> Goto(p, "clean_pid")
       [] site[p] = "pid_probe1" -> Handshake(p, "pid_probe2")
       [] site[p] = "pid_probe2" -> Goto(p, "clean_lockfile")
       [] site[p] = "recheck"    -> Goto(p, "owner_pid")
       [] site[p] = "owner_wait" -> SecondCleanup(p)
       [] site[p] \in {"final", "fallback"} -> Goto(p, "start")

\* client.connect of each protocol: only a Unix connection needs a live
\* listener, the other clients look whether a file exists.
UnixListening == fs.sock # NoProc /\ serving[fs.sock] = "UnixSocket"
FileListening == fs.lock
ShmListening  == fs.shm # "absent"

Connectable(protocol) ==
  CASE protocol = "UnixSocket"   -> UnixListening
    [] protocol = "FileBased"    -> FileListening
    [] protocol = "SharedMemory" -> ShmListening
    [] protocol = "InMemory"     -> TRUE

\* Mutant: a socket file is taken for a running server.
ConnectByName(p) ==
  /\ pc[p] = "connect"
  /\ IF fs.sock # NoProc THEN HandshakeOk(p) ELSE HandshakeErr(p)
  /\ UNCHANGED <<initial, fb, serving, fs, exits, met, early>>

Connect(p) ==
  /\ pc[p] = "connect"
  /\ IF Connectable(Protocol(p))
     THEN /\ Goto(p, "send")
          /\ conn' = [conn EXCEPT ![p] = IF Protocol(p) = "UnixSocket"
                                         THEN fs.sock ELSE NoProc]
          /\ UNCHANGED inbox
     ELSE HandshakeErr(p)
  /\ UNCHANGED <<initial, fb, serving, fs, exits, met, early>>

\* client.send_message: .msg is created or truncated; the slot is overwritten
\* whatever its flag says.
FileSend == [fs EXCEPT !.msg = TRUE]
ShmSend  == [fs EXCEPT !.shm = "request"]

\* The in-memory client has no sender; the shared-memory one opens the file.
SendFails(p) == \/ Protocol(p) = "InMemory"
                \/ Protocol(p) = "SharedMemory" /\ fs.shm = "absent"

Send(p) ==
  /\ pc[p] = "send"
  /\ IF SendFails(p)
     THEN HandshakeErr(p) /\ UNCHANGED fs
     ELSE /\ Goto(p, "receive")
          /\ UNCHANGED <<conn, inbox>>
          /\ fs' = CASE Protocol(p) = "FileBased"    -> FileSend
                     [] Protocol(p) = "SharedMemory" -> ShmSend
                     [] Protocol(p) = "UnixSocket"   -> fs
  /\ UNCHANGED <<initial, fb, serving, exits, met, early>>

\* client.receive_message: something to read.  A fresh client starts at the
\* beginning of the broadcast files, so what they already hold counts.
UnixReadable(p) == inbox[p]
FileReadable    == fs.out \/ fs.resp
ShmReadable     == fs.shm # "absent" /\ (fs.bcast \/ fs.shm = "response")

Readable(p) ==
  CASE Protocol(p) = "UnixSocket"   -> UnixReadable(p)
    [] Protocol(p) = "FileBased"    -> FileReadable
    [] Protocol(p) = "SharedMemory" -> ShmReadable
    [] Protocol(p) = "InMemory"     -> FALSE

\* Broadcasts are looked at first; only reading a response consumes it.
FileTake == IF fs.out THEN fs ELSE [fs EXCEPT !.resp = FALSE]
ShmTake  == IF fs.bcast THEN fs ELSE [fs EXCEPT !.shm = "idle"]

Receive(p) ==
  /\ pc[p] = "receive"
  /\ Readable(p)
  /\ HandshakeOk(p)
  /\ fs' = CASE Protocol(p) = "FileBased"    -> FileTake
             [] Protocol(p) = "SharedMemory" -> ShmTake
             [] Protocol(p) = "UnixSocket"   -> fs
             [] Protocol(p) = "InMemory"     -> fs
  /\ UNCHANGED <<initial, fb, serving, exits, met, early>>

\* The peer is gone, or the shared-memory file is.
ReceiveErr(p) ==
  /\ pc[p] = "receive"
  /\ \/ Protocol(p) = "SharedMemory" /\ fs.shm = "absent"
     \/ /\ Protocol(p) = "UnixSocket"
        /\ ~inbox[p]
        /\ serving[conn[p]] # "UnixSocket"
  /\ HandshakeErr(p)
  /\ UNCHANGED <<initial, fb, serving, fs, exits, met, early>>

\* A live server has p's request, or the request of a client whose message
\* it will broadcast to p as well.
Pending(p) ==
  \E q \in Procs :
    /\ serving[q] = Protocol(p)
    /\ CASE Protocol(p) = "UnixSocket"   -> conn[p] = q
         [] Protocol(p) = "FileBased"    -> fs.msg
         [] Protocol(p) = "SharedMemory" -> fs.shm = "request"
         [] Protocol(p) = "InMemory"     -> FALSE

\* Mutant: no timeout around the handshake.
NoTimeout(p) == FALSE

\* Mutant: a handshake that timed out counts as done.
TimeoutIsOk(p) ==
  /\ pc[p] = "receive"
  /\ Prompt => ~Readable(p) /\ ~Pending(p)
  /\ HandshakeOk(p)
  /\ UNCHANGED <<initial, fb, serving, fs, exits, met, early>>

\* The two seconds of connect_to_primary are over.
HandshakeTimeout(p) ==
  /\ pc[p] = "receive"
  /\ Prompt => ~Readable(p) /\ ~Pending(p)
  /\ HandshakeErr(p)
  /\ UNCHANGED <<initial, fb, serving, fs, exits, met, early>>

-----------------------------------------------------------------------------
(* cleanup_stale_resources.                                                *)

\* Mutant: the socket is not probed before it is removed.
CleanSockNoProbe(p) ==
  /\ pc[p] = "clean_sock"
  /\ IF SockInTempDir /\ fs.sock # NoProc
     THEN Goto(p, "clean_sock_unlink") ELSE CleanupDone(p)
  /\ UNCHANGED <<initial, fb, serving, conn, inbox, fs, exits, met, early>>

\* The cleanup looks in temp_dir(), the socket is always in /tmp.
CleanSock(p) ==
  /\ pc[p] = "clean_sock"
  /\ IF SockInTempDir /\ fs.sock # NoProc
     THEN Goto(p, "clean_sock_probe") ELSE CleanupDone(p)
  /\ UNCHANGED <<initial, fb, serving, conn, inbox, fs, exits, met, early>>

\* The path exists and nobody accepts there yet: a server between bind and
\* listen.  A connect is refused like one to a path nobody serves.
BoundNotListening == fs.sock # NoProc /\ pc[fs.sock] = "listen"

CleanSockProbe(p) ==
  /\ pc[p] = "clean_sock_probe"
  /\ IF Connectable("UnixSocket")
     THEN CleanupDone(p) ELSE Goto(p, "clean_sock_unlink")
  /\ early' = (early \/ BoundNotListening)
  /\ UNCHANGED <<initial, fb, serving, conn, inbox, fs, exits, met>>

CleanSockUnlink(p) ==
  /\ pc[p] = "clean_sock_unlink"
  /\ fs' = [fs EXCEPT !.sock = NoProc]
  /\ CleanupDone(p)
  /\ UNCHANGED <<initial, fb, serving, conn, inbox, exits, met, early>>

CleanLock(p) ==
  /\ pc[p] = "clean_lock"
  /\ IF fs.lock THEN Handshake(p, "lock_probe") ELSE Goto(p, "clean_pid")
  /\ UNCHANGED <<initial, fb, serving, conn, inbox, fs, exits, met, early>>

PidAlive == fs.pid # NoProc /\ Alive(fs.pid)

CleanPid(p) ==
  /\ pc[p] = "clean_pid"
  /\ IF PidAlive THEN Handshake(p, "pid_probe1") ELSE Goto(p, "clean_lockfile")
  /\ UNCHANGED <<initial, fb, serving, conn, inbox, fs, exits, met, early>>

\* From here on nothing is checked again: whatever carries these names goes.
CleanLockFile(p) ==
  /\ pc[p] = "clean_lockfile"
  /\ fs' = [fs EXCEPT !.lock = FALSE]
  /\ Goto(p, "clean_msgfile")
  /\ UNCHANGED <<initial, fb, serving, conn, inbox, exits, met, early>>

CleanMsgFile(p) ==
  /\ pc[p] = "clean_msgfile"
  /\ fs' = [fs EXCEPT !.msg = FALSE]
  /\ Goto(p, "clean_pidfile")
  /\ UNCHANGED <<initial, fb, serving, conn, inbox, exits, met, early>>

CleanPidFile(p) ==
  /\ pc[p] = "clean_pidfile"
  /\ fs' = [fs EXCEPT !.pid = NoProc]
  /\ Goto(p, "clean_respfile")
  /\ UNCHANGED <<initial, fb, serving, conn, inbox, exits, met, early>>

CleanRespFile(p) ==
  /\ pc[p] = "clean_respfile"
  /\ fs' = [fs EXCEPT !.resp = FALSE]
  /\ CleanupDone(p)
  /\ UNCHANGED <<initial, fb, serving, conn, inbox, exits, met, early>>

CleanShm(p) ==
  /\ pc[p] = "clean_shm"
  /\ IF fs.shm # "absent" THEN Goto(p, "clean_shm_unlink") ELSE CleanupDone(p)
  /\ UNCHANGED <<initial, fb, serving, conn, inbox, fs, exits, met, early>>

CleanShmUnlink(p) ==
  /\ pc[p] = "clean_shm_unlink"
  /\ fs' = [fs EXCEPT !.shm = "absent"]
  /\ CleanupDone(p)
  /\ UNCHANGED <<initial, fb, serving, conn, inbox, exits, met, early>>

Cleanup(p) ==
  \/ CleanSock(p) \/ CleanSockProbe(p) \/ CleanSockUnlink(p)
  \/ CleanLock(p) \/ CleanPid(p) \/ CleanLockFile(p)
  \/ CleanMsgFile(p) \/ CleanPidFile(p) \/ CleanRespFile(p)
  \/ CleanShm(p) \/ CleanShmUnlink(p)

-----------------------------------------------------------------------------
(* start_server.                                                           *)

\* p's server answers from now on; everybody still enforcing can meet it.
ServerUp(p) ==
  /\ serving' = [serving EXCEPT ![p] = Protocol(p)]
  /\ met' = [q \in Procs |-> met[q] \/ pc[q] \in Enforcing]
  /\ Goto(p, "write_pid")

\* UnixListener::bind: bind(2) creates the path or fails, atomically ...
StartUnix(p) ==
  /\ pc[p] = "start" /\ Protocol(p) = "UnixSocket"
  /\ IF fs.sock = NoProc
     THEN Goto(p, "listen") /\ fs' = [fs EXCEPT !.sock = p]
     ELSE StartFailed(p) /\ UNCHANGED fs
  /\ UNCHANGED <<initial, fb, serving, conn, inbox, exits, met, early>>

\* ... and listen(2) opens the socket, whatever carries the path by then.
ListenUnix(p) ==
  /\ pc[p] = "listen"
  /\ ServerUp(p)
  /\ UNCHANGED <<initial, fb, conn, inbox, fs, exits, early>>

StartInMemory(p) ==
  /\ pc[p] = "start" /\ Protocol(p) = "InMemory"
  /\ ServerUp(p)
  /\ UNCHANGED <<initial, fb, conn, inbox, fs, exits, early>>

\* create_new: the lock file is created or the call fails, atomically.
StartFile(p) ==
  /\ pc[p] = "start" /\ Protocol(p) = "FileBased"
  /\ IF ~fs.lock
     THEN Goto(p, "file_serve") /\ fs' = [fs EXCEPT !.lock = TRUE]
     ELSE StartFailed(p) /\ UNCHANGED fs
  /\ UNCHANGED <<initial, fb, serving, conn, inbox, exits, met, early>>

FileServe(p) ==
  /\ pc[p] = "file_serve"
  /\ fs' = [fs EXCEPT !.out = FALSE]
  /\ ServerUp(p)
  /\ UNCHANGED <<initial, fb, conn, inbox, exits, early>>

\* SharedMemoryServer::new: remove the shm and lock files if they exist (an
\* error if somebody else removes them first), then create both.
StartShm(p) ==
  /\ pc[p] = "start" /\ Protocol(p) = "SharedMemory"
  /\ Goto(p, IF fs.shm # "absent" THEN "shm_unlink" ELSE "shm_lock")
  /\ UNCHANGED <<initial, fb, serving, conn, inbox, fs, exits, met, early>>

ShmUnlink(p) ==
  /\ pc[p] = "shm_unlink"
  /\ IF fs.shm # "absent" THEN Goto(p, "shm_lock") ELSE StartFailed(p)
  /\ fs' = [fs EXCEPT !.shm = "absent"]
  /\ UNCHANGED <<initial, fb, serving, conn, inbox, exits, met, early>>

ShmLock(p) ==
  /\ pc[p] = "shm_lock"
  /\ Goto(p, IF fs.lock THEN "shm_lock_unlink" ELSE "shm_create")
  /\ UNCHANGED <<initial, fb, serving, conn, inbox, fs, exits, met, early>>

ShmLockUnlink(p) ==
  /\ pc[p] = "shm_lock_unlink"
  /\ IF fs.lock THEN Goto(p, "shm_create") ELSE StartFailed(p)
  /\ fs' = [fs EXCEPT !.lock = FALSE]
  /\ UNCHANGED <<initial, fb, serving, conn, inbox, exits, met, early>>

\* create(true).truncate(true): no exclusivity.  The file gets its size in
\* the same step: the model has no slot of size zero.
ShmCreate(p) ==
  /\ pc[p] = "shm_create"
  /\ fs' = [fs EXCEPT !.shm = "idle"]
  /\ Goto(p, "shm_create_lock")
  /\ UNCHANGED <<initial, fb, serving, conn, inbox, exits, met, early>>

ShmCreateLock(p) ==
  /\ pc[p] = "shm_create_lock"
  /\ fs' = [fs EXCEPT !.lock = TRUE]
  /\ ServerUp(p)
  /\ UNCHANGED <<initial, fb, conn, inbox, exits, early>>

\* Mutant: the pid file is only written when it does not exist.
WritePidOnce(p) ==
  /\ pc[p] = "write_pid"
  /\ fs' = IF fs.pid = NoProc THEN [fs EXCEPT !.pid = p] ELSE fs
  /\ Goto(p, "primary")
  /\ UNCHANGED <<initial, fb, serving, conn, inbox, exits, met, early>>

\* write_pid_to_lock, then enforce_single_instance returns Ok(true).
WritePid(p) ==
  /\ pc[p] = "write_pid"
  /\ fs' = [fs EXCEPT !.pid = p]
  /\ Goto(p, "primary")
  /\ UNCHANGED <<initial, fb, serving, conn, inbox, exits, met, early>>

Start(p) ==
  \/ StartUnix(p) \/ ListenUnix(p) \/ StartInMemory(p)
  \/ StartFile(p) \/ FileServe(p)
  \/ StartShm(p) \/ ShmUnlink(p) \/ ShmLock(p) \/ ShmLockUnlink(p)
  \/ ShmCreate(p) \/ ShmCreateLock(p) \/ WritePid(p)

-----------------------------------------------------------------------------
(* The rest of enforce_single_instance.                                    *)

\* FileBased found a lock: is its owner, named by the pid file, alive?
OwnerPid(p) ==
  /\ pc[p] = "owner_pid"
  /\ IF PidAlive THEN Handshake(p, "owner_wait") ELSE SecondCleanup(p)
  /\ UNCHANGED <<initial, fb, serving, conn, inbox, fs, exits, met, early>>

\* The loop over the fallback protocols, skipping the initial one; no
\* cleanup is done for a fallback protocol.
NextFallback(p) ==
  /\ pc[p] = "next_fallback"
  /\ LET rest == {i \in (fb[p] + 1)..Len(Fallbacks) : Fallbacks[i] # initial}
     IN  IF rest = {}
         THEN Goto(p, "failed") /\ UNCHANGED fb
         ELSE \E i \in rest : /\ \A j \in rest : i <= j
                              /\ fb' = [fb EXCEPT ![p] = i]
                              /\ Handshake(p, "fallback")
  /\ UNCHANGED <<initial, serving, conn, inbox, fs, exits, met, early>>

Launch(p) ==
  /\ pc[p] = "idle"
  /\ Serialized => \A q \in Procs : pc[q] \notin Enforcing
  /\ Handshake(p, "fast")
  /\ met' = [met EXCEPT ![p] = SomeServer]
  /\ UNCHANGED <<initial, fb, serving, conn, inbox, fs, exits, early>>

Step(p) ==
  \/ Connect(p) \/ Send(p) \/ Receive(p) \/ ReceiveErr(p) \/ HandshakeTimeout(p)
  \/ Cleanup(p) \/ Start(p) \/ OwnerPid(p) \/ NextFallback(p)

-----------------------------------------------------------------------------
(* The server tasks, seen from the handshake: take one request, write the  *)
(* response, broadcast the request.  The file and shared-memory servers    *)
(* work on paths, so any live one answers whatever is found there.         *)

ServeUnix(q, p) ==
  /\ serving[q] = "UnixSocket"
  /\ conn[p] = q /\ pc[p] = "receive" /\ ~inbox[p]
  /\ inbox' = [c \in Procs |-> inbox[c] \/ conn[c] = q]
  /\ UNCHANGED <<initial, pc, site, retried, fb, serving, conn, fs, exits, met, early>>

\* Mutant: the request is taken and nothing is answered.
ServeFileSilent(q) ==
  /\ serving[q] = "FileBased"
  /\ fs.msg
  /\ fs' = [fs EXCEPT !.msg = FALSE]
  /\ UNCHANGED <<initial, pc, site, retried, fb, serving, conn, inbox, exits, met, early>>

ServeFile(q) ==
  /\ serving[q] = "FileBased"
  /\ fs.msg
  /\ fs' = [fs EXCEPT !.msg = FALSE, !.resp = TRUE, !.out = TRUE]
  /\ UNCHANGED <<initial, pc, site, retried, fb, serving, conn, inbox, exits, met, early>>

\* Mutant: the slot is cleared and nothing is answered.
ServeShmSilent(q) ==
  /\ serving[q] = "SharedMemory"
  /\ fs.shm = "request"
  /\ fs' = [fs EXCEPT !.shm = "idle"]
  /\ UNCHANGED <<initial, pc, site, retried, fb, serving, conn, inbox, exits, met, early>>

ServeShm(q) ==
  /\ serving[q] = "SharedMemory"
  /\ fs.shm = "request"
  /\ fs' = [fs EXCEPT !.shm = "response", !.bcast = TRUE]
  /\ UNCHANGED <<initial, pc, site, retried, fb, serving, conn, inbox, exits, met, early>>

Serve(q) == (\E p \in Procs : ServeUnix(q, p)) \/ ServeFile(q) \/ ServeShm(q)

\* The process ends, at any point, and leaves its files.
Exit(p) ==
  /\ exits < MaxExits
  /\ pc[p] \in Enforcing \cup {"primary"}
  /\ exits' = exits + 1
  /\ Goto(p, "exited")
  /\ HangUp(p)
  /\ serving' = [serving EXCEPT ![p] = "none"]
  /\ UNCHANGED <<initial, fb, fs, met, early>>

Next == \E p \in Procs : Launch(p) \/ Step(p) \/ Serve(p) \/ Exit(p)

Spec == Init /\ [][Next]_vars

\* Tokio keeps polling a process's task, and a live server keeps serving.
Fairness == \A p \in Procs : WF_vars(Step(p)) /\ WF_vars(Serve(p))

FairSpec == Spec /\ Fairness

-----------------------------------------------------------------------------
(* Properties.                                                             *)

\* Every variable has its type; a Unix stream exists only inside a handshake,
\* and a server only in a process that holds, or is about to hold, Ok(true).
TypeOK ==
  /\ initial \in InitialProtocols
  /\ pc \in [Procs -> Labels]
  /\ site \in [Procs -> Sites]
  /\ retried \in [Procs -> BOOLEAN]
  /\ fb \in [Procs -> 0..Len(Fallbacks)]
  /\ serving \in [Procs -> Protocols \cup {"none"}]
  /\ conn \in [Procs -> Procs \cup {NoProc}]
  /\ inbox \in [Procs -> BOOLEAN]
  /\ fs \in Files
  /\ exits \in 0..MaxExits
  /\ met \in [Procs -> BOOLEAN]
  /\ early \in BOOLEAN
  /\ \A p \in Procs :
       /\ conn[p] # NoProc => pc[p] \in {"send", "receive"}
       /\ inbox[p] => conn[p] # NoProc
       /\ serving[p] # "none" <=> pc[p] \in {"write_pid", "primary"}

\* "Ensure only one instance of your application runs at a time"
\* (README.md:7): two processes never both hold Ok(true).
AtMostOnePrimary ==
  \A p, q \in Procs : pc[p] = "primary" /\ pc[q] = "primary" => p = q

\* The endpoint of a live server is never taken away by the cleanup of
\* another process: a newcomer that knocks at the path finds the server.
EndpointKept ==
  \A p \in Procs :
    /\ serving[p] = "UnixSocket" => fs.sock = p
    /\ serving[p] = "FileBased" => fs.lock
    /\ serving[p] = "SharedMemory" => fs.shm # "absent"

\* Over Unix sockets bind decides between overlapping launches: until some
\* process leaves there is one primary, and its socket path stays its own,
\* as long as no cleanup knocks (lib.rs:366) between the bind and the listen
\* of UnixListener::bind (unix_socket.rs:226).  That one window is enough for
\* two primaries: AtMostOnePrimary alone is violated in it.
BindDecides == exits = 0 /\ ~early => AtMostOnePrimary /\ EndpointKept

\* The pid file, which decides how long a slow server is waited for, names
\* the process that is the primary.
PidNamesPrimary == \A p \in Procs : pc[p] = "primary" => fs.pid = p

\* Ok(false) tells the truth, "another instance is already running"
\* (lib.rs:737): a server was live at some moment of the enforcement.
SecondaryMetServer == \A p \in Procs : pc[p] = "secondary" => met[p]

\* While nobody has left, a process is told it is secondary only if some
\* process has a running server, whatever the races at start-up.
SecondaryHasServer ==
  exits = 0 => \A p \in Procs : pc[p] = "secondary" => SomeServer

\* enforce_single_instance returns, whatever the other processes do.
Terminates ==
  \A p \in Procs : pc[p] \in Enforcing ~> pc[p] \notin Enforcing
=============================================================================
