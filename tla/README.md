# A TLA+ development for ipc_lib

The repository is a Rust library, `single_instance_app`, that keeps a single
instance of an application running on a machine and lets processes exchange
messages with it over one of several transports. This directory holds TLA+
modules translated from its source, TLC configurations that check them on small
instances, and theorems about them that TLAPS has checked for every value of
the constants. Paths below are relative to the repository; `lib.rs` is
`src/lib.rs` and the transports are in `src/communication/`.

## 1. Inventory

| Component | State it keeps | Operations | Where |
|---|---|---|---|
| SingleInstanceApp | config (protocol, fallbacks), server, handler; on disk: lock and pid file | `enforce_single_instance`, `connect_to_primary`, `cleanup_stale_resources`, `start_server`, `write_pid_to_lock` | lib.rs 60-508 |
| RequestBroker | map from message id to oneshot sender | `register_request`, `dispatch_response` | lib.rs 513-550 |
| Messenger, IpcClient, IpcSession | a session, a broker, a receiver task | `request`, `send`, `receive`, `reconnect`, `connect_*` | lib.rs 552-720 |
| FileBased transport | `.lock`, `.msg`, `.msg.response`, `.out` files; a client's offset and seen ids | server task: wait, handle, respond, broadcast; client: send, receive | file_based.rs |
| SharedMemory transport | a 4096-byte slot with flag, length, data; `.broadcast` file; a client's position and seen ids | the same | shared_memory.rs |
| UnixSocket transport | listener, a task and a stream per client, a broadcast channel of capacity 100 | the same | unix_socket.rs |
| InMemory transport | two mpsc channels no client ever gets an end of | the same | in_memory.rs |
| Communication abstraction | config, protocol factory, messages, serialization | dispatch, serde | mod.rs |
| UniFFI bindings | an application object behind one mutex | `with_protocol`, `on_message`, ... | bindings_uniffi/src/lib.rs |
| C ABI | application handle with a stack of messages; client handle with a cached connection | `ipc_app_*`, `ipc_client_*` | bindings_uniffi/src/c_abi.rs |
| Chat example | a session, a flag that it is lost | loops around stdin and the session, reconnect and resend | ipc_chat_example |
| wgpu example | server: pixels and a flag behind two locks, a texture; client: a session | handler, redraw; request loop with reconnects | ipc_wgpu_example |

**Interactions.** Processes meet in the file system only: socket, lock, pid,
message, response, broadcast and shm files all derive their names from the
application's identifier, and `.lock` is shared by two transports. A launch
first tries to talk to a primary (`connect_to_primary`: connect, send, await one
message within two seconds), then cleans up, then starts a server. A server
calls the handler for each request, sends its reply and broadcasts the request
to every client, its sender included. A Messenger's receiver task reads the
session and gives replies to the broker, which completes the future of
`request`.

**What is hard here.**

- Launches overlap: each `exists`, `unlink` and `create` is a step of its own,
  and checks are stale when they are acted upon.
- Nothing runs when a process ends: no `Drop`, nobody calls `stop`. A clean exit
  and a crash are alike, and every file stays.
- Request and response files, the slot and the broadcast files have no owner:
  whoever looks first takes the message.
- Receiver tasks end at the first error, and nobody tells the calls that wait.
- Timeouts fire against slow but live peers; futures are dropped in the middle
  of reads (`select!`, the C ABI's 50 ms).
- Writes are not atomic: the slot's flag is written before its length and data,
  the request file is created before it is written, an append is not flushed, a
  line may arrive in pieces.
- Buffers are finite: a broadcast channel that overruns slow receivers, sockets
  that make both ends wait.

**What makes each component correct.**

- SingleInstanceApp: at most one primary; a live server keeps its endpoint; the
  pid file names the primary; `Ok(false)` only if there was a server; it returns.
- Broker and Messenger: an answer goes to the request it answers, once; nothing
  is lost between register, send and dispatch; a request returns; an error means
  what it says.
- Transports: a request is handled at most once and never as a mixture of two; a
  client receives broadcasts in order, none twice, none skipped without a cause
  that can be named; a server that stops does not remove its successor's files.
- C ABI and UniFFI: a message that was accepted reaches the application once; a
  timeout or an early disconnect costs nothing else.
- wgpu: the last frame is drawn, a client goes on after each request.

`PROJECT.json` lists the hazards one by one, at their lines, with the properties
that would catch them.

## 2. Plan

| # | Modules | What they add | State |
|---|---|---|---|
| 1 | `SingleInstance`, `SingleInstanceProofs` | the life of a launch, over all transports' files | done |
| 2 | `Messenger`, `MessengerProofs` | requests and answers over a session, three transports | done |
| 3 | `OrderedBroadcast` (abstract), `FileChannel`, `FileChannelProofs` | the FileBased transport file operation by file operation: create/write, read/unlink, rename, append in two parts, offsets and seen ids, cancelled receives, server restarts; `FileChannel` implements `OrderedBroadcast` | done |
| 4 | `ShmChannel`, `ShmChannelProofs` | the SharedMemory slot byte group by byte group (flag, length, data), the broadcast file with its position; it implements `OrderedBroadcast` too | done |
| 5 | `UnixChannel`, `UnixChannelProofs`, `UnixOrderProofs` | the UnixSocket transport piece by piece: lines that arrive in pieces, cancelled reads and writes, the broadcast channel at its capacity, `stop`, crashes; it implements `OrderedBroadcast` | done |
| 6 | `CAbi`, `CAbiProofs` | the C interface over `UnixChannel`: the stack of messages, the kept connection, the 50 ms, the send that does not wait | done |
| 7 | `RenderServer`, `RenderServerProofs` | the wgpu example over `UnixChannel`: the requests of a client one after the other, the handler and the event loop with their two locks | done |
| 8 | proofs | every safety invariant and every refinement that a run checks, for every value of the constants | done |

`CAbi` and `RenderServer` compose: they extend `UnixChannel`, their steps take its
steps with them, and its connections carry their messages. `Messenger` keeps a
transport of its own, because it is about all three and about whole messages.

The abstract specification is `OrderedBroadcast` (a log that every client reads in
order, each line at most once), implemented by the FileBased, SharedMemory and
UnixSocket broadcasts.

**What is proved and what is only model-checked.** Each of the 26 invariants of the
passing runs and each of the three refinements is stated by a theorem, which tlapm checks
for every value of the constants; the sections below say from which invariant. Five
theorems state something else: `AnswersOwnRequest` is a corollary, `AbiKeepsPromise`,
`AbiBroadcastsInOrder` and `FramesOverUnix` carry what is proved of UnixChannel
over to the modules that compose it, and `FramesInOrder` strengthens it for one of them. What remains with TLC are the liveness
properties: `Terminates`, `RequestAnswered`, `Delivered` and `AnswerTaken` of FileChannel,
`Delivered` and `SlotServed` of ShmChannel, `RequestServed`, `BroadcastDelivered`,
`AcceptedTaken`, `FrameShown`, `FrameAnswered`. They follow from fairness, and
WF and SF are defined with ENABLED, about which the prover has no rules; so nothing is proved
of them, and they hold as far as their instances go.

An invariant that a run checks is seldom inductive. Each strengthening was first
checked by TLC on the instance of the run, part by part, then proved: it holds
initially, every step keeps it (one lemma for each step or kind of step), and it
implies the property. Five theorems on SingleInstance and two on Messenger assume
something of the constants, which their sections name; the configuration that checks the
same property meets the assumption. The others hold for all constants that meet the
ASSUMEs of their modules.

No module uses a RECURSIVE operator, so all of them can be proved about.

## 3. SingleInstance

**State.** `pc[p]` is the place of process `p` in `enforce_single_instance` and
the functions it calls; `site[p]` is the call site of `connect_to_primary` it
is in (the seven sites return to different places); `fb[p]` is the fallback
protocol in use, `retried[p]` whether the second cleanup has begun (lib.rs 217). `fs`
holds the files: who is bound to the socket, who the pid file names, and for
the rest whether they exist or hold a message. `serving[p]` is the running
server. `conn`, `inbox` are a Unix stream. `met` records that a server was live
at some moment of `p`'s enforcement, and `early` that a cleanup knocked at a socket
which was bound and did not listen yet; no step reads these two.

**Actions.** `Launch`; the handshake (`Connect`, `Send`, `Receive`, `ReceiveErr`,
`HandshakeTimeout`); the cleanup of each protocol, one action per file operation
(`CleanSock` ... `CleanShmUnlink`); `start_server` of each protocol (`StartUnix` and
`ListenUnix`, the bind(2) and the listen(2) of `UnixListener::bind`, `StartFile` and
`FileServe`, `StartShm` ... `ShmCreateLock`, `StartInMemory`, `WritePid`); the checks after
a failed start (`OwnerPid`) and the loop over fallbacks (`NextFallback`); the servers as the handshake sees them (`Serve...`);
`Exit`, which leaves every file.

**Abstractions.** The content of a message is dropped, because
`connect_to_primary` accepts any message as the answer. Handshake messages are
whole. The shm file gets its size in the step that creates it (shared_memory.rs 122-131):
there is no slot of size zero. A process slot is launched once, so a pid is never reused by the
operating system. The code is that of Unix.

**Constants.** `Serialized`: launches do not overlap. `Prompt`: a live server
answers within the two seconds; when FALSE the timeout may fire at any time.
`SockInTempDir`: `std::env::temp_dir()` is `/tmp`, where the socket is bound
(on macOS it is not). `MaxExits` bounds exits.

| Run | Instance | Shows | States |
|---|---|---|---|
| `si_serial` | 4 processes, 3 exits, serialized and prompt, all protocols, default fallbacks | `AtMostOnePrimary`, `EndpointKept`, `PidNamesPrimary` | 51 000 |
| `si_overlap` | 3 processes, any overlap, slow servers, 1 crash, temp_dir not /tmp | `TypeOK`, `SecondaryHasServer`, `Terminates` | 732 000 |
| `si_unix` | 4 processes, any overlap, Unix sockets, no fallback, 1 exit | `BindDecides`, `SecondaryMetServer` | 292 000 |
| `si_shm_two_primaries` | 2 processes, overlap, default protocol | `AtMostOnePrimary` **fails** | |

Why the bounds suffice: the races are between the launch that checks, the one
that acts and at most a third that owned the files before; four processes with
three exits let a stale file of every generation meet a live server.
`si_serial` is the specification's claim under the conditions in which the code
can keep it; the failing run drops one condition. Dropping others fails too, and can
be seen by changing a constant: `AtMostOnePrimary` with `InitialProtocols = {"UnixSocket"}`,
`Serialized = FALSE`; with `InitialProtocols = {"FileBased"}`, `Serialized = FALSE` (lib.rs
444 removes a lock created since it was looked for), and with `SockInTempDir = FALSE`,
`Serialized = TRUE` and two exits over UnixSocket (the stale socket is never removed, every
launch falls back, and the last resort, InMemory, always succeeds).

**What fails.** (1) README.md 7, "Ensure only one instance of your application
runs at a time": two overlapping launches over SharedMemory, the default, find
no server, and each removes and recreates the files of the other. (2) The same over
UnixSocket: a bind(2) creates the path and fails if it is there, so it would decide
between launches that overlap; but a connect is refused until the listen(2) that follows it
(unix_socket.rs 226), and a cleanup that is refused removes the path (lib.rs 366-375) and
binds again. The window is small: the cleanup looks for the path, waits 50 ms and then
knocks. `early` marks the executions that hit it, and `BindDecides` says that in the others,
until somebody exits, there is one primary; without `early`, TLC finds two in a state of
`SI_unix.cfg`. (3) lib.rs 737,
`Ok(false)` means another instance is running: a dead primary's broadcast file
is read from its beginning by a fresh client and taken for the answer
(`SecondaryMetServer` with 3 serialized processes, 1 exit and
`InitialProtocols = {"SharedMemory"}`).

**Proved** (`SingleInstanceProofs`), for any number of processes:

- `TypeCorrect`, with the structural facts in `TypeOK` (a stream exists only
  inside a handshake, a server only in a process that won).
- `SecondaryHasServerAlways`, every protocol and race. The invariant is
  `EvidenceInv`: until somebody exits, each thing a handshake may take for an
  answer (a message in a stream, a response or broadcast file, a response flag)
  and each `Ok(false)` is evidence of a running server.
- `UnixBindDecides`, assuming `UnixOnly` (Unix sockets, no fallback): `UnixControl` (which places a process over Unix sockets can
  be in) and `Exclusive` (until somebody exits, servers own the path, nobody is
  about to unlink a bound path, as long as no cleanup was `early`).
- `UnixSecondaryMetServer`, assuming `UnixOnly`: `MetInv`, every stream and message comes from a server
  that was up during the enforcement.
- `SerialOnePrimary`, `SerialEndpointKept`, `SerialPidNamesPrimary`: the three properties of
  `si_serial`, with any number of processes and exits and any list of fallbacks. They assume
  `SerialOnly`: launches do not overlap, servers answer in time, the cleanup looks
  for the socket where it was bound, and the first protocol is not InMemory, whose
  server nobody can find. The invariant is `SerialInv`. At most one process is on its
  way (`Alone`). A server is the only one and has the file of its protocol, and no
  process that has looked for it is still on its way (`ServerInv`); that is kept because
  whoever looks does find it, its request or an answer to it being there until it is read
  (`AnswerInv`). What earlier processes left does not make a start fail (`StaleInv`,
  `ControlOf`): a cleanup that found no server leaves no socket, no lock whose owner does
  not run, and no shared-memory file. So no launch comes to
  its second attempt or to a fallback, which is why the list does not matter.
  `PidInv` is about the pid file.

Only model-checked: `Terminates` (liveness).

## 4. Messenger

**State.** `call[c]` is the place of a call in `Messenger::request`, `on[c]` its
messenger, `id[c]` its message's id. `pending[m]` is the broker's map, `rx[c]` and
`got[c]` the oneshot channel and its value. `recv[m]` and `held[m]` are the receiver
task and the message it is dispatching (between `session.receive` and
`dispatch_response`). `requests`, `handling`, `response`, `inbox`, `log` are the
transport and the server.

**Actions.** `Open`; `Register`, `SendOk`, `SendErr`, `AwaitOk`, `AwaitErr` for the
awaits of `request`, `Cancel` for a dropped future; `ReceiveOwn`, `ReceiveShared`,
`ReceiveErr`, `Dispatch` for the receiver task; `Take`, `Answer`, `Crash` for the
server. `Insert` closes the channel of the sender it replaces, as dropping a
oneshot sender does.

**Abstractions.** Streams are sets, because the broker does not depend on the
order; messages are whole (torn ones belong to the transports' modules); the
handler answers with `create_reply` or returns None, which yields the default
reply; broadcasts are noise that must not confuse the broker. FileBased requests
are overwritten by later ones and its response file is taken by anybody; the slot
of SharedMemory is both. A messenger is opened while the server is alive.

| Run | Instance | Shows | States |
|---|---|---|---|
| `msg_all` | 2 calls, 2 messengers, 2 ids reused or not, 3 transports, crash | `TypeOK`, `OwnAnswer`, `PendingUnanswered`, `ClosedOnlyOnReuse` | 159 000 |
| `msg_unix` | 2 calls, 2 messengers, unique ids, Unix sockets, no crash, fair | `AnswerKept`, `RequestAnswered` | 36 000 |
| `msg_shm_idle` | 1 call, SharedMemory, fair | `RequestReturns` **fails** | |

Two calls are enough for every race between a call, the one that overwrites or
replaces it, and a second receiver task; the theorems remove the bound. Calls,
messengers and ids are interchangeable, so the safety run may permute them.

**What fails.** lib.rs 595, "Send a request and wait for a response": the receiver
task breaks out of its loop at the first error (lib.rs 588), the senders stay in
the broker, the broker stays alive in the Messenger, and so neither an answer
nor the error of lib.rs 607 ever comes. Over SharedMemory `timeout_ms` without
traffic is such an error. A lost Unix connection is another (`Transports =
{"UnixSocket"}`, `MayCrash = TRUE`), and over FileBased a second receiver task takes
the answer (two messengers): the same property fails in those instances.

**Fairness.** Weak fairness of each receiver task, of each call's next step and
of the server's handling of each request: tokio polls every task that is ready,
and a task that waits for a file polls it in a loop. Nothing is assumed of `Open`,
`Cancel` or `Crash`. In SingleInstance: weak fairness of each process's own step and of
each server. Strong fairness is used in RenderServer only (section 9).

**Proved** (`MessengerProofs`), for any number of calls, messengers and ids:

- `TypeCorrect`.
- `EntriesUnanswered`, `AnswersOwnId`, from `EntriesInv`: an entry is the one call
  with that messenger and id whose channel is open, or whose future is gone.
- `AnswersOwnRequest`: with unique ids (128 random bits, mod.rs 220) the answer is
  the request's own. Assumes `FreshIds`.
- `ClosedMeansReuse`, from `ClosedInv`: no other step drops a sender. In particular
  "Response channel closed" never reports a closed connection.
- `UnixAnswersKept`, from `UnixInv` and `KeptInv`: a waiting call has its answer, or an
  open channel with its entry and a request or reply under way. Assumes `UnixOnly`.

Only model-checked: `RequestAnswered` (liveness).

## 5. FileChannel and OrderedBroadcast

**State.** Names are kept apart from files. `msgFile` is the request file at
`identifier.msg`, named after the send that created it, and `content[f]` what
each of these files holds, with or without a name; `send[m]` and `fd[m]` are a
send and the file it has open. `srv` and `took` are the server task, `running` its flag,
`cleanup` what stopped tasks still have to remove. `out` is the broadcast file at
`identifier.out` and `log[f]` the pieces of lines that the f-th one holds; `pending` and
`writing` are appends that a thread has not begun, or half done. `reader[c]`, `file[c]`,
`pos[c]`, `offset[c]`, `seen[c]`, `fresh[c]` are a client inside `receive_message`. `at` and
`got` record what it returned; no step reads them. `faults` is chosen at the
beginning and says what may go wrong: `torn`, `cancel`, `crash`, `stop`.

**Actions.** `Create`, `GiveUp`, `WriteHalf`, `WriteRest` are `send_message` and the write
that happens after it; `Take`, `Remove` (with parsing and the handler), `Respond`,
`Broadcast` the server task; `AppendLine`, or `AppendHead` and `AppendTail`, the thread's
write; `Start`, `Stop`, `Exit`, `CleanResponse`, `CleanOut`, `Sweep` (lib.rs 442-449), `Crash`
the server's life; `OpenLog`, `Measure`, `SkipLine`, `TakeLine`, `ReturnLine`, `EndOfFile`,
`OpenResponse`, `TakeResponse` one await each of `receive_message`, and `Cancel` the caller
that drops it.

**Abstractions.** A line is two pieces: the beginning that does not parse, and
the rest. Offsets count pieces. A request that was overlaid by a shorter or
longer one, or is read half written, is `Garbage`; if it is not even UTF-8 the
code reads it again and again, which here is a server that takes no step. The
kernel lets one write of a file happen at a time, and so do `Unlocked` and
`writing`. A rename does not fail, and opening an existing file that may be
opened does not. One server task runs at a time (the lock file of
SingleInstance); an old one may still be cleaning up. All clients are
connected, and a message is sent once.

`OrderedBroadcast` has three variables: what was published with its place, and for
each client what it received and the place of the last one. `Publish` adds a new
message after all others of its file; `Deliver` gives a client a published message
it has not got, behind the last one. Under the refinement mapping
(`Published` in `FileChannel`) a line is published by the append that completes it.

| Run | Instance | Shows | States |
|---|---|---|---|
| `fc_all` | 2 requests, 1 receiving client; no fault, each one alone, all together | `TypeOK`, `HandledOnce`, `NothingSkipped`, `InOrder` (refinement), `Delivered`, `AnswerTaken` | 272 000 |

Why the bounds suffice: every race about the request file is between two sends
and the server, and any number of sends is two at a time; a client meets other
clients only where they take the response, which the server and `Cancel` can also
make disappear. The theorems remove both bounds. The liveness properties are
stated for executions without faults; there a send may still be lost (overwritten,
removed before it was written, given up), so they begin at the handler.

**What fails.** file_based.rs 305-306, "Write to a temp file first, then atomically
rename. This prevents clients from reading a partially written file": the
temporary file is written and removed, and the line is appended to the file
clients are reading. A client that meets half a line passes over it and moves its
offset behind it; when the other half arrives it does not parse either, and the
broadcast is lost to that client. `NothingSkipped` and `Delivered` say so by their premises:
both fail when these admit torn appends.

**Fairness.** Weak fairness of each write of a request, of the server task, of the
threads' appends together, and of each client's receive loop: tokio runs blocking
operations to their end and polls ready tasks. Nothing is assumed of sends, of
`Start`, `Stop`, the clean-up, `Sweep`, `Crash` or `Cancel`.

**Proved** (`FileChannelProofs`), for any number of messages and clients and any
set of faults, from `IInv`, whose parts are each checked by TLC as well as proved:

- `TypeCorrect`. It needs the invariant: appending to a file or reading a piece
  has a type only if the file exists and the position lies in it.
- `HandledAtMostOnce`, from `RequestInv`: a whole request is in one file only, the one
  its send wrote, and once the server has handled it that file has lost its name.
- `OffsetsSkipNothing`, from `LogInv` (the halves of lines alternate, except at an end
  that is being written or was abandoned) and `SkipInv` (offsets and positions are
  at ends of lines, and everything before them was seen).
- `BroadcastsInOrder`, the refinement, from `OnceInv` (a message is with the server, with a
  thread, or in the log, and at one place) and `ReadInv` (what was returned last lies
  before what can be read next, also after the file was replaced).

Only model-checked: `Delivered` and `AnswerTaken` (liveness).

## 6. ShmChannel

**State.** `slots` are the mapped files, one for each server that started; the last one
has the name. Each has a `flag`, and for length and bytes the message they are of, or
`None` for zeros. `send[m]` and `on[m]` are a send and the file it has mapped. `srv` and
`took` are the server task, `host[h]` a broadcast that the primary makes itself
(lib.rs 292), `log` the pieces of the broadcast file (a length, then the bytes).
`reader[c]`, `mapped[c]`, `copied[c]`, `pos[c]`, `seen[c]` are a client inside
`wait_for_response`. `handled` and `served` count the calls of the handler, `at` and `got`
record the broadcasts a client returned; no step reads them, but `served` numbers the
replies, whose ids are new.

**Actions.** `SendFlag`, `SendLen`, `SendData` are the three stores of `send_message`;
`SeeRequest`, `CopyRequest`, `TakeRequest` (clearing the flag, parsing, the handler),
`RespondFlag`, `RespondLen`, `RespondData`, `RespondTooLarge`, `BroadcastLen`, `BroadcastData` the server task;
`HostLen`, `HostData` another broadcast at the same time; `Stop`, `Crash`, `Start` the server's
life; `ReturnBroadcast`, `NoBroadcast`, `NoResponse`, `SeeResponse`, `CopyResponse`,
`TakeResponse` the steps of `wait_for_response`.

**Faults.** `race`: accesses overlap. The code has nothing against it: `acquire_lock`
opens the lock file and does not lock it, and clients do not even open it. The
stores are plain, so another order of them is possible as well; the order of the
source is the one modelled. Without `race`, accesses happen to come one after the
other (`MayBegin`), which shows what the protocol does apart from races.
`crash`: servers stop or crash, and others start, up to `MaxSlots`.

**Abstractions.** A length of one message with the bytes of another parses or does
not (`Parse`): lengths may be equal, and MsgPack ignores what follows a message.
Bytes of two messages mixed are `Garbage`. Linux appends with `pwrite` to a file opened
with O_APPEND whatever the offset, so `write_all_at(.., 0)` and `(.., 4)` both append;
elsewhere they would overwrite the file. The in-process channel of a client has no
sender and never has a message. Timeouts return to a caller that calls again, and
change nothing. One server at a time; a stopping one is gone when the next starts.

| Run | Instance | Shows | States |
|---|---|---|---|
| `shm_all` | 2 requests, 1 broadcast of the primary, 1 receiving client, 2 servers; no fault, crashes, races and crashes | `TypeOK`, `HandledOnce`, `NoMoreThanSent`, `NothingHidden`, `InOrder` (refinement), `Delivered`, `SlotServed` | 750 000 |

Why the bounds suffice: the slot is between one writer and one reader, or two
writers; a second request is what overwrites the first, and the third broadcast is
what interleaves with the others. Clients meet each other only in the slot,
where sends and the server can do the same to one client. The theorems have no bounds.

**What fails.** shared_memory.rs 270, "Only process if flag is 1 (client message)". A
client sets the flag before length and bytes; a server that polls in between finds
the message that was there before. If that is its own last answer, which nobody
took yet, the handler is called with it and it is broadcast, and the request being
written is lost, since its flag has been cleared.

Without races `HandledOnce` and `NothingHidden` hold. With them a client can return a
request or an answer from the slot before it is broadcast; its id is then seen, and
`last_broadcast_position` stays in front of it for ever. And a request whose
response did not fit stays in the slot without its flag: the next sender's flag
makes the server handle it again. What does hold with races:
the handler is never called more often than clients send, and broadcasts stay in
order.

**Fairness.** Weak fairness of the stores of a send that has begun, of the primary's
append, of the server task and of each client's loop. Nothing is assumed of
`SendFlag`, `HostLen`, `Stop`, `Crash` and `Start`. The liveness properties begin at the
handler, or at a flag that is set: a request can be overwritten before.

**Proved** (`ShmChannelProofs`), for any number of requests, clients and servers and any
faults; the invariants were also checked by TLC:

- `TypeCorrect`, with `CopyInv`: a flag that was seen has a length that is not zero, and it
  stays so, which is what makes the copy a message or garbage.
- `CalledPerSend`, from `CallInv`: calls, plus one if a flag is set or has been seen, are at
  most the sends that have begun.
- `BroadcastsInOrder`, from `ReadInv`: a client has returned everything before its position.

- `RequestsHandledOnce` and `NoBroadcastHidden`, from `QuietInv`, which speaks of executions
  without races and follows each id from its sender to where it ends. The id is
  ahead of the log while its request is on its way, held by the server, half in the log, in
  the log, or dead (`LogInv`), and handled only from a slot in which it is whole (`SlotInv`),
  also by a server that starts on what one left that crashed. Accesses are one
  at a time (`Solo`). What a client takes from the slot is dead: the answer to a request has
  an id of its own, and after a crash nobody will broadcast it (`DeadInv`). So what a client
  marks as seen is dead or behind its position (`SeenInv`).

Only model-checked: `Delivered`, `SlotServed` (liveness).

## 7. UnixChannel

**State.** `loop`, `running` and `backlog` are the accept loop, its flag and the
connections made and not accepted; `log` is everything sent to the broadcast channel.
For each connection `c` the server has `task[c]`, `inpart[c]` (what the pending read
has consumed), `out[c]` (what its `write_all` has left) and `pos[c]` (the place of its
broadcast receiver); the client has `client[c]`, `wr[c]` and `rdpart[c]`. `up[c]` and
`down[c]` are the pieces on their way. `sent`, `served`, `got`, `cut`, `lagged` and
`crashed` are history; no step reads the last four of these. `sent` and `log` also keep a
message from being sent twice, and `MoreTraffic` bounds how many there are.

**Actions.** `Connect`, `BeginSend`, `Write`, `WriteFails`, `ReceivePart`, `Receive`,
`ReceiveGarbled`, `Close`, and `DropSend` and `DropReceive` for a caller that drops the
future, are the client; `CheckRunning`, `Accept`, `Stop`, `HostBroadcast`, `Crash`, `Start` the
server; `ReadPart`, `HandleRequest`, `ReadGarbage`, `ReadGarbled`, `ReadEnd`, `TakeBroadcast`,
`Lag`, `Respond`, `RespondFails` the loop of `handle_client`. The handler, the broadcast of
the request and the start of the response are one step, because nothing between them
waits for anybody (unix_socket.rs 147-167).

**Abstractions.** A message is a line of two pieces; a MsgPack message, a length
and a body, has two pieces as well, and what differs is what a reader does that
lost its place: in Json the next line begins anew, in MsgPack the bytes of a body are
a length, and the read waits (`garbled`) or fails. A `garbled` read that is dropped is
followed by one that begins with a length again, wherever that is. A piece says of which
message it is, and two pieces of one message make a line; pieces of two never do. A write moves as much
as there is room for (`room`). The broadcast channel keeps `capacity` messages. The
handler is stored before the server starts, and accept never fails; who may bind is
the subject of SingleInstance.

| Run | Instance | Shows | States |
|---|---|---|---|
| `ux_all` | 9 cases: both formats, buffers of 1 to 3 pieces, a channel of 1 to 3 messages, 1 or 2 connections, up to 4 messages and broadcasts; no fault, dropped sends, dropped receives, `stop`, crash and restart | `TypeOK`, `ServedInOrder`, `AnswersFirst`, `NoSilentGap`, `EndsForCause`, `InOrder` (refinement), `RequestServed`, `BroadcastDelivered` | 240 000 |

Why the bounds suffice: connections meet in the accept loop and in the log only; a second
one is what makes the first's task take a broadcast while it reads. A buffer of one
piece makes every write stop in the middle, one of three lets a read find an end and the
next beginning. Three messages over a channel of one make a receiver lag and go on.
The theorems have none of these bounds.

**What holds, and what does not.** A broadcast that wins the `select!` (unix_socket.rs
114) drops a read with what it consumed. The end of the line is then parsed as a
message of its own and the task ends: a client may lose its connection because
another one was active. In MsgPack the server may instead wait for a length that was
never sent, and the connection is silent. The properties say what remains: nothing is
handled out of order or in part (`ServedInOrder`), the connection ends for no other
reason (`EndsForCause`), and whoever was not cut is served (`RequestServed`). For a
message to disappear without an error, with later ones handled, it takes a second cut.
Either the client drops a send as well, and two halves meet; or, in MsgPack, a second
broadcast drops the read that waits for the wrong length too, and the next one
takes what comes then for a length, which may be one (unix_socket.rs 114, 127-139). The
case `TwoDrops` has such executions; `cut` records the second drop as `"stray"`, and
`ServedInOrder` excepts these two histories and no other.

A comment says that a request is broadcast "to other clients" (unix_socket.rs 163). The
connection it came from is subscribed as well, so its client receives its own message
back. `BroadcastDelivered` claims delivery to the other connections
only, as the comment does. `stop` ends nothing that is served, but waits in accept for one more
connection. Both sides write inside the loop in which they would read: if a client
writes without receiving, and both buffers are full, both wait for ever. The fairness
assumes clients that receive, so the properties are about those.

**Fairness.** Weak fairness of the accept loop, of each connection's task, and of each
client's write that has begun and receive loop (reader and writer have locks of their
own, unix_socket.rs 316-317). Nothing is assumed of `Connect`, `BeginSend`, `HostBroadcast`,
`Stop`, `Close`, `Crash`, `Start` or a dropped call.

**Proved** (`UnixChannelProofs`), for any number of connections and messages, any size
of the buffers, any capacity, both formats and every fault:

- `TypeCorrect`, with `Typing`: what travels to the server is pieces of requests.
- `ServedOrder` and `EndsOnlyForCause`, from `LinkInv`, whose parts TLC checked as well. `Coming(c)`
  is what the pending read has consumed followed by what it has not. While no read was
  dropped with something in it or after it had lost its place, the messages begun and not
  handled begin in `Coming(c)`, in their order and nothing else does (`Tracked`), also if
  writes were cut. While
  nothing was cut, beginnings and ends take turns (`Aligned`), so a read that comes to
  an end has a whole line: a damaged one is evidence of a cut. After the server has
  dropped a beginning the end of its line comes first (`Headless`), so the next line read is
  damaged and the task ends or loses its place; that is why one cut does not hide a gap. If the
  client cut a line too, or a read that had lost its place was dropped, `Headless` fails:
  these are the exceptions in `ServedInOrder`.

`UnixOrderProofs` is about the other direction. `Stream(c)` is what the client has heard
followed by what is on its way to it: consumed by its pending read, in the socket, and
not written yet. Moving a piece along leaves the stream as it is, and so every property
of it holds at the client in the end. Its invariant `OrderInv` has two parts:

- `Flow`, for each connection: broadcasts rise along the stream and none is beyond the
  receiver's position. If the client dropped no read (`Whole`), the stream is unbroken:
  lines alternate, the answers come once each in the order of the requests
  and before the broadcast of their request (`Orderly`), and between two broadcasts none is
  missing unless the receiver lagged (`Solid`, and `SolidTo` the position).
- `Unique`, for all connections together: a request is still pending at one place, or,
  once handled, is in the log at one place. `Orderly` needs it for the broadcast of a
  request, which must not be in the log before the request is handled.

From it:

- `AnswersComeFirst`, `NoGapHidden`.
- `BroadcastsInOrder`, the refinement of `OrderedBroadcast`: a step of the log publishes, because
  by `Unique` the message was not in it; a client that receives the end of a broadcast
  delivers, because by `Flow` it is beyond the last one; every other step stutters.

Only model-checked: `RequestServed`, `BroadcastDelivered` (liveness).

## 8. CAbi

**State.** `call[k]` is the call in progress on a client handle and its connection,
`kept[k]` the connection the handle keeps (`handle.client`), `stack` is
`AppHandle.messages`. `taken`, `done` and `joined` are history.

**Actions.** `CallSend`, `SendGoes`, `SendReturns` are `ipc_client_send` with the writes of
UnixChannel inside it; `CallReceive`, `ReceiveReturns` are `ipc_client_receive`, whose 50 ms
may end a read anywhere (`DropReceive`); `Disconnect`, `CallPing`, `PingReturns`; `Push` is a step of a
connection's task, with the handler that stores the message; `Pop` is `ipc_app_receive`,
`Broadcast` is `ipc_app_broadcast`. `Joins`, `Dies`, `Restarts` are UnixChannel's.

**Abstractions.** A handle is used by one thread at a time. The conversions of
strings and `ipc_app_set_protocol` are left out, and the connection is over UnixSocket, which is
what the transport's faults are about. Neither handle sets a format, so both ends have the
default, Json (`FormatAssumption`). `ipc_app_enforce_single_instance` is SingleInstance.

| Run | Instance | Shows | States |
|---|---|---|---|
| `cabi_all` | 2 handles, 2 connections, 2 messages and broadcasts, a channel of 1; with 50 ms that end reads, or these and a crash with a restart | `AcceptedOnce`, `AcceptedTaken` | 411 000 |

Two handles let one send while the other receives, or two messages wait in the
stack. `SendReturns` closes a connection the server may not have accepted yet, which is the
interesting case.

**What holds, and what does not.** A send that returned 0 has written its message and
gone. If the connection's task takes a broadcast before it reads, it fails to write it
and ends, and the message is lost although the send succeeded: `Overtaken` names this, and
`AcceptedOnce` that there is no other way while the process the message was sent to lives;
it speaks of each connection, so it goes on for those made after a restart. `messages` is a stack
(c_abi.rs 52 and 165 push and pop the same end), which its comment calls a queue (c_abi.rs 15): the
last message is received first. `AcceptedTaken` holds because a finite number of messages is
sent; a stream of new ones could hide an old one for ever. A handle keeps a connection that
has failed until `ipc_client_disconnect` is called.

**Fairness.** Weak fairness of the server's tasks, of its program's `ipc_app_receive`, and
of a send that has begun. Nothing is assumed of receivers.

**Proved** (`CAbiProofs`), for any number of handles, connections and messages, any
buffers and capacity, and restarts of the server:

- `AbiKeepsPromise` and `AbiBroadcastsInOrder`: the transport keeps its promises under the
  interface. Every step of CAbi is a step of UnixChannel or none, except `CallSend`, which connects
  and begins to write in one; the invariants of UnixChannel are kept by that one as well, and
  by the others because of the lemmas about UnixChannel. `ipc_client_send` drops no write, and
  in Json a task that reads a damaged line ends (`NoTwoCuts`), so the exceptions in
  `ServedInOrder` do not apply. `ipc_client_receive` does drop reads; its
  broadcasts come in order all the same.
- `AcceptedInOnePlace`, that is `AcceptedOnce`, from `AbiInv`. A connection that is sent over
  belongs to one handle and carries one line (`Sender`), a message is sent once (`SentOnce`), and
  a send that returned 0 left the whole line behind (`Finished`): by `LinkInv` it is read
  before the end of the connection is, unless the task ends before. What a task loses, and
  what it ends for, comes from a broadcast made after it subscribed, or from a client that
  has gone with everything served (`After`). What was handled is in the stack or was taken
  from it, once (`InPlace`); a second call for the same message is excluded by `Unique`.

Only model-checked: `AcceptedTaken` (liveness).

## 9. RenderServer

**State.** `at[r]`, `conn[r]` and `hearing[r]` are the loop of a client program, its connection and
whether its messenger's receiver task runs. `handler` is the connection whose handler runs and
how many of its two locks it has had; `pixels` and `flag` are what it shares with the
event loop, `drawing` what the event loop holds, and `texture` what the window shows.

**Actions.** `Join`, `NextFrame`, `SendFrame` are the client's loops, `Hear` and `Deaf` the
receiver task of its Messenger; `StoreFrame` (twice) and `Answered` the handler, inside
`HandleRequest`; `Others` the rest of a connection's task; `Look`, `Skip`, `Upload`, `Drawn`,
`Rendered` the event loop. It takes the flag's lock at each redraw, looks, and keeps it until
`render` returns (main.rs 346-357); if the flag is up it takes the pixels' lock in it and
releases that one before it renders. The handler takes one after the other.

**Abstractions.** Pixels are the message they came in; a frame of the wrong size is
`Malformed`, and answered by default. Rendering, resizing and the pauses between frames are left out.
The client programs are alike, so they are numbered in the order of their first connection.

| Run | Instance | Shows | States |
|---|---|---|---|
| `frames_all` | 2 programs, 2 connections, 2 frames and one of the wrong size; buffers of 1 piece, and a crash with buffers of 3 | `Fresh`, `FrameShown`, `FrameAnswered` | 273 000 |

Two programs are needed for a frame to be broadcast to a connection that is reading one;
a third frame makes one program lose its place while it waits for its answer.

**What holds, and what does not.** A frame is never forgotten between the two locks, in
either order of the event loop's steps; raising the flag first would (the mutant
`FlagFirst`). A request is answered and the loop goes on, unless a broadcast of
another client's frame cut the request, or the server died while the client waited. Then
the receiver task ends, the request stays for ever (section 4), and the outer loop that
is there "for automatic reconnection" (client.rs 22) is not reached.

**Fairness.** Weak fairness of each program's send and receiver task, of each
connection's task, of the event loop (it requests a redraw after each, main.rs 365) and of the accept
loop. The handler's steps through its locks are strongly fair, all connections together: the event loop comes back
for the flag's lock at every redraw, and the handler is assumed to get it at one of the
times it is free. A std `Mutex` promises no order among those who wait; that a thread is
passed over for ever is what the assumption excludes.

**Proved** (`RenderServerProofs`), for any number of clients and frames and every case of
the transport:

- `FrameFresh`, from `FreshInv`: the flag is up while the event loop holds the pixels' lock,
  and `texture = pixels` from the upload until the flag is lowered, because the handler
  cannot have that lock in between.
- `FramesOverUnix`: every step of the example is one of UnixChannel or leaves it alone,
  because a program that is past the place where it connects has a connection
  (`ProgramInv`). No program drops a send or a read (`Finishes`), so `AnswersFirst` holds for
  every connection.
- `FramesInOrder`, that is `FramesOrdered`, which TLC finds to hold in the cases of `frames_all`
  too: also the exceptions of `ServedInOrder` do not
  apply, although both programs use MsgPack and broadcasts drop reads, twice too. The
  invariant is `SerialInv`. Of the frames sent over a connection at most the last is not
  handled, and all before it are answered (`Serial`), because a program begins a frame only
  when the last one is answered (`Alike`). Once a read was dropped with the beginning of a
  frame, only ends of lines are on their way, and no frame follows: the request is never
  answered, so whatever the reads after it take for a length, there is no whole line to
  be handled.

Only model-checked: `FrameShown`, `FrameAnswered` (liveness).

## 10. Not modelled

- **UniFFI bindings.** Every method locks the one mutex around the application
  for its whole length, so one call runs at a time, and it behaves as SingleInstance does
  for one caller; the rest converts records.
- **Chat example.** Two `select!` loops over stdin and a session of the default
  protocol, SharedMemory. What an idle timeout, a dropped receive and a failed send do to
  the session is in ShmChannel; the rest prints.
- **InMemory server task.** No client ever gets a sender (in_memory.rs 169), so the
  task, which would serve one message and then spin, never receives one. That starting
  and connecting always succeed is in SingleInstance.
- **Storing the handler.** `set_message_handler` stores it in a task of its own, in every
  transport; the modules begin when it is there. A first request that is read before is
  answered by default.
- Windows (`cfg(windows)` branches, named pipes), logging, the serialization of
  message types, rendering, the TypeScript examples and the CI.

Two notes for readers of the documents: README.md 47 gives UnixSocket as the default protocol
while `CommunicationConfig::default` takes SharedMemory; and over every transport clients
receive their own messages back as broadcasts, which file_based.rs 248 expects them to
filter, while shared_memory.rs 634 and unix_socket.rs 163 say that the sender is left out.

All runs set `CHECK_DEADLOCK FALSE`: an execution may end, with every process
returned or every request answered.
