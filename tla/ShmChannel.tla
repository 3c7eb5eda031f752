----------------------------- MODULE ShmChannel -----------------------------
(***************************************************************************)
(* The SharedMemory transport on Linux                                     *)
(* (src/src/communication/shared_memory.rs), access by access.             *)
(*                                                                         *)
(* One slot in a mapped file serves requests and responses: a flag (0      *)
(* empty, 1 request, 2 response), a length, and the bytes.  Whoever writes *)
(* it sets the flag first, then the length, then the bytes; whoever reads  *)
(* it looks at the flag, copies the message, then clears the flag.  No     *)
(* access excludes another one.  Broadcasts are appended, a length and     *)
(* then the bytes, to a file that is never removed and that every client   *)
(* reads from a position of its own.                                       *)
(*                                                                         *)
(* A server that starts replaces the mapped file; who has the earlier one  *)
(* mapped goes on with that.  There is one server at a time (see           *)
(* SingleInstance).                                                        *)
(***************************************************************************)
EXTENDS Naturals, Sequences, FiniteSets

CONSTANTS
  Messages,   \* what clients request, each at most once
  Hosted,     \* what the primary broadcasts itself, each at most once
  Clients,    \* the clients that receive, one task each
  None,       \* nothing
  Garbage,    \* bytes that do not parse
  FaultSets,  \* which faults may happen together: sets of the names below
  MaxSlots    \* bound: how many servers there are, one after the other

ASSUME NamesAssumption == Messages \cap Hosted = {}
ASSUME FaultAssumption == FaultSets \subseteq SUBSET {"race", "crash"}
ASSUME FiniteAssumption == IsFiniteSet(Messages)

VARIABLES
  faults,   \* the faults of this execution
  slots,    \* slots[n]: the n-th mapped file; the last one has the name
  send,     \* send[m]: how far the request m is written
  on,       \* on[m]: the mapped file it is written to
  srv,      \* where the server task is
  took,     \* what the server has copied
  handled,  \* handled[m]: how often the handler was called with m
  served,   \* how many messages the handler was called with
  host,     \* host[h]: how far the broadcast h of the primary is written
  log,      \* the pieces the broadcast file holds
  reader,   \* reader[c]: where c is in wait_for_response
  mapped,   \* mapped[c]: the mapped file c has open
  copied,   \* copied[c]: what c has copied from it
  pos,      \* last_broadcast_position of c
  seen,     \* seen_message_ids of c
  at,       \* at[c]: the place of the last broadcast c returned (history)
  got       \* got[c]: the broadcasts c returned (history)

sending == <<send, on>>
server  == <<srv, took, handled, served>>
reading == <<reader, mapped, copied, pos, seen>>
history == <<at, got>>
vars    == <<faults, slots, sending, server, host, log, reading, history>>

\* A message is what it is about and a number: 0 for a request or a broadcast
\* of the primary, and for a reply that of the call of the handler it answers.
Ids == (Messages \cup Hosted) \X Nat
Original(m) == <<m, 0>>

ASSUME NoneAssumption == None \notin Ids

Slots == [flag : 0..2, len : Ids \cup {None}, data : Ids \cup {None}]
EmptySlot == [flag |-> 0, len |-> None, data |-> None]

\* Of a broadcast, the file has the length first and the bytes later.
Pieces == [msg : Ids, end : BOOLEAN]
LengthOf(x) == [msg |-> x, end |-> FALSE]
BytesOf(x) == [msg |-> x, end |-> TRUE]

\* The length of one message with the bytes of another may or may not do.
Parse(slot) ==
  IF slot.len = slot.data THEN {slot.data} ELSE {slot.data, Garbage} \ {None}

Init ==
  /\ faults \in FaultSets
  /\ slots = <<EmptySlot>>
  /\ send = [m \in Messages |-> "idle"]
  /\ on = [m \in Messages |-> 1]
  /\ srv = "idle" /\ took = None
  /\ handled = [m \in Messages |-> 0] /\ served = 0
  /\ host = [h \in Hosted |-> "idle"]
  /\ log = <<>>
  /\ reader = [c \in Clients |-> "poll"]
  /\ mapped = [c \in Clients |-> 1]
  /\ copied = [c \in Clients |-> None]
  /\ pos = [c \in Clients |-> 0]
  /\ seen = [c \in Clients |-> {}]
  /\ at = [c \in Clients |-> <<0, 0>>]
  /\ got = [c \in Clients |-> {}]

-----------------------------------------------------------------------------
\* Who is between the first and the last step of an access.
Busy ==
  \/ \E m \in Messages : send[m] \in {"flag", "len"}
  \/ srv \in {"flagged", "copied", "reflag", "relen", "appending"}
  \/ \E h \in Hosted : host[h] = "half"
  \/ \E c \in Clients : reader[c] \in {"flagged", "copied"}

\* Without races accesses happen to come one after the other.  Nothing in the
\* code makes them: opening the lock file does not lock it.
MayBegin == "race" \in faults \/ ~Busy

-----------------------------------------------------------------------------
(* send_message.                                                           *)

SendFlag(m) ==
  /\ send[m] = "idle"
  /\ MayBegin
  /\ send' = [send EXCEPT ![m] = "flag"]
  /\ on' = [on EXCEPT ![m] = Len(slots)]
  /\ slots' = [slots EXCEPT ![Len(slots)].flag = 1]
  /\ UNCHANGED <<faults, server, host, log, reading, history>>

SendLen(m) ==
  /\ send[m] = "flag"
  /\ send' = [send EXCEPT ![m] = "len"]
  /\ slots' = [slots EXCEPT ![on[m]].len = Original(m)]
  /\ UNCHANGED <<faults, on, server, host, log, reading, history>>

SendData(m) ==
  /\ send[m] = "len"
  /\ send' = [send EXCEPT ![m] = "done"]
  /\ slots' = [slots EXCEPT ![on[m]].data = Original(m)]
  /\ UNCHANGED <<faults, on, server, host, log, reading, history>>

Send(m) == SendLen(m) \/ SendData(m)

-----------------------------------------------------------------------------
(* The server task.                                                        *)

current == slots[Len(slots)]

\* Mutant: any flag is taken for a request.
SeeAnyFlag ==
  /\ srv = "idle"
  /\ current.flag # 0
  /\ current.len # None
  /\ MayBegin
  /\ srv' = "flagged"
  /\ UNCHANGED <<faults, slots, sending, took, handled, served, host, log,
                 reading, history>>

\* wait_for_message: the flag says there is a request.  A length of zero is
\* passed over.
SeeRequest ==
  /\ srv = "idle"
  /\ current.flag = 1
  /\ current.len # None
  /\ MayBegin
  /\ srv' = "flagged"
  /\ UNCHANGED <<faults, slots, sending, took, handled, served, host, log,
                 reading, history>>

CopyRequest ==
  /\ srv = "flagged"
  /\ srv' = "copied"
  /\ took' \in Parse(current)
  /\ UNCHANGED <<faults, slots, sending, handled, served, host, log, reading,
                 history>>

\* What does not parse is an error, anything else goes to the handler.
Handle ==
  IF took = Garbage
  THEN srv' = "idle" /\ took' = None /\ UNCHANGED <<handled, served>>
  ELSE /\ srv' = "handled"
       /\ served' = served + 1
       /\ handled' = [m \in Messages |->
                        handled[m] + IF took = Original(m) THEN 1 ELSE 0]
       /\ UNCHANGED took

\* The flag is cleared, whoever has set it since.
TakeRequest ==
  /\ srv = "copied"
  /\ slots' = [slots EXCEPT ![Len(slots)].flag = 0]
  /\ Handle
  /\ UNCHANGED <<faults, sending, host, log, reading, history>>

\* Mutant: a reply has the id of what it answers.
ReplyWithSameId == <<took[1], 0>>

\* The id of a reply is new.
Reply == <<took[1], served>>

\* Mutant: the flag of a request.
RespondWithRequestFlag ==
  /\ srv = "handled"
  /\ MayBegin
  /\ srv' = "reflag"
  /\ slots' = [slots EXCEPT ![Len(slots)].flag = 1]
  /\ UNCHANGED <<faults, sending, took, handled, served, host, log, reading, history>>

\* send_response, over whatever the slot holds.
RespondFlag ==
  /\ srv = "handled"
  /\ MayBegin
  /\ srv' = "reflag"
  /\ slots' = [slots EXCEPT ![Len(slots)].flag = 2]
  /\ UNCHANGED <<faults, sending, took, handled, served, host, log, reading, history>>

RespondLen ==
  /\ srv = "reflag"
  /\ srv' = "relen"
  /\ slots' = [slots EXCEPT ![Len(slots)].len = Reply]
  /\ UNCHANGED <<faults, sending, took, handled, served, host, log, reading, history>>

RespondData ==
  /\ srv = "relen"
  /\ srv' = "answered"
  /\ slots' = [slots EXCEPT ![Len(slots)].data = Reply]
  /\ UNCHANGED <<faults, sending, took, handled, served, host, log, reading, history>>

\* A response that does not fit is not written, and the error is dropped: the
\* slot keeps the request, without its flag.
RespondTooLarge ==
  /\ srv = "handled"
  /\ srv' = "answered"
  /\ UNCHANGED <<faults, slots, sending, took, handled, served, host, log, reading,
                 history>>

\* broadcast: the message goes to every client, also to the one that sent it.
BroadcastLen ==
  /\ srv = "answered"
  /\ MayBegin
  /\ srv' = "appending"
  /\ log' = Append(log, LengthOf(took))
  /\ UNCHANGED <<faults, slots, sending, took, handled, served, host, reading, history>>

BroadcastData ==
  /\ srv = "appending"
  /\ srv' = "idle"
  /\ took' = None
  /\ log' = Append(log, BytesOf(took))
  /\ UNCHANGED <<faults, slots, sending, handled, served, host, reading, history>>

Serve ==
  \/ SeeRequest \/ CopyRequest \/ TakeRequest
  \/ RespondFlag \/ RespondLen \/ RespondData \/ RespondTooLarge
  \/ BroadcastLen \/ BroadcastData

\* The primary broadcasts while its server task runs.
HostLen(h) ==
  /\ host[h] = "idle" /\ srv # "down"
  /\ MayBegin
  /\ host' = [host EXCEPT ![h] = "half"]
  /\ log' = Append(log, LengthOf(Original(h)))
  /\ UNCHANGED <<faults, slots, sending, server, reading, history>>

HostData(h) ==
  /\ host[h] = "half"
  /\ host' = [host EXCEPT ![h] = "done"]
  /\ log' = Append(log, BytesOf(Original(h)))
  /\ UNCHANGED <<faults, slots, sending, server, reading, history>>

-----------------------------------------------------------------------------
(* The server's life.                                                      *)

\* The task ends when it next looks at is_running, and leaves both files.
Stop ==
  /\ "crash" \in faults
  /\ srv = "idle"
  /\ srv' = "down"
  /\ UNCHANGED <<faults, slots, sending, took, handled, served, host, log, reading,
                 history>>

\* The process ends, and what the primary was broadcasting with it.
Crash ==
  /\ "crash" \in faults
  /\ srv # "down"
  /\ srv' = "down"
  /\ took' = None
  /\ host' = [h \in Hosted |-> IF host[h] = "half" THEN "lost" ELSE host[h]]
  /\ UNCHANGED <<faults, slots, sending, handled, served, log, reading, history>>

\* A new server replaces the mapped file, not the broadcast file.
Start ==
  /\ srv = "down"
  /\ Len(slots) < MaxSlots
  /\ srv' = "idle"
  /\ slots' = Append(slots, EmptySlot)
  /\ UNCHANGED <<faults, sending, took, handled, served, host, log, reading, history>>

-----------------------------------------------------------------------------
(* receive_message: a broadcast comes first, then the slot.                *)

\* Mutant: the bytes must end before the end of the file.
WholeBeforeEnd(i) ==
  /\ i + 2 < Len(log)
  /\ log[i + 1] = LengthOf(log[i + 1].msg)
  /\ log[i + 2] = BytesOf(log[i + 1].msg)

\* The file has a length and the bytes it announces at the client's position.
Whole(i) ==
  /\ i + 2 <= Len(log)
  /\ log[i + 1] = LengthOf(log[i + 1].msg)
  /\ log[i + 2] = BytesOf(log[i + 1].msg)

\* Mutant: the seen ids are not looked at.
NewsAgain(c) == Whole(pos[c])

News(c) == Whole(pos[c]) /\ log[pos[c] + 1].msg \notin seen[c]

ReturnBroadcast(c) ==
  /\ reader[c] = "poll"
  /\ News(c)
  /\ LET x == log[pos[c] + 1].msg
     IN /\ seen' = [seen EXCEPT ![c] = @ \cup {x}]
        /\ got' = [got EXCEPT ![c] = @ \cup {x}]
  /\ pos' = [pos EXCEPT ![c] = @ + 2]
  /\ at' = [at EXCEPT ![c] = <<1, pos[c] + 2>>]
  /\ UNCHANGED <<faults, slots, sending, server, host, log, reader, mapped, copied>>

\* The position stays where it is.
NoBroadcast(c) ==
  /\ reader[c] = "poll"
  /\ ~News(c)
  /\ reader' = [reader EXCEPT ![c] = "slot"]
  /\ UNCHANGED <<faults, slots, sending, server, host, log, mapped, copied, pos,
                 seen, history>>

NoResponse(c) ==
  /\ reader[c] = "slot"
  /\ current.flag # 2 \/ current.len = None
  /\ reader' = [reader EXCEPT ![c] = "poll"]
  /\ UNCHANGED <<faults, slots, sending, server, host, log, mapped, copied, pos,
                 seen, history>>

SeeResponse(c) ==
  /\ reader[c] = "slot"
  /\ current.flag = 2
  /\ current.len # None
  /\ MayBegin
  /\ reader' = [reader EXCEPT ![c] = "flagged"]
  /\ mapped' = [mapped EXCEPT ![c] = Len(slots)]
  /\ UNCHANGED <<faults, slots, sending, server, host, log, copied, pos, seen, history>>

CopyResponse(c) ==
  /\ reader[c] = "flagged"
  /\ reader' = [reader EXCEPT ![c] = "copied"]
  /\ \E x \in Parse(slots[mapped[c]]) : copied' = [copied EXCEPT ![c] = x]
  /\ UNCHANGED <<faults, slots, sending, server, host, log, mapped, pos, seen, history>>

\* Mutant: what does not parse is marked as well.
TakeUnparsed(c) ==
  /\ reader[c] = "copied"
  /\ slots' = [slots EXCEPT ![mapped[c]].flag = 0]
  /\ seen' = [seen EXCEPT ![c] = @ \cup {copied[c]}]
  /\ reader' = [reader EXCEPT ![c] = "poll"]
  /\ copied' = [copied EXCEPT ![c] = None]
  /\ UNCHANGED <<faults, sending, server, host, log, mapped, pos, history>>

\* Mutant: the flag stays.
TakeAndKeep(c) ==
  /\ reader[c] = "copied"
  /\ seen' = [seen EXCEPT ![c] = @ \cup ({copied[c]} \ {Garbage})]
  /\ reader' = [reader EXCEPT ![c] = "poll"]
  /\ copied' = [copied EXCEPT ![c] = None]
  /\ UNCHANGED <<faults, slots, sending, server, host, log, mapped, pos, history>>

\* What parses is marked as seen; it is returned unless it was seen before.
TakeResponse(c) ==
  /\ reader[c] = "copied"
  /\ slots' = [slots EXCEPT ![mapped[c]].flag = 0]
  /\ seen' = [seen EXCEPT ![c] = @ \cup ({copied[c]} \ {Garbage})]
  /\ reader' = [reader EXCEPT ![c] = "poll"]
  /\ copied' = [copied EXCEPT ![c] = None]
  /\ UNCHANGED <<faults, sending, server, host, log, mapped, pos, history>>

Receive(c) ==
  \/ ReturnBroadcast(c) \/ NoBroadcast(c)
  \/ NoResponse(c) \/ SeeResponse(c) \/ CopyResponse(c) \/ TakeResponse(c)

Next ==
  \/ \E m \in Messages : SendFlag(m) \/ Send(m)
  \/ Serve
  \/ \E h \in Hosted : HostLen(h) \/ HostData(h)
  \/ Stop \/ Crash \/ Start
  \/ \E c \in Clients : Receive(c)

Spec == Init /\ [][Next]_vars

\* Who has begun to write goes on, and the server and the clients poll.  Nobody
\* has to send, to broadcast, or to start a server.
Fairness ==
  /\ \A m \in Messages : WF_vars(Send(m))
  /\ \A h \in Hosted : WF_vars(HostData(h))
  /\ WF_vars(Serve)
  /\ \A c \in Clients : WF_vars(Receive(c))

FairSpec == Spec /\ Fairness

-----------------------------------------------------------------------------
(* Properties.                                                             *)

\* Every variable has its type.
TypeOK ==
  /\ faults \in FaultSets
  /\ slots \in Seq(Slots) /\ slots # <<>>
  /\ send \in [Messages -> {"idle", "flag", "len", "done"}]
  /\ on \in [Messages -> 1..Len(slots)]
  /\ srv \in {"down", "idle", "flagged", "copied", "handled", "reflag", "relen",
              "answered", "appending"}
  /\ took \in Ids \cup {None, Garbage}
  /\ handled \in [Messages -> Nat]
  /\ served \in Nat
  /\ host \in [Hosted -> {"idle", "half", "done", "lost"}]
  /\ log \in Seq(Pieces)
  /\ reader \in [Clients -> {"poll", "slot", "flagged", "copied"}]
  /\ mapped \in [Clients -> 1..Len(slots)]
  /\ copied \in [Clients -> Ids \cup {None, Garbage}]
  /\ pos \in [Clients -> Nat]
  /\ seen \in [Clients -> SUBSET Ids]
  /\ at \in [Clients -> Nat \X Nat]
  /\ got \in [Clients -> SUBSET Ids]

\* Unless accesses race, a request reaches the handler at most once, and nothing
\* but requests does, over crashes and new servers.
HandledOnce ==
  "race" \notin faults =>
    /\ \A m \in Messages : handled[m] <= 1
    /\ srv = "handled" => took[2] = 0

\* However accesses race, the handler is not called more often than clients have
\* begun to send: a flag that is set is taken once.
NoMoreThanSent == served <= Cardinality({m \in Messages : send[m] # "idle"})

\* Unless accesses race, no broadcast ahead of a client has an id it has seen:
\* such a broadcast would hide everything behind it, as the position stays.
NothingHidden ==
  "race" \notin faults =>
    \A c \in Clients : \A i \in DOMAIN log : i > pos[c] => log[i].msg \notin seen[c]

\* The broadcasts a client returns are whole messages of the log, each once and
\* in the order of the log, over races, crashes and new servers.
Published ==
  {[msg |-> log[i].msg, epoch |-> 1, index |-> i] :
     i \in {j \in DOMAIN log :
              /\ j > 1 /\ Whole(j - 2)
              /\ \A k \in 1..(j - 1) : log[k] # log[j]}}

Broadcasts == INSTANCE OrderedBroadcast
                WITH Messages <- Ids, published <- Published
InOrder == Broadcasts!Spec

\* Without faults every client returns every message that was handled and every
\* broadcast of the primary.
Delivered ==
  \A m \in Messages \cup Hosted, c \in Clients :
    /\ faults = {}
    /\ IF m \in Messages THEN handled[m] = 1 ELSE host[m] = "done"
    ~> Original(m) \in got[c]

\* Without faults neither a request nor an answer stays in the slot for ever.
SlotServed ==
  \A f \in {1, 2} : faults = {} /\ current.flag = f ~> current.flag # f
=============================================================================
