-------------------------- MODULE OrderedBroadcast --------------------------
(***************************************************************************)
(* What a broadcast over a shared log promises its clients, whatever       *)
(* happens to the log's files, its writers and its readers: a client       *)
(* receives messages that were published whole, each at most once, and in  *)
(* the order of their places.  It does not promise that it receives all of *)
(* them.                                                                   *)
(*                                                                         *)
(* The log is a succession of epochs (one per file).  A place is an epoch  *)
(* and an index in it; places are ordered by epoch first.  A message may   *)
(* still be published in an epoch that is no longer the last.              *)
(***************************************************************************)
EXTENDS Naturals

CONSTANTS
  Messages,  \* the messages that may be published
  Clients    \* the clients that receive them

VARIABLES
  published,  \* the published messages, each with its place
  at,         \* at[c]: the place of the last message client c received
  got         \* got[c]: the messages client c received

vars == <<published, at, got>>

Entries == [msg : Messages, epoch : Nat, index : Nat]

Before(p, q) == p[1] < q[1] \/ (p[1] = q[1] /\ p[2] < q[2])
PlaceOf(e) == <<e.epoch, e.index>>

Init ==
  /\ published = {}
  /\ at = [c \in Clients |-> <<0, 0>>]
  /\ got = [c \in Clients |-> {}]

\* A message is published once, after all others of its epoch.
Publish(e) ==
  /\ \A f \in published : f.msg # e.msg
  /\ \A f \in published : f.epoch = e.epoch => f.index < e.index
  /\ published' = published \cup {e}
  /\ UNCHANGED <<at, got>>

Deliver(c, e) ==
  /\ e \in published
  /\ e.msg \notin got[c]
  /\ Before(at[c], PlaceOf(e))
  /\ at' = [at EXCEPT ![c] = PlaceOf(e)]
  /\ got' = [got EXCEPT ![c] = @ \cup {e.msg}]
  /\ UNCHANGED published

\* (Entries is infinite: the entry is looked for in what is published next.)
Next ==
  \/ \E e \in published' : e \in Entries /\ Publish(e)
  \/ \E c \in Clients : \E e \in published : Deliver(c, e)

Spec == Init /\ [][Next]_vars
=============================================================================
