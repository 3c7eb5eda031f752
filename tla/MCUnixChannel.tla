--------------------------- MODULE MCUnixChannel ---------------------------
(***************************************************************************)
(* UnixChannel in cases small enough to be explored.                       *)
(***************************************************************************)
EXTENDS UnixChannel

TwoHosted == {"h1", "h2"}

\* Format, room, capacity, faults, connections, traffic.
Case(f, r, q, faulty, n, k) ==
  [format |-> f, room |-> r, capacity |-> q, faults |-> faulty,
   hosts |-> {"h1"}, conns |-> n, traffic |-> k]

\* Two broadcasts may drop two reads of one line.
TwoDrops == [Case("MsgPack", 1, 2, {}, 1, 4) EXCEPT !.hosts = TwoHosted]

\* The connection made after the restart has a message of its own.
Restarted == [Case("Json", 2, 2, {"crash"}, 2, 2) EXCEPT !.hosts = {}]

SmallCases ==
  {Case("Json", 2, 2, {}, 2, 2), Case("MsgPack", 3, 1, {}, 1, 3), TwoDrops,
   Case("Json", 3, 1, {"receive"}, 1, 3), Case("MsgPack", 3, 1, {"receive"}, 1, 3),
   Case("Json", 1, 1, {"send"}, 1, 3), Case("MsgPack", 1, 1, {"send"}, 1, 3),
   Case("Json", 1, 3, {"stop"}, 2, 1), Restarted}
=============================================================================
