--------------------------- MODULE MCRenderServer ---------------------------
(***************************************************************************)
(* RenderServer in cases small enough to be explored.                      *)
(***************************************************************************)
EXTENDS RenderServer

\* Both programs use MsgPack.
Case(r, faulty, n, k) ==
  [format |-> "MsgPack", room |-> r, capacity |-> 2, faults |-> faulty,
   hosts |-> {}, conns |-> n, traffic |-> k]
SmallCases == {Case(1, {}, 1, 3), Case(1, {}, 2, 2), Case(3, {"crash"}, 2, 1)}
=============================================================================
