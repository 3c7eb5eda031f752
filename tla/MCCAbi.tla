------------------------------ MODULE MCCAbi ------------------------------
(***************************************************************************)
(* CAbi in cases small enough to be explored.                              *)
(***************************************************************************)
EXTENDS CAbi

\* The interface leaves the format at its default, Json.
Case(r, faulty, n, k) ==
  [format |-> "Json", room |-> r, capacity |-> 1, faults |-> faulty,
   hosts |-> Hosted, conns |-> n, traffic |-> k]
SmallCases ==
  {Case(3, {"receive"}, 2, 2), Case(1, {"receive", "crash"}, 2, 2)}
=============================================================================
