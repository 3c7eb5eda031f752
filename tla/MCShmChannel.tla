---------------------------- MODULE MCShmChannel ----------------------------
(***************************************************************************)
(* ShmChannel with sets of faults small enough to be explored.             *)
(***************************************************************************)
EXTENDS ShmChannel

\* Without faults, with crashes, and with both (a server need not crash).
Faults == {{}, {"crash"}, {"race", "crash"}}
Race == {{"race"}}
=============================================================================
