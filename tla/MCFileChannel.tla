--------------------------- MODULE MCFileChannel ---------------------------
(***************************************************************************)
(* FileChannel with sets of faults small enough to be explored.            *)
(***************************************************************************)
EXTENDS FileChannel

\* No fault, each one alone, and all of them together.
Faults == {{}, {"torn"}, {"cancel"}, {"crash"}, {"stop"},
           {"torn", "cancel", "crash", "stop"}}
Torn == {{"torn"}}
=============================================================================
