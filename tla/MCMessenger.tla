---------------------------- MODULE MCMessenger ----------------------------
(***************************************************************************)
(* Messenger on small sets of calls and messengers.  Calls differ in what  *)
(* Init chooses for them (messenger, id) and in nothing else, and so do    *)
(* messengers and ids: safety runs may permute them.                       *)
(***************************************************************************)
EXTENDS Messenger, TLC

Symmetry == Permutations(Calls) \cup Permutations(Messengers) \cup Permutations(Ids)
=============================================================================
