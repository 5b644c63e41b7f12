--------------------------- MODULE MCPublication ---------------------------
(* Small instances of Publication for TLC. *)
EXTENDS Publication, TLC

CONSTANTS o1, o2, ann

Alike == Permutations(Orders)
=============================================================================
