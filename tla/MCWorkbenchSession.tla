------------------------- MODULE MCWorkbenchSession -------------------------
(* Small instances of WorkbenchSession for TLC. *)
EXTENDS WorkbenchSession, TLC

CONSTANTS chat, m1, m2, p1, p2, s1, s2, batch, draft

Alike == Permutations(Members) \cup Permutations(Procs) \cup Permutations(Slots)
=============================================================================
