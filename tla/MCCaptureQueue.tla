--------------------------- MODULE MCCaptureQueue ---------------------------
(* Small instances of CaptureQueue for TLC. *)
EXTENDS CaptureQueue, TLC

CONSTANTS j1, j2, b1, o1, kimi, p1, p2, s1, s2

(* One batch, one platform: the breaker concerns every job. *)
OneBatch == [j \in Jobs |-> b1]
OnePlatform == [j \in Jobs |-> kimi]
OneOrg == [b \in Batches |-> o1]

WorkersAlike == Permutations(Procs) \cup Permutations(Slots)
=============================================================================
