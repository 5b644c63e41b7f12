---------------------------- MODULE MCReviewJobs ----------------------------
(* Small instances of ReviewJobs for TLC. *)
EXTENDS ReviewJobs

CONSTANTS r1, r2, p1, p2
=============================================================================
