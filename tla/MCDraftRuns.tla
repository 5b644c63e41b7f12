----------------------------- MODULE MCDraftRuns -----------------------------
(* Small instances of DraftRuns for TLC. *)
EXTENDS DraftRuns

CONSTANTS r1, chat, p1, p2, s1, s2, m1, m2

(* A draft of a session, or of none. *)
OfSession == [r \in Runs |-> chat]
NoSession == [r \in Runs |-> None]
=============================================================================
