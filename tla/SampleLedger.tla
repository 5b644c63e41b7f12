---------------------------- MODULE SampleLedger ----------------------------
(***************************************************************************)
(* What the capture queue promises, without jobs, leases or workers: the   *)
(* ledger of one measurement.  Every planned sample is open until it is    *)
(* either captured, once, with an outcome that is never rewritten, or      *)
(* lost.  A batch is closed once, when none of its samples is open, and    *)
(* the word it is closed with is right: "complete" exactly when every      *)
(* sample was captured with an answer.                                     *)
(***************************************************************************)

CONSTANTS Jobs,        \* the planned samples: one capture job each
          Batches,
          BatchOf,     \* the batch a sample belongs to
          Outcomes     \* what a capture can record; "complete" is an answer

VARIABLES sample, closed

ledgerVars == <<sample, closed>>

JobsOf(b) == {j \in Jobs : BatchOf[j] = b}

Init == /\ sample = [j \in Jobs |-> "open"]
        /\ closed = [b \in Batches |-> "open"]

(* One transaction puts the evidence of a sample in the ledger. *)
Capture(j, o) == /\ sample[j] = "open"
                 /\ sample' = [sample EXCEPT ![j] = o]
                 /\ UNCHANGED closed

(* Retries used up, or the platform's quota: samples are given up together. *)
Lose(js) == /\ \A j \in js : sample[j] = "open"
            /\ sample' = [j \in Jobs |-> IF j \in js THEN "lost" ELSE sample[j]]
            /\ UNCHANGED closed

Close(b) == /\ closed[b] = "open"
            /\ \A j \in JobsOf(b) : sample[j] # "open"
            /\ closed' = [closed EXCEPT ![b] =
                    IF \A j \in JobsOf(b) : sample[j] = "complete"
                    THEN "complete" ELSE "partial"]
            /\ UNCHANGED sample

Next == \/ \E j \in Jobs, o \in Outcomes : Capture(j, o)
        \/ \E js \in SUBSET Jobs : Lose(js)
        \/ \E b \in Batches : Close(b)

Spec == Init /\ [][Next]_ledgerVars
=============================================================================
