-------------------------- MODULE ReportDocuments --------------------------
(***************************************************************************)
(* The PDF and the Word file of a frozen report, and the queue that makes  *)
(* them.                                                                   *)
(*   apps/worker/src/report-snapshots.ts  requestReportPdf,                *)
(*     runOneReportJob, generateReportPdf, generateReportWord              *)
(*   apps/worker/src/report-worker.ts     one job at a time per process    *)
(*   apps/worker/src/queue-recovery.ts    the sweep of exhausted leases    *)
(* Objects are written once (putArtifact refuses an existing key) and the  *)
(* row of the report is a separate statement.  Every statement and every   *)
(* call of the object store is one step.                                   *)
(***************************************************************************)
EXTENDS Naturals, FiniteSets

CONSTANTS Jobs,         \* rows of jobs that may come to exist for the report
          Procs,        \* report workers
          Members,      \* requests under way in requestReportPdf
          None,
          MaxAttempts,  \* jobs.max_attempts, 3 by default
          MaxUpsets     \* crashes, stalls and failing statements, together

ASSUME DocumentsAssumption ==
    /\ None \notin Procs /\ None \notin Jobs
    /\ None \notin {"pending", "leased", "complete", "failed"}
    /\ MaxAttempts \in Nat \ {0}
    /\ MaxUpsets \in Nat

VARIABLES
    stored,   \* objects in the store
    keys,     \* report_snapshots.pdf_artifact_key and word_artifact_key that are set
    job,      \* the jobs of the report
    slot,     \* where each process is in runOneReportJob
    asking,   \* members that found no open job and have not inserted theirs yet
    beats,    \* heartbeat timers that run: process and job
    orphan,   \* history: jobs whose timer was left running by a failed statement
    upsets

vars == <<stored, keys, job, slot, asking, beats, orphan, upsets>>
files == <<stored, keys>>

Kinds == {"pdf", "word"}
IdleSlot == [pc |-> "idle", job |-> None]
Open(j) == job[j].status \in {"pending", "leased"}
Ready == keys = Kinds

Init ==
    /\ stored = {} /\ keys = {}
    /\ job = [j \in Jobs |-> [status |-> None, owner |-> None, live |-> FALSE, attempts |-> 0]]
    /\ slot = [p \in Procs |-> IdleSlot]
    /\ asking = {} /\ beats = {} /\ orphan = {}
    /\ upsets = 0

Upset == upsets < MaxUpsets /\ upsets' = upsets + 1
SlotAt(p, pc) == slot' = [slot EXCEPT ![p].pc = pc]
Expired(j) == job[j].status = "leased" /\ ~job[j].live
Exhausted(j) == Expired(j) /\ job[j].attempts >= MaxAttempts

-----------------------------------------------------------------------------
(* Requests. *)

(* The sweep both operations start with. *)
Swept == [j \in Jobs |-> IF Exhausted(j)
            THEN [job[j] EXCEPT !.status = "failed", !.owner = None, !.live = FALSE]
            ELSE job[j]]

(* The button: nothing to do if both files are there or a job is open.     *)
Ask(m) ==
    /\ m \notin asking
    /\ job' = Swept
    /\ asking' = IF ~Ready /\ ~\E j \in Jobs : Swept[j].status \in {"pending", "leased"}
                   THEN asking \cup {m} ELSE asking
    /\ UNCHANGED <<files, slot, beats, orphan, upsets>>

(* The INSERT, a statement of its own. *)
Insert(m) ==
    /\ m \in asking
    /\ asking' = asking \ {m}
    /\ \E j \in Jobs :
        /\ job[j].status = None
        /\ job' = [job EXCEPT ![j].status = "pending"]
    /\ UNCHANGED <<files, slot, beats, orphan, upsets>>

-----------------------------------------------------------------------------
(* A worker. *)

(* Mutant of Claimable: the retry budget is off by one. *)
ClaimableOnceLess(j) ==
    job[j].attempts + 1 < MaxAttempts /\ (job[j].status = "pending" \/ Expired(j))

Claimable(j) == job[j].attempts < MaxAttempts /\ (job[j].status = "pending" \/ Expired(j))

Sweep(p) ==
    /\ slot[p].pc = "idle" /\ \E j \in Jobs : Exhausted(j)
    /\ job' = Swept
    /\ UNCHANGED <<files, slot, asking, beats, orphan, upsets>>

(* The lease, and the timer that renews it. *)
Claim(p) ==
    /\ slot[p].pc = "idle"
    /\ \E j \in Jobs :
        /\ Claimable(j)
        /\ job' = [job EXCEPT ![j] = [status |-> "leased", owner |-> p, live |-> TRUE,
                                       attempts |-> @.attempts + 1]]
        /\ slot' = [slot EXCEPT ![p] = [pc |-> "context", job |-> j]]
        /\ beats' = beats \cup {<<p, j>>}
    /\ UNCHANGED <<files, asking, orphan, upsets>>

Context(p) ==
    /\ slot[p].pc = "context"
    /\ SlotAt(p, "pdf_look")
    /\ UNCHANGED <<files, job, asking, beats, orphan, upsets>>

(* The statement between the timer and the try block fails: the error      *)
(* leaves runOneReportJob and nothing clears the timer.                    *)
ContextFails(p) ==
    /\ Upset /\ slot[p].pc = "context"
    /\ orphan' = orphan \cup {slot[p].job}
    /\ slot' = [slot EXCEPT ![p] = IdleSlot]
    /\ UNCHANGED <<files, job, asking, beats>>

(* An object committed before a crash is kept and only the row is written. *)
LookPdf(p) ==
    /\ slot[p].pc = "pdf_look"
    /\ SlotAt(p, IF "pdf" \in stored THEN "pdf_row" ELSE "pdf_put")
    /\ UNCHANGED <<files, job, asking, beats, orphan, upsets>>

LookWord(p) ==
    /\ slot[p].pc = "word_look"
    /\ SlotAt(p, IF "word" \in stored THEN "word_row" ELSE "word_put")
    /\ UNCHANGED <<files, job, asking, beats, orphan, upsets>>

(* IfNoneMatch "*": an object is never replaced, the second put throws.    *)
Put(p, kind, pc, next) ==
    /\ slot[p].pc = pc
    /\ stored' = stored \cup {kind}
    /\ SlotAt(p, IF kind \in stored THEN "failing" ELSE next)
    /\ UNCHANGED <<keys, job, asking, beats, orphan, upsets>>

PutPdf(p) == Put(p, "pdf", "pdf_put", "pdf_row")
PutWord(p) == Put(p, "word", "word_put", "word_row")

Row(p, kind, pc, next) ==
    /\ slot[p].pc = pc
    /\ keys' = keys \cup {kind}
    /\ SlotAt(p, next)
    /\ UNCHANGED <<stored, job, asking, beats, orphan, upsets>>

RowPdf(p) == Row(p, "pdf", "pdf_row", "word_look")
RowWord(p) == Row(p, "word", "word_row", "ending")

(* Both ends of an attempt are written only by the owner of the lease, and *)
(* then the timer is cleared.                                              *)
EndJob(p, status) ==
    /\ LET j == slot[p].job IN
        /\ job' = IF job[j].owner # p THEN job
                  ELSE [job EXCEPT ![j] = [@ EXCEPT !.status = status, !.owner = None, !.live = FALSE]]
        /\ beats' = beats \ {<<p, j>>}
    /\ slot' = [slot EXCEPT ![p] = IdleSlot]
    /\ UNCHANGED <<files, asking, orphan, upsets>>

Complete(p) == slot[p].pc = "ending" /\ EndJob(p, "complete")

Fail(p) ==
    /\ slot[p].pc = "failing"
    /\ EndJob(p, IF job[slot[p].job].attempts >= MaxAttempts THEN "failed" ELSE "pending")

(* A statement or a call of the store fails inside the try block.          *)
Throws(p) ==
    /\ Upset /\ slot[p].pc \notin {"idle", "context", "failing"}
    /\ SlotAt(p, "failing")
    /\ UNCHANGED <<files, job, asking, beats, orphan>>

(* The UPDATE of the catch block fails: the lease is left to expire.       *)
FailFails(p) ==
    /\ Upset /\ slot[p].pc = "failing"
    /\ beats' = beats \ {<<p, slot[p].job>>}
    /\ slot' = [slot EXCEPT ![p] = IdleSlot]
    /\ UNCHANGED <<files, job, asking, orphan>>

(* The process dies and is started again. *)
Crash(p) ==
    /\ Upset
    /\ slot[p].pc # "idle" \/ \E j \in Jobs : <<p, j>> \in beats
    /\ slot' = [slot EXCEPT ![p] = IdleSlot]
    /\ beats' = {b \in beats : b[1] # p}
    /\ UNCHANGED <<files, job, asking, orphan>>

(* Nobody renews the lease any more, or its process did not get to run.    *)
LeaseExpires(j) ==
    /\ job[j].status = "leased" /\ job[j].live
    /\ <<job[j].owner, j>> \notin beats
    /\ job' = [job EXCEPT ![j].live = FALSE]
    /\ UNCHANGED <<files, slot, asking, beats, orphan, upsets>>

Stall(p) ==
    /\ Upset
    /\ \E j \in Jobs :
        /\ job[j].status = "leased" /\ job[j].live /\ job[j].owner = p /\ <<p, j>> \in beats
        /\ job' = [job EXCEPT ![j].live = FALSE]
    /\ UNCHANGED <<files, slot, asking, beats, orphan>>

(* The timer asks for the owner and not that the lease is still good.      *)
Renew(p) ==
    /\ \E j \in Jobs :
        /\ <<p, j>> \in beats /\ job[j].owner = p /\ Expired(j)
        /\ job' = [job EXCEPT ![j].live = TRUE]
    /\ UNCHANGED <<files, slot, asking, beats, orphan, upsets>>

-----------------------------------------------------------------------------
Attempt(p) == \/ Context(p) \/ LookPdf(p) \/ PutPdf(p) \/ RowPdf(p) \/ LookWord(p)
              \/ PutWord(p) \/ RowWord(p) \/ Complete(p) \/ Fail(p)
Works(p) == Claim(p) \/ Attempt(p)

Next ==
    \/ \E m \in Members : Ask(m) \/ Insert(m)
    \/ \E p \in Procs :
        \/ Sweep(p) \/ Works(p) \/ Renew(p)
        \/ ContextFails(p) \/ Throws(p) \/ FailFails(p) \/ Crash(p) \/ Stall(p)
    \/ \E j \in Jobs : LeaseExpires(j)

Spec == Init /\ [][Next]_vars

(* The tick of every process, and time. *)
Fairness == /\ \A p \in Procs : WF_vars(Works(p)) /\ WF_vars(Sweep(p))
            /\ \A j \in Jobs : WF_vars(LeaseExpires(j))

FairSpec == Spec /\ Fairness

-----------------------------------------------------------------------------
SlotPc == {"idle", "context", "pdf_look", "pdf_put", "pdf_row", "word_look", "word_put",
           "word_row", "ending", "failing"}

(* Types; a key of the row is only set when the object is there.           *)
TypeOK ==
    /\ stored \subseteq Kinds /\ keys \subseteq stored
    /\ job \in [Jobs -> [status : {None, "pending", "leased", "complete", "failed"},
                         owner : Procs \cup {None}, live : BOOLEAN, attempts : 0..MaxAttempts]]
    /\ slot \in [Procs -> [pc : SlotPc, job : Jobs \cup {None}]]
    /\ asking \subseteq Members /\ beats \subseteq Procs \X Jobs /\ orphan \subseteq Jobs
    /\ upsets \in 0..MaxUpsets

(* A job that says complete left both files behind, whoever took its lease *)
(* meanwhile.                                                              *)
CompleteIsReady == \A j \in Jobs : job[j].status = "complete" => Ready

(* operations.md:72: a report with a job gets both files by retries alone, *)
(* however requests, workers and expired leases meet, with one fault and   *)
(* the attempts its jobs take from one another.  A job fails before that   *)
(* only after MaxAttempts - 1 faults, and only a timer left running by a   *)
(* failed statement keeps a job from the other workers for ever.           *)
DocumentsArrive == \A j \in Jobs : Open(j) ~>
    \/ Ready
    \/ j \in orphan
    \/ job[j].status = "failed" /\ upsets >= MaxAttempts - 1
=============================================================================
