----------------------------- MODULE ReviewJobs -----------------------------
(***************************************************************************)
(* The two queues of model reviews of the semantic worker, which follow    *)
(* one protocol: requests, jobs with a lease, attempts and their runs.     *)
(*   apps/worker/src/article-quality.ts  "quality": runs of an article     *)
(*   apps/worker/src/answer-analysis.ts  "analysis": runs of one answer    *)
(*   apps/worker/src/semantic-runtime.ts one slot of each per process      *)
(*   apps/worker/src/queue-recovery.ts   the sweep of exhausted leases     *)
(* The queues share nothing, so an instance is about one of them, and Init *)
(* says which.  Every SQL statement and every transaction is one step.     *)
(***************************************************************************)
EXTENDS Naturals, FiniteSets

CONSTANTS Runs, Procs, None,
          MaxInput,     \* versions of what is reviewed (input_hash)
          MaxAttempts,  \* jobs.max_attempts, 2 in both INSERTs
          MaxUpsets     \* crashes, stalls and failing statements, together

ASSUME ReviewAssumption ==
    /\ None \notin Procs /\ None \notin Runs
    /\ None \notin {"queued", "running", "done", "pending", "leased", "complete", "failed"}
    /\ {MaxInput, MaxAttempts} \subseteq Nat \ {0}
    /\ MaxUpsets \in Nat

VARIABLES
    kind,      \* "quality" or "analysis"
    input,     \* the version of what is reviewed; an answer has only one
    run,       \* article_quality_runs, answer_analysis_runs: status, input, and
               \* the number of the attempt in selected_attempt_id
    job,       \* the job of each run
    recorded,  \* rows of the attempts tables: run and attempt
    slot,      \* where each process is in runOneArticleQualityJob
    sweep,     \* runs whose jobs a process has failed in sweepTerminalLeases, still to do
    up,
    cut,       \* history: runs whose sweep was lost between its statements
    revived,   \* history: runs set to running after they had ended
    upsets

vars == <<kind, input, run, job, recorded, slot, sweep, up, cut, revived, upsets>>
fixed == <<kind, input>>

Inputs == 1..MaxInput
Open == {"queued", "running"}      \* a queued quality run is called "pending"
Ended == {"done", "failed"}        \* done: needs_review, blocked or ready
IdleSlot == [pc |-> "idle", run |-> None, attempt |-> 0]

Init ==
    /\ kind \in {"quality", "analysis"}
    /\ input = 1
    /\ run = [r \in Runs |-> [status |-> None, input |-> 0, selected |-> 0]]
    /\ job = [r \in Runs |-> [status |-> None, owner |-> None, live |-> FALSE, attempts |-> 0]]
    /\ recorded = {}
    /\ slot = [p \in Procs |-> IdleSlot]
    /\ sweep = [p \in Procs |-> {}]
    /\ up = Procs /\ cut = {} /\ revived = {}
    /\ upsets = 0

Upset == upsets < MaxUpsets /\ upsets' = upsets + 1
SlotTo(p, s) == slot' = [slot EXCEPT ![p] = s]
SlotAt(p, pc) == SlotTo(p, [slot[p] EXCEPT !.pc = pc])
WriteRun(r, status) == run' = [run EXCEPT ![r] = [run[r] EXCEPT !.status = status]]
EndJob(r, status) == job' = [job EXCEPT ![r] = [job[r] EXCEPT
                        !.status = status, !.owner = None, !.live = FALSE]]

-----------------------------------------------------------------------------
(* Requests. *)

(* Mutant of Unreviewed: a run that is being executed is overlooked.       *)
UnreviewedQueued ==
    \A r \in Runs : ~(run[r].status = "queued" /\ (kind = "quality" => run[r].input = input))

(* Under the row lock of the article or the answer: an open run, of the    *)
(* same input if it is a quality run, is returned instead of a new one.    *)
Unreviewed ==
    \A r \in Runs : ~(run[r].status \in Open /\ (kind = "quality" => run[r].input = input))

Enqueue(r) ==
    /\ run[r].status = None
    /\ Unreviewed
    /\ run' = [run EXCEPT ![r] = [status |-> "queued", input |-> input, selected |-> 0]]
    /\ job' = [job EXCEPT ![r] = [job[r] EXCEPT !.status = "pending"]]
    /\ UNCHANGED <<fixed, recorded, slot, sweep, up, cut, revived, upsets>>

(* The article gets a new version, or its knowledge sources change. *)
InputChanges ==
    /\ kind = "quality" /\ input + 1 \in Inputs
    /\ input' = input + 1
    /\ UNCHANGED <<kind, run, job, recorded, slot, sweep, up, cut, revived, upsets>>

-----------------------------------------------------------------------------
(* A slot executes a run. *)

Expired(r) == job[r].status = "leased" /\ ~job[r].live

Claimable(r) == job[r].attempts < MaxAttempts /\ (job[r].status = "pending" \/ Expired(r))

Claim(p) ==
    /\ p \in up /\ slot[p].pc = "idle"
    /\ \E r \in Runs :
        /\ Claimable(r)
        /\ job' = [job EXCEPT ![r] = [job[r] EXCEPT !.status = "leased", !.owner = p,
                                       !.live = TRUE, !.attempts = job[r].attempts + 1]]
        /\ SlotTo(p, [pc |-> "checking", run |-> r, attempt |-> job[r].attempts + 1])
    /\ UNCHANGED <<fixed, run, recorded, sweep, up, cut, revived, upsets>>

(* The frozen input, the authorization of the requester and the key; what  *)
(* throws here or later goes to the catch block.                           *)
Check(p) ==
    /\ slot[p].pc = "checking"
    /\ \/ run[slot[p].run].input = input /\ SlotAt(p, "marking")
       \/ SlotAt(p, "recording")
    /\ UNCHANGED <<fixed, run, job, recorded, sweep, up, cut, revived, upsets>>

(* Only the analysis asks for an open run. *)
Marks(r) == kind = "quality" \/ run[r].status \in Open

Mark(p) ==
    /\ slot[p].pc = "marking"
    /\ LET r == slot[p].run IN
        /\ IF Marks(r) THEN WriteRun(r, "running") ELSE UNCHANGED run
        /\ revived' = IF Marks(r) /\ run[r].status \in Ended THEN revived \cup {r} ELSE revived
    /\ SlotAt(p, "calling")
    /\ UNCHANGED <<fixed, job, recorded, sweep, up, cut, upsets>>

(* The second authorization, the model call and the validation; the call   *)
(* is aborted when the heartbeat found the lease gone.                     *)
Call(p) ==
    /\ slot[p].pc = "calling"
    /\ SlotAt(p, "saving") \/ SlotAt(p, "recording")
    /\ UNCHANGED <<fixed, run, job, recorded, sweep, up, cut, revived, upsets>>

RecordAttempt(p) == recorded' = recorded \cup {<<slot[p].run, slot[p].attempt>>}

(* The attempt and its cost. *)
Save(p) ==
    /\ slot[p].pc = "saving"
    /\ RecordAttempt(p)
    /\ SlotAt(p, "committing")
    /\ UNCHANGED <<fixed, run, job, sweep, up, cut, revived, upsets>>

(* Mutant of Holds: the commit names only the job. *)
HoldsAny(p) == TRUE

(* lease_owner = $2 AND status = 'leased' AND lease_expires_at > now() *)
Holds(p) == LET j == job[slot[p].run] IN j.owner = p /\ j.status = "leased" /\ j.live

Commit(p) ==
    /\ slot[p].pc = "committing"
    /\ LET r == slot[p].run IN
        \/ /\ Holds(p)
           /\ EndJob(r, "complete")
           /\ run' = [run EXCEPT ![r] = [run[r] EXCEPT !.status = "done", !.selected = slot[p].attempt]]
           /\ SlotTo(p, IdleSlot)
        \/ /\ SlotAt(p, "ending")
           /\ UNCHANGED <<run, job>>
    /\ UNCHANGED <<fixed, recorded, sweep, up, cut, revived, upsets>>

(* The catch block: a failed attempt unless one was saved ... *)
RecordFailure(p) ==
    /\ slot[p].pc = "recording"
    /\ RecordAttempt(p)
    /\ SlotAt(p, "ending")
    /\ UNCHANGED <<fixed, run, job, sweep, up, cut, revived, upsets>>

(* Mutant of Statuses: the last attempt is given back like the others.     *)
StatusesOneMore(p) == IF slot[p].attempt > MaxAttempts THEN {"failed"} ELSE {"failed", "queued"}

(* ... and, while the lease lasts, the job and the run: failed by an       *)
(* HttpInputError, an AccessDeniedError or in the last attempt, otherwise  *)
(* queued for another attempt in 30 seconds.                               *)
Statuses(p) == IF slot[p].attempt >= MaxAttempts THEN {"failed"} ELSE {"failed", "queued"}

End(p) ==
    /\ slot[p].pc = "ending"
    /\ LET r == slot[p].run IN
        \/ /\ Holds(p)
           /\ \E status \in Statuses(p) :
                /\ EndJob(r, IF status = "failed" THEN "failed" ELSE "pending")
                /\ WriteRun(r, status)
        \/ ~Holds(p) /\ UNCHANGED <<run, job>>
    /\ SlotTo(p, IdleSlot)
    /\ UNCHANGED <<fixed, recorded, sweep, up, cut, revived, upsets>>

(* A statement fails: before the catch block it is caught there, in it the *)
(* job is left to its lease.                                               *)
Fault(p) ==
    /\ Upset
    /\ \/ slot[p].pc \in {"marking", "saving"} /\ SlotAt(p, "recording")
       \/ slot[p].pc = "committing" /\ SlotAt(p, "ending")
       \/ slot[p].pc \in {"recording", "ending"} /\ SlotTo(p, IdleSlot)
    /\ UNCHANGED <<fixed, run, job, recorded, sweep, up, cut, revived>>

-----------------------------------------------------------------------------
(* Recovery. *)

Exhausted == {r \in Runs : Expired(r) /\ job[r].attempts >= MaxAttempts}

SweepJobs(p) ==
    /\ p \in up /\ sweep[p] = {} /\ Exhausted # {}
    /\ job' = [r \in Runs |-> IF r \in Exhausted
            THEN [job[r] EXCEPT !.status = "failed", !.owner = None, !.live = FALSE] ELSE job[r]]
    /\ sweep' = [sweep EXCEPT ![p] = Exhausted]
    /\ UNCHANGED <<fixed, run, recorded, slot, up, cut, revived, upsets>>

(* Mutant of SweepRun: only a queued run is failed. *)
SweepRunQueued(p) ==
    /\ \E r \in sweep[p] :
        /\ IF run[r].status = "queued" THEN WriteRun(r, "failed") ELSE UNCHANGED run
        /\ sweep' = [sweep EXCEPT ![p] = sweep[p] \ {r}]
    /\ UNCHANGED <<fixed, job, recorded, slot, up, cut, revived, upsets>>

SweepRun(p) ==
    /\ \E r \in sweep[p] :
        /\ IF run[r].status \in Open THEN WriteRun(r, "failed") ELSE UNCHANGED run
        /\ sweep' = [sweep EXCEPT ![p] = sweep[p] \ {r}]
    /\ UNCHANGED <<fixed, job, recorded, slot, up, cut, revived, upsets>>

(* A later statement of the sweep fails; coordinate() logs it.             *)
SweepFault(p) ==
    /\ Upset /\ sweep[p] # {}
    /\ sweep' = [sweep EXCEPT ![p] = {}]
    /\ cut' = cut \cup sweep[p]
    /\ UNCHANGED <<fixed, run, job, recorded, slot, up, revived>>

Crash(p) ==
    /\ Upset /\ p \in up
    /\ up' = up \ {p}
    /\ SlotTo(p, IdleSlot)
    /\ sweep' = [sweep EXCEPT ![p] = {}]
    /\ cut' = cut \cup sweep[p]
    /\ UNCHANGED <<fixed, run, job, recorded, revived>>

Start(p) ==
    /\ p \notin up
    /\ up' = up \cup {p}
    /\ UNCHANGED <<fixed, run, job, recorded, slot, sweep, cut, revived, upsets>>

Held(r) == \E p \in Procs : slot[p].pc # "idle" /\ slot[p].run = r /\ job[r].owner = p

(* Five minutes pass: after a crash or a fault, or because a process is    *)
(* suspended or cannot renew; it then goes on where it was.                *)
LeaseExpires(r) ==
    /\ job[r].live /\ ~Held(r)
    /\ job' = [job EXCEPT ![r] = [job[r] EXCEPT !.live = FALSE]]
    /\ UNCHANGED <<fixed, run, recorded, slot, sweep, up, cut, revived, upsets>>

Stall(r) ==
    /\ Upset
    /\ job[r].live /\ Held(r)
    /\ job' = [job EXCEPT ![r] = [job[r] EXCEPT !.live = FALSE]]
    /\ UNCHANGED <<fixed, run, recorded, slot, sweep, up, cut, revived>>

-----------------------------------------------------------------------------
SlotStep(p) == Claim(p) \/ Check(p) \/ Mark(p) \/ Call(p) \/ Save(p) \/ Commit(p)
               \/ RecordFailure(p) \/ End(p)
SweepStep(p) == SweepJobs(p) \/ SweepRun(p)

Next == \/ \E r \in Runs : Enqueue(r) \/ LeaseExpires(r) \/ Stall(r)
        \/ InputChanges
        \/ \E p \in Procs : SlotStep(p) \/ Fault(p) \/ SweepStep(p) \/ SweepFault(p) \/ Crash(p) \/ Start(p)

Spec == Init /\ [][Next]_vars

(* The timers of a running process, its restart, the 120 s timeout of the  *)
(* call, and time.                                                         *)
Fairness == /\ \A p \in Procs : WF_vars(SlotStep(p)) /\ WF_vars(SweepStep(p)) /\ WF_vars(Start(p))
            /\ \A r \in Runs : WF_vars(LeaseExpires(r))

FairSpec == Spec /\ Fairness

-----------------------------------------------------------------------------
SlotPc == {"idle", "checking", "marking", "calling", "saving", "committing", "recording", "ending"}

(* Types; no run is attempted more often than max_attempts.                *)
TypeOK ==
    /\ kind \in {"quality", "analysis"} /\ input \in Inputs
    /\ run \in [Runs -> [status : Open \cup Ended \cup {None}, input : Inputs \cup {0},
                         selected : 0..MaxAttempts]]
    /\ job \in [Runs -> [status : {None, "pending", "leased", "complete", "failed"},
                         owner : Procs \cup {None}, live : BOOLEAN, attempts : 0..MaxAttempts]]
    /\ recorded \subseteq Runs \X (1..MaxAttempts)
    /\ slot \in [Procs -> [pc : SlotPc, run : Runs \cup {None}, attempt : 0..MaxAttempts]]
    /\ sweep \in [Procs -> SUBSET Runs]
    /\ up \subseteq Procs /\ cut \subseteq Runs /\ revived \subseteq Runs
    /\ upsets \in 0..MaxUpsets

(* answer-analysis.ts:76, article-quality.ts:244: what is reviewed has at  *)
(* most one open run, although runs are queued again, taken over and swept *)
(* between requests; a quality run that was revived is the exception.      *)
OneOpenRun == \A r, s \in Runs :
    (r # s /\ {run[r].status, run[s].status} \subseteq Open
           /\ (kind = "quality" => run[r].input = run[s].input))
        => kind = "quality" /\ {r, s} \cap revived # {}

(* queue-recovery.ts:5: an open run has a job that a worker can claim or   *)
(* has claimed, or a sweep that has failed its job and still has the run   *)
(* before it; claims, faults, stalls, late workers and sweeps in any order *)
(* never leave a run open with nobody to end it, unless a sweep was lost   *)
(* between its statements or a late worker revived the run.                *)
OpenRunIsMoving == \A r \in Runs :
    run[r].status \in Open =>
        \/ job[r].status = "pending" /\ job[r].attempts < MaxAttempts
        \/ job[r].status = "leased"
        \/ \E p \in Procs : r \in sweep[p]
        \/ r \in cut \cup revived

(* The result a person reviews is that of the attempt that held the lease, *)
(* it is on record, and no worker that lost its lease, whatever it still   *)
(* does, replaces it; an analysis never leaves the state it ended in.      *)
ResultStands == [][\A r \in Runs :
    /\ run[r].selected # 0 => run'[r].selected = run[r].selected
    /\ run'[r].selected # 0 => <<r, run'[r].selected>> \in recorded'
    /\ kind = "analysis" /\ run[r].status \in Ended => run'[r] = run[r]]_vars

(* operations.md:7, :25: a run ends in at most two attempts and a sweep,   *)
(* unless the sweep itself was lost or the run was revived.                *)
RunEndsUnlessCut == \A r \in Runs :
    run[r].status \in Open ~> (run[r].status \in Ended \/ r \in cut \/ r \in revived)
=============================================================================
