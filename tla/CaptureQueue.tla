---------------------------- MODULE CaptureQueue ----------------------------
(***************************************************************************)
(* The capture queue of the GEO worker: the jobs table, the slots of the   *)
(* capture processes that lease jobs from it, the minute sweep of each     *)
(* process, and the status of the batches the jobs belong to.              *)
(*   packages/core/src/repository.ts    claim, renew, fail, fail expired   *)
(*   apps/worker/src/cloud-runner.ts    a slot's path, the sweep           *)
(*   apps/worker/src/capture-progress.ts  the quota breaker                *)
(*   apps/worker/src/service.ts         storing a capture, batch status    *)
(* Every SQL statement and every transaction is one step; whatever the     *)
(* code does between two of them (a provider call, an await, a throw, the  *)
(* death of the process) can interleave with everyone else.                *)
(***************************************************************************)
EXTENDS Naturals, FiniteSets

CONSTANTS Jobs,            \* capture jobs: one per prompt, platform and repeat
          Batches, Orgs, Platforms,
          BatchOf, PlatformOf, OrgOf,   \* Jobs->Batches, Jobs->Platforms, Batches->Orgs
          Procs,           \* capture processes, i.e. values of executorId
          Slots,           \* GEO_CAPTURE_CONCURRENCY slots in each process
          None,            \* SQL NULL
          Outcomes,        \* what a capture can record
          MaxAttempts,     \* jobs.max_attempts
          MaxCrashes, MaxFaults, MaxSuspensions, \* bounds on the environment,
          MaxUpsets      \* and on the three together

ASSUME QueueAssumption ==
    /\ BatchOf \in [Jobs -> Batches]
    /\ PlatformOf \in [Jobs -> Platforms]
    /\ OrgOf \in [Batches -> Orgs]
    /\ None \notin Procs /\ None \notin Jobs
    /\ Outcomes \subseteq {"complete", "failed", "quota", "http402"}
    /\ MaxAttempts \in Nat \ {0}
    /\ MaxCrashes \in Nat /\ MaxFaults \in Nat /\ MaxSuspensions \in Nat
    /\ MaxUpsets \in Nat

VARIABLES
    jobs,        \* the rows of the jobs table
    capture,     \* the query_captures row of each job, "none" before it exists
    batch,       \* experiment_batches.status
    suspended,   \* organizations with suspended_at set
    slot,        \* where each slot is in runOneCloudCapture
    sweeper,     \* where each process is in sweepExpiredCaptureJobs
    crashes, faults, suspensions       \* spent parts of the bounds

queueVars == <<jobs, capture, batch, suspended>>
env == <<crashes, faults, suspensions>>
MayUpset == crashes + faults + suspensions < MaxUpsets
vars == <<jobs, capture, batch, suspended, slot, sweeper, crashes, faults, suspensions>>

Workers == Procs \X Slots
OwnerOf(w) == w[1]         \* all slots of a process share its executorId

(* A capture either holds an answer or says why there is none.  Both       *)
(* "quota" (failure_code quota_exceeded) and "http402" (an older row with  *)
(* provider_error and HTTP 402) trip the breaker; only the first makes the *)
(* slot that stored it run the breaker at once.                            *)
Blocking == {"quota", "http402"}
Terminal == {"complete", "partial"}
Ended == {"complete", "failed"}

IdleSlot == [pc |-> "idle", job |-> None, result |-> "none", stage |-> "store", seen |-> "none"]
IdleSweep == [pc |-> "idle", todo |-> {}, now |-> None, seen |-> "none"]
NewJob(late) == [status |-> "pending", owner |-> None, live |-> FALSE, attempts |-> 0, due |-> ~late]

JobsOf(b) == {j \in Jobs : BatchOf[j] = b}
Suspended(j) == OrgOf[BatchOf[j]] \in suspended
Expired(j) == jobs[j].status = "leased" /\ ~jobs[j].live
Working(w, j) == slot[w].pc # "idle" /\ slot[w].job = j

(* The batch was created with all its jobs in one transaction; the samples *)
(* of later execution windows become available only later.                 *)
Init == /\ \E late \in SUBSET Jobs : jobs = [j \in Jobs |-> NewJob(j \in late)]
        /\ capture = [j \in Jobs |-> "none"]
        /\ batch = [b \in Batches |-> "queued"]
        /\ suspended = {}
        /\ slot = [w \in Workers |-> IdleSlot]
        /\ sweeper = [p \in Procs |-> IdleSweep]
        /\ crashes = 0 /\ faults = 0 /\ suspensions = 0

SlotTo(w, s) == slot' = [slot EXCEPT ![w] = s]
SweepTo(p, s) == sweeper' = [sweeper EXCEPT ![p] = s]
Catch(w) == SlotTo(w, [IdleSlot EXCEPT !.pc = "failing", !.job = slot[w].job])
Finish(w) == SlotTo(w, IdleSlot)

-----------------------------------------------------------------------------
(* One capture: claim a job, call the provider, store the answer, refresh. *)

(* Mutant of Claimable: the retry budget is not looked at. *)
ClaimableBeyondBudget(j) == /\ ~Suspended(j) /\ jobs[j].due
                            /\ jobs[j].status = "pending" \/ Expired(j)

Claimable(j) == /\ ~Suspended(j)
                /\ jobs[j].attempts < MaxAttempts
                /\ jobs[j].due
                /\ jobs[j].status = "pending" \/ Expired(j)

Leased(r, owner) == [r EXCEPT !.status = "leased", !.owner = owner, !.live = TRUE,
                              !.attempts = r.attempts + 1]

Claim(w) ==
    /\ slot[w].pc = "idle"
    /\ \E j \in Jobs :
        /\ Claimable(j)
        /\ jobs' = [jobs EXCEPT ![j] = Leased(jobs[j], OwnerOf(w))]
        /\ SlotTo(w, [IdleSlot EXCEPT !.pc = "calling", !.job = j])
    /\ UNCHANGED <<capture, batch, suspended, sweeper, env>>

(* The timer set between claim and return; it does not ask whether the     *)
(* lease has already expired.                                              *)
Renew(w) ==
    /\ slot[w].pc # "idle"
    /\ LET j == slot[w].job IN
        /\ jobs[j].owner = OwnerOf(w)
        /\ jobs[j].status = "leased"
        /\ jobs' = [jobs EXCEPT ![j].live = TRUE]
    /\ UNCHANGED <<capture, batch, suspended, slot, sweeper, env>>

(* The provider answered (or was not asked: a broken frozen contract and a *)
(* missing key are recorded as failed captures) and the raw response is in *)
(* the object store.                                                       *)
Answer(w) ==
    /\ slot[w].pc = "calling"
    /\ \E o \in Outcomes :
        SlotTo(w, [slot[w] EXCEPT !.pc = "checking", !.result = o])
    /\ UNCHANGED <<queueVars, sweeper, env>>

(* The provider call, the contract query or the object store threw. *)
CallThrows(w) ==
    /\ slot[w].pc = "calling"
    /\ Catch(w)
    /\ UNCHANGED <<queueVars, sweeper, env>>

(* storeCloudCapture first reads the job outside the transaction. *)
CheckLease(w) ==
    /\ slot[w].pc = "checking"
    /\ LET r == jobs[slot[w].job] IN
        IF r.owner = OwnerOf(w) /\ r.status = "leased"
        THEN SlotTo(w, [slot[w] EXCEPT !.pc = "storing"]) ELSE Catch(w)
    /\ UNCHANGED <<queueVars, sweeper, env>>

HoldsLease(w, j) == /\ jobs[j].owner = OwnerOf(w)
                    /\ jobs[j].status = "leased"
                    /\ jobs[j].live

Completed(r) == [r EXCEPT !.status = "complete", !.owner = None, !.live = FALSE]

(* The transaction: lock the job if the lease is still held, append the    *)
(* evidence, complete the job, charge the cost.                            *)
Store(w) ==
    /\ slot[w].pc = "storing"
    /\ LET j == slot[w].job IN
        \/ /\ HoldsLease(w, j)
           /\ capture' = [capture EXCEPT ![j] = slot[w].result]
           /\ jobs' = [jobs EXCEPT ![j] = Completed(jobs[j])]
           /\ SlotTo(w, [slot[w] EXCEPT !.pc = "counting", !.stage = "store"])
        \/ /\ ~HoldsLease(w, j)
           /\ Catch(w)
           /\ UNCHANGED <<jobs, capture>>
    /\ UNCHANGED <<batch, suspended, sweeper, env>>

(* refreshBatchStatus counts in one statement and writes in another. *)
(* Mutant of Verdict: leased jobs do not count as remaining. *)
VerdictPendingOnly(b) ==
    IF \E j \in JobsOf(b) : jobs[j].status = "pending" THEN "open"
    ELSE IF \E j \in JobsOf(b) : jobs[j].status = "failed" \/ capture[j] \notin {"none", "complete"}
         THEN "partial" ELSE "complete"

Verdict(b) ==
    IF \E j \in JobsOf(b) : jobs[j].status \in {"pending", "leased"} THEN "open"
    ELSE IF \E j \in JobsOf(b) : jobs[j].status = "failed" \/ capture[j] \notin {"none", "complete"}
         THEN "partial" ELSE "complete"

(* Mutant of Marked: the write-back of "still open" forgets status='queued'. *)
MarkedUnguarded(b, seen) ==
    [batch EXCEPT ![b] = IF seen = "open" THEN "running" ELSE IF @ \in Terminal THEN @ ELSE seen]

Marked(b, seen) ==
    [batch EXCEPT ![b] = IF seen = "open" THEN (IF batch[b] = "queued" THEN "running" ELSE batch[b])
                         ELSE IF batch[b] \in Terminal THEN batch[b] ELSE seen]

Count(w) ==
    /\ slot[w].pc = "counting"
    /\ SlotTo(w, [slot[w] EXCEPT !.pc = "marking", !.seen = Verdict(BatchOf[slot[w].job])])
    /\ UNCHANGED <<queueVars, sweeper, env>>

Mark(w) ==
    /\ slot[w].pc = "marking"
    /\ batch' = Marked(BatchOf[slot[w].job], slot[w].seen)
    /\ IF slot[w].stage = "store" /\ slot[w].result = "quota"
       THEN SlotTo(w, [IdleSlot EXCEPT !.pc = "settling", !.job = slot[w].job])
       ELSE Finish(w)
    /\ UNCHANGED <<jobs, capture, suspended, sweeper, env>>

-----------------------------------------------------------------------------
(* The quota breaker, and the way out of an error. *)

Failed(r) == [r EXCEPT !.status = "failed", !.owner = None, !.live = FALSE]

(* No further sample of this platform can succeed in this batch; leases    *)
(* that are still live are left to their holders.  It does not look at     *)
(* whether the organization is suspended.                                  *)
(* Mutant of Blocked: every lease of the platform is broken, live or not. *)
BlockedWithLive(bs) == {j \in Jobs :
    /\ BatchOf[j] \in bs
    /\ jobs[j].status \in {"pending", "leased"}
    /\ \E c \in JobsOf(BatchOf[j]) : PlatformOf[c] = PlatformOf[j] /\ capture[c] \in Blocking}

Blocked(bs) == {j \in Jobs :
    /\ BatchOf[j] \in bs
    /\ jobs[j].status = "pending" \/ Expired(j)
    /\ \E c \in JobsOf(BatchOf[j]) : PlatformOf[c] = PlatformOf[j] /\ capture[c] \in Blocking}

FailAll(js) == jobs' = [j \in Jobs |-> IF j \in js THEN Failed(jobs[j]) ELSE jobs[j]]

Settle(w) ==
    /\ slot[w].pc = "settling"
    /\ FailAll(Blocked({BatchOf[slot[w].job]}))
    /\ SlotTo(w, [slot[w] EXCEPT !.pc = "counting", !.stage = "settle"])
    /\ UNCHANGED <<capture, batch, suspended, sweeper, env>>

(* failJob: guarded by the owner only, so a job whose lease expired but    *)
(* was not claimed by another process is still given back.                 *)
GivenBack(r) ==
    [r EXCEPT !.status = IF r.attempts >= MaxAttempts THEN "failed" ELSE "pending",
              !.owner = None, !.live = FALSE, !.due = FALSE]

(* Mutant of FailJob: the owner guard dropped. *)
FailJobOfAnyOwner(w) ==
    /\ slot[w].pc = "failing"
    /\ jobs' = [jobs EXCEPT ![slot[w].job] = GivenBack(@)]
    /\ SlotTo(w, [slot[w] EXCEPT !.pc = "counting", !.stage = "fail"])
    /\ UNCHANGED <<capture, batch, suspended, sweeper, env>>

(* Mutant of FailJob: the batch is not refreshed. *)
FailJobWithoutRefresh(w) ==
    /\ slot[w].pc = "failing"
    /\ LET j == slot[w].job IN
        jobs' = IF jobs[j].owner = OwnerOf(w) THEN [jobs EXCEPT ![j] = GivenBack(jobs[j])] ELSE jobs
    /\ Finish(w)
    /\ UNCHANGED <<capture, batch, suspended, sweeper, env>>

FailJob(w) ==
    /\ slot[w].pc = "failing"
    /\ LET j == slot[w].job IN
        jobs' = IF jobs[j].owner = OwnerOf(w) THEN [jobs EXCEPT ![j] = GivenBack(jobs[j])] ELSE jobs
    /\ SlotTo(w, [slot[w] EXCEPT !.pc = "counting", !.stage = "fail"])
    /\ UNCHANGED <<capture, batch, suspended, sweeper, env>>

(* A statement failed.  On the normal path that leads to the catch block;  *)
(* inside the catch block the error is logged and the job is left as it is.*)
Fault(w) ==
    /\ faults < MaxFaults /\ MayUpset
    /\ slot[w].pc \in {"checking", "storing", "settling", "counting", "marking", "failing"}
    /\ faults' = faults + 1
    /\ IF slot[w].pc = "failing" \/ (slot[w].pc \in {"counting", "marking"} /\ slot[w].stage = "fail")
       THEN Finish(w)
       ELSE Catch(w)
    /\ UNCHANGED <<queueVars, sweeper, crashes, suspensions>>

-----------------------------------------------------------------------------
(* The sweep of a process: breaker over all batches, then the expired      *)
(* leases without retries, then one refresh per batch it touched.          *)

SweepSettle(p) ==
    /\ sweeper[p].pc = "idle"
    /\ LET js == Blocked(Batches) IN
        /\ FailAll(js)
        /\ SweepTo(p, [sweeper[p] EXCEPT !.pc = "expiring", !.todo = {BatchOf[j] : j \in js}])
    /\ UNCHANGED <<capture, batch, suspended, slot, env>>

Exhausted == {j \in Jobs : ~Suspended(j) /\ Expired(j) /\ jobs[j].attempts >= MaxAttempts}

(* Mutant of SweepExpired: only the batches of expired leases are refreshed.*)
SweepExpiredForgetsBlocked(p) ==
    /\ sweeper[p].pc = "expiring"
    /\ FailAll(Exhausted)
    /\ LET todo == {BatchOf[j] : j \in Exhausted} IN
        SweepTo(p, IF todo = {} THEN IdleSweep
                   ELSE [sweeper[p] EXCEPT !.pc = "counting", !.todo = todo])
    /\ UNCHANGED <<capture, batch, suspended, slot, env>>

SweepExpired(p) ==
    /\ sweeper[p].pc = "expiring"
    /\ FailAll(Exhausted)
    /\ LET todo == sweeper[p].todo \cup {BatchOf[j] : j \in Exhausted} IN
        SweepTo(p, IF todo = {} THEN IdleSweep
                   ELSE [sweeper[p] EXCEPT !.pc = "counting", !.todo = todo])
    /\ UNCHANGED <<capture, batch, suspended, slot, env>>

SweepCount(p) ==
    /\ sweeper[p].pc = "counting"
    /\ \E b \in sweeper[p].todo :
        SweepTo(p, [sweeper[p] EXCEPT !.pc = "marking", !.now = b, !.seen = Verdict(b)])
    /\ UNCHANGED <<queueVars, slot, env>>

SweepMark(p) ==
    /\ sweeper[p].pc = "marking"
    /\ batch' = Marked(sweeper[p].now, sweeper[p].seen)
    /\ LET todo == sweeper[p].todo \ {sweeper[p].now} IN
        SweepTo(p, IF todo = {} THEN IdleSweep
                   ELSE [IdleSweep EXCEPT !.pc = "counting", !.todo = todo])
    /\ UNCHANGED <<jobs, capture, suspended, slot, env>>

(* A statement of the sweep failed: the rest of it is dropped. *)
SweepFault(p) ==
    /\ faults < MaxFaults /\ MayUpset
    /\ sweeper[p].pc # "idle"
    /\ faults' = faults + 1
    /\ SweepTo(p, IdleSweep)
    /\ UNCHANGED <<queueVars, slot, crashes, suspensions>>

-----------------------------------------------------------------------------
(* The environment. *)

(* 300 s without a renewal: the process died, stalled or lost the database.*)
LeaseExpires(j) ==
    /\ jobs[j].live
    /\ jobs' = [jobs EXCEPT ![j].live = FALSE]
    /\ UNCHANGED <<capture, batch, suspended, slot, sweeper, env>>

(* available_at passes: an execution window opens or the 30 s are over. *)
BecomesDue(j) ==
    /\ ~jobs[j].due
    /\ jobs' = [jobs EXCEPT ![j].due = TRUE]
    /\ UNCHANGED <<capture, batch, suspended, slot, sweeper, env>>

(* The process dies and is started again; the rows it wrote stay. *)
Crash(p) ==
    /\ crashes < MaxCrashes /\ MayUpset
    /\ crashes' = crashes + 1
    /\ slot' = [w \in Workers |-> IF OwnerOf(w) = p THEN IdleSlot ELSE slot[w]]
    /\ SweepTo(p, IdleSweep)
    /\ UNCHANGED <<queueVars, faults, suspensions>>

Suspend(o) ==
    /\ o \notin suspended /\ suspensions < MaxSuspensions /\ MayUpset
    /\ suspended' = suspended \cup {o}
    /\ suspensions' = suspensions + 1
    /\ UNCHANGED <<jobs, capture, batch, slot, sweeper, crashes, faults>>

Resume(o) ==
    /\ o \in suspended
    /\ suspended' = suspended \ {o}
    /\ UNCHANGED <<jobs, capture, batch, slot, sweeper, env>>

-----------------------------------------------------------------------------
SlotStep(w) == \/ Claim(w) \/ Answer(w) \/ CallThrows(w) \/ CheckLease(w) \/ Store(w)
               \/ Count(w) \/ Mark(w) \/ Settle(w) \/ FailJob(w)
SweepStep(p) == SweepSettle(p) \/ SweepExpired(p) \/ SweepCount(p) \/ SweepMark(p)

Next == \/ \E w \in Workers : SlotStep(w) \/ Renew(w) \/ Fault(w)
        \/ \E p \in Procs : SweepStep(p) \/ SweepFault(p) \/ Crash(p)
        \/ \E j \in Jobs : LeaseExpires(j) \/ BecomesDue(j)
        \/ \E o \in Orgs : Suspend(o) \/ Resume(o)

Spec == Init /\ [][Next]_vars

(* The event loop keeps running every slot and every sweep, a provider     *)
(* call ends (requests carry a 120 s timeout), time passes, and a lease    *)
(* that no slot renews any more runs out.                                  *)
Fairness == /\ \A w \in Workers : WF_vars(SlotStep(w))
            /\ \A p \in Procs : WF_vars(SweepStep(p))
            /\ \A j \in Jobs : WF_vars(BecomesDue(j))
            /\ \A j \in Jobs :
                WF_vars((\A w \in Workers : ~(Working(w, j) /\ OwnerOf(w) = jobs[j].owner))
                        /\ LeaseExpires(j))

FairSpec == Spec /\ Fairness

-----------------------------------------------------------------------------
(* Properties. *)

JobRow == [status : {"pending", "leased", "complete", "failed"}, owner : Procs \cup {None},
           live : BOOLEAN, attempts : 0..MaxAttempts, due : BOOLEAN]
Seen == {"none", "open", "complete", "partial"}
SlotState == [pc : {"idle", "calling", "checking", "storing", "counting", "marking", "settling", "failing"},
              job : Jobs \cup {None}, result : Outcomes \cup {"none"},
              stage : {"store", "settle", "fail"}, seen : Seen]
SweepState == [pc : {"idle", "expiring", "counting", "marking"}, todo : SUBSET Batches,
               now : Batches \cup {None}, seen : Seen]

(* Types; in particular no job is ever charged more than max_attempts      *)
(* provider calls, whatever crashes, expiries and takeovers happen.        *)
TypeOK == /\ jobs \in [Jobs -> JobRow]
          /\ capture \in [Jobs -> Outcomes \cup {"none"}]
          /\ batch \in [Batches -> {"queued", "running"} \cup Terminal]
          /\ suspended \in SUBSET Orgs
          /\ slot \in [Workers -> SlotState]
          /\ sweeper \in [Procs -> SweepState]
          /\ crashes \in 0..MaxCrashes /\ faults \in 0..MaxFaults
          /\ suspensions \in 0..MaxSuspensions

(* A job is complete exactly when its evidence exists: no late failJob, no *)
(* sweep and no quota breaker ever turns a job with a stored capture into a*)
(* failed or pending one (repository.ts failJob, capture-progress.ts).     *)
EvidenceIffComplete == \A j \in Jobs : jobs[j].status = "complete" <=> capture[j] # "none"

(* A pending job can be claimed: it has a retry left and nobody owns it.   *)
(* The sweep looks only at leased jobs, so a pending job without retries   *)
(* would keep its batch open for ever (failJob against claimCaptureJob).   *)
PendingHasRetry == \A j \in Jobs :
    jobs[j].status = "pending" => jobs[j].attempts < MaxAttempts /\ jobs[j].owner = None

(* A closed batch is closed rightly, although refreshBatchStatus counts in *)
(* one statement and writes in a later one: every job of it has ended, and *)
(* it is "complete" exactly when every sample was captured with an answer. *)
ClosedBatchIsRight == \A b \in Batches : batch[b] \in Terminal =>
    /\ \A j \in JobsOf(b) : jobs[j].status \in Ended
    /\ batch[b] = "complete" <=> \A j \in JobsOf(b) : capture[j] = "complete"

(* A lease that has not run out is ended by a slot of the owning process   *)
(* that works on that very job, and by nobody else: not by the breaker, the*)
(* sweep, a worker that lost the job earlier, or another claim.            *)
LiveLeaseKept(j) == jobs[j].live =>
    /\ jobs'[j].attempts = jobs[j].attempts
    /\ jobs'[j].status # "leased" =>
        \E w \in Workers : /\ OwnerOf(w) = jobs[j].owner /\ Working(w, j)
                           /\ slot[w].pc \in {"storing", "failing"}
                           /\ slot'[w].pc = "counting"

LiveLeaseIsExclusive == [][\A j \in Jobs : LiveLeaseKept(j)]_vars

(* The queue implements the ledger: every sample is captured or lost once, *)
(* evidence is never rewritten, a batch closes once and with the right word.*)
Ledger == INSTANCE SampleLedger WITH
    sample <- [j \in Jobs |-> IF capture[j] # "none" THEN capture[j]
                              ELSE IF jobs[j].status = "failed" THEN "lost" ELSE "open"],
    closed <- [b \in Batches |-> IF batch[b] \in Terminal THEN batch[b] ELSE "open"]

LedgerSpec == Ledger!Spec

(* The last job of a batch has ended and everyone who would have refreshed *)
(* the batch because of it is gone.                                        *)
Stranded(b) == /\ batch[b] \notin Terminal
               /\ \A j \in JobsOf(b) : jobs[j].status \in Ended
               /\ \A w \in Workers : slot[w].pc # "idle" => BatchOf[slot[w].job] # b
               /\ \A p \in Procs : b \notin sweeper[p].todo

(* A slot or a sweep that will still count, or has counted a verdict that  *)
(* closes the batch, or will count again after the breaker.                *)
SlotRefreshes(w, b) ==
    /\ slot[w].pc # "idle" /\ BatchOf[slot[w].job] = b
    /\ slot[w].pc = "marking" /\ slot[w].seen = "open" =>
        slot[w].stage = "store" /\ slot[w].result = "quota"
SweepRefreshes(p, b) ==
    /\ sweeper[p].pc # "idle" /\ b \in sweeper[p].todo
    /\ ~(sweeper[p].pc = "marking" /\ sweeper[p].now = b /\ sweeper[p].seen = "open")

(* Only a death or a failing statement can strand a batch: whoever ends the*)
(* last job of a batch, be it a slot, its error path, the breaker of a slot*)
(* or a sweep, is followed by a count that no longer says "open", although *)
(* several of them end jobs, count and mark at the same time.              *)
ClosingIsAhead == \A b \in Batches :
    (/\ crashes + faults = 0
     /\ batch[b] \notin Terminal
     /\ JobsOf(b) # {} /\ \A j \in JobsOf(b) : jobs[j].status \in Ended)
        => (\E w \in Workers : SlotRefreshes(w, b)) \/ (\E p \in Procs : SweepRefreshes(p, b))

(* docs/architecture.md:129, docs/operations.md:64: a batch always reaches *)
(* complete or partial and never stays in "running" for ever.  Throwing    *)
(* captures, expired leases, exhausted retries, takeovers, suspensions and *)
(* a tripped breaker are all recovered by the claim and the sweep: whoever *)
(* ends the last job still has the refresh of its batch before it.  What is*)
(* not recovered is a death, or a failing statement, between the two.  Of a*)
(* batch whose organization is suspended for good nothing is promised.     *)
ConvergesUnlessStranded == \A b \in Batches :
    \/ <>(batch[b] \in Terminal)
    \/ <>(Stranded(b) /\ crashes + faults > 0)
    \/ <>[](OrgOf[b] \in suspended)
=============================================================================
