------------------------- MODULE CaptureQueueProofs -------------------------
(***************************************************************************)
(* Proofs about the capture queue, for any number of jobs, batches,        *)
(* processes and slots, any retry budget and any bound on the environment. *)
(*                                                                         *)
(* The inductive invariant adds to the checked invariants what the slots   *)
(* and sweeps remember between two statements: a verdict that was counted  *)
(* but not yet written is still right when it is written (PendingVerdicts),*)
(* because a job that has ended never changes again (EndedStays).          *)
(***************************************************************************)
EXTENDS CaptureQueue, TLAPS

(* Rows, slots and sweeps the code can produce. *)
GoodRows == {r \in JobRow :
    /\ r.status = "leased" <=> r.owner # None
    /\ r.live => r.status = "leased"
    /\ r.status = "pending" => r.attempts < MaxAttempts}

GoodSlots == {s \in SlotState :
    /\ s.pc # "idle" => s.job \in Jobs
    /\ s.pc \in {"checking", "storing"} => s.result \in Outcomes
    /\ s.pc = "marking" => s.seen \in {"open"} \cup Terminal}

GoodSweeps == {s \in SweepState :
    s.pc = "marking" => s.now \in Batches /\ s.seen \in {"open"} \cup Terminal}

JobsGood == jobs \in [Jobs -> GoodRows]
SlotsGood == slot \in [Workers -> GoodSlots]
SweepsGood == sweeper \in [Procs -> GoodSweeps]
CapturesGood == capture \in [Jobs -> Outcomes \cup {"none"}]
BatchesGood == batch \in [Batches -> {"queued", "running"} \cup Terminal]
EnvGood == /\ suspended \in SUBSET Orgs
           /\ crashes \in 0..MaxCrashes /\ faults \in 0..MaxFaults
           /\ suspensions \in 0..MaxSuspensions

AllGood == JobsGood /\ SlotsGood /\ SweepsGood /\ CapturesGood /\ BatchesGood /\ EnvGood

(* A terminal verdict v on batch b is right. *)
Right(b, v) == /\ \A j \in JobsOf(b) : jobs[j].status \in Ended
               /\ v = "complete" <=> \A j \in JobsOf(b) : capture[j] = "complete"

PendingVerdicts ==
    /\ \A w \in Workers : slot[w].pc = "marking" /\ slot[w].seen \in Terminal
                            => Right(BatchOf[slot[w].job], slot[w].seen)
    /\ \A p \in Procs : sweeper[p].pc = "marking" /\ sweeper[p].seen \in Terminal
                            => Right(sweeper[p].now, sweeper[p].seen)

IInv == AllGood /\ EvidenceIffComplete /\ ClosedBatchIsRight /\ PendingVerdicts

(* What no step may do: change a job that has ended, or its evidence. *)
EndedStays == \A j \in Jobs : jobs[j].status \in Ended =>
    jobs'[j].status = jobs[j].status /\ capture'[j] = capture[j]

-----------------------------------------------------------------------------
(* Facts about the constants used everywhere. *)
LEMMA ConstantFacts ==
    /\ \A w \in Workers : OwnerOf(w) \in Procs
    /\ None \notin Procs /\ None \notin Jobs /\ "none" \notin Outcomes
    /\ MaxAttempts \in Nat
    /\ \A j \in Jobs : BatchOf[j] \in Batches
  BY QueueAssumption DEF Workers, OwnerOf

(* What the statements that write one row of the jobs table make of it. *)
LEMMA ClaimedRow ==
    ASSUME NEW r \in GoodRows, NEW p \in Procs, r.attempts < MaxAttempts
    PROVE  Leased(r, p) \in GoodRows
  <1>1. r.attempts + 1 \in 0..MaxAttempts
    BY ConstantFacts DEF GoodRows, JobRow
  <1>2. Leased(r, p) \in JobRow
    BY <1>1 DEF GoodRows, JobRow, Leased
  <1>3. /\ Leased(r, p).status = "leased"
        /\ Leased(r, p).owner = p
    BY DEF GoodRows, JobRow, Leased
  <1> QED
    BY <1>2, <1>3, ConstantFacts DEF GoodRows

LEMMA EndedRow ==
    ASSUME NEW r \in GoodRows
    PROVE  /\ Completed(r) \in GoodRows /\ Completed(r).status = "complete"
           /\ Failed(r) \in GoodRows /\ Failed(r).status = "failed"
  BY DEF GoodRows, JobRow, Completed, Failed

LEMMA GivenBackRow ==
    ASSUME NEW r \in GoodRows
    PROVE  /\ GivenBack(r) \in GoodRows
           /\ GivenBack(r).status \in {"pending", "failed"}
  <1>1. GivenBack(r) \in JobRow
    BY DEF GoodRows, JobRow, GivenBack
  <1>2. /\ GivenBack(r).attempts = r.attempts
        /\ GivenBack(r).owner = None /\ GivenBack(r).live = FALSE
        /\ GivenBack(r).status = IF r.attempts >= MaxAttempts THEN "failed" ELSE "pending"
    BY DEF GoodRows, JobRow, GivenBack
  <1>3. r.attempts \in Nat
    BY ConstantFacts DEF GoodRows, JobRow
  <1> QED
    BY <1>1, <1>2, <1>3, ConstantFacts DEF GoodRows

LEMMA TouchedRow ==
    ASSUME NEW r \in GoodRows
    PROVE  /\ [r EXCEPT !.live = FALSE] \in GoodRows
           /\ [r EXCEPT !.due = TRUE] \in GoodRows
           /\ r.status = "leased" => [r EXCEPT !.live = TRUE] \in GoodRows
  BY DEF GoodRows, JobRow

(* Giving up a set of jobs keeps the rows good. *)
LEMMA FailAllGood ==
    ASSUME JobsGood, NEW js, FailAll(js)
    PROVE  JobsGood'
  BY EndedRow DEF JobsGood, FailAll
-----------------------------------------------------------------------------
(* Every step leaves the jobs table good and the ended jobs as they are. *)
JobsEndedStay == \A j \in Jobs : jobs[j].status \in Ended => jobs'[j].status = jobs[j].status

LEMMA JobsStep == AllGood /\ [Next]_vars => JobsGood' /\ JobsEndedStay
  <1> SUFFICES ASSUME JobsGood, SlotsGood, [Next]_vars
               PROVE  JobsGood' /\ JobsEndedStay
    BY DEF AllGood
  <1> USE ConstantFacts
  <1>0. CASE UNCHANGED jobs
    BY <1>0 DEF JobsGood, JobsEndedStay
  <1>1. ASSUME NEW w \in Workers, Claim(w) PROVE JobsGood' /\ JobsEndedStay
    <2>1. PICK j \in Jobs : /\ jobs[j].attempts < MaxAttempts
                            /\ jobs[j].status \in {"pending", "leased"}
                            /\ jobs' = [jobs EXCEPT ![j] = Leased(jobs[j], OwnerOf(w))]
      BY <1>1 DEF Claim, Claimable, Expired
    <2>2. Leased(jobs[j], OwnerOf(w)) \in GoodRows
      BY <2>1, ClaimedRow DEF JobsGood
    <2> QED
      BY <2>1, <2>2 DEF JobsGood, JobsEndedStay, Ended
  <1>2. ASSUME NEW w \in Workers, Renew(w) PROVE JobsGood' /\ JobsEndedStay
    <2>1. slot[w].job \in Jobs
      BY <1>2 DEF Renew, SlotsGood, GoodSlots
    <2>2. PICK j \in Jobs : jobs[j].status = "leased" /\ jobs' = [jobs EXCEPT ![j].live = TRUE]
      BY <1>2, <2>1 DEF Renew
    <2>3. [jobs[j] EXCEPT !.live = TRUE] \in GoodRows
      BY <2>2, TouchedRow DEF JobsGood
    <2> QED
      BY <2>2, <2>3 DEF JobsGood, JobsEndedStay, Ended, GoodRows, JobRow
  <1>3. ASSUME NEW w \in Workers, Store(w) PROVE JobsGood' /\ JobsEndedStay
    <2>1. slot[w].job \in Jobs
      BY <1>3 DEF Store, SlotsGood, GoodSlots
    <2>2. CASE ~HoldsLease(w, slot[w].job)
      BY <1>0, <1>3, <2>2 DEF Store
    <2>3. CASE HoldsLease(w, slot[w].job)
      <3>1. PICK j \in Jobs : jobs[j].status = "leased" /\ jobs' = [jobs EXCEPT ![j] = Completed(jobs[j])]
        BY <1>3, <2>1, <2>3 DEF Store, HoldsLease
      <3>2. Completed(jobs[j]) \in GoodRows
        BY EndedRow DEF JobsGood
      <3> QED
        BY <3>1, <3>2 DEF JobsGood, JobsEndedStay, Ended
    <2> QED
      BY <2>2, <2>3
  <1>4. ASSUME NEW w \in Workers, FailJob(w) PROVE JobsGood' /\ JobsEndedStay
    <2>1. slot[w].job \in Jobs
      BY <1>4 DEF FailJob, SlotsGood, GoodSlots
    <2>2. CASE jobs[slot[w].job].owner # OwnerOf(w)
      BY <1>0, <1>4, <2>2 DEF FailJob
    <2>3. CASE jobs[slot[w].job].owner = OwnerOf(w)
      <3>1. PICK j \in Jobs : jobs[j].owner \in Procs /\ jobs' = [jobs EXCEPT ![j] = GivenBack(jobs[j])]
        BY <1>4, <2>1, <2>3 DEF FailJob
      <3>2. jobs[j].status = "leased"
        BY <3>1 DEF JobsGood, GoodRows
      <3>3. GivenBack(jobs[j]) \in GoodRows
        BY GivenBackRow DEF JobsGood
      <3> QED
        BY <3>1, <3>2, <3>3 DEF JobsGood, JobsEndedStay, Ended
    <2> QED
      BY <2>2, <2>3
  <1>5. ASSUME NEW js, FailAll(js), \A j \in js : j \in Jobs => jobs[j].status \in {"pending", "leased"}
        PROVE  JobsGood' /\ JobsEndedStay
    BY <1>5, FailAllGood DEF JobsGood, JobsEndedStay, FailAll, Ended
  <1>6. ASSUME NEW w \in Workers, Settle(w) PROVE JobsGood' /\ JobsEndedStay
    BY <1>5, <1>6 DEF Settle, Blocked, Expired
  <1>7. ASSUME NEW p \in Procs, SweepSettle(p) PROVE JobsGood' /\ JobsEndedStay
    BY <1>5, <1>7 DEF SweepSettle, Blocked, Expired
  <1>8. ASSUME NEW p \in Procs, SweepExpired(p) PROVE JobsGood' /\ JobsEndedStay
    BY <1>5, <1>8 DEF SweepExpired, Exhausted, Expired
  <1>9. ASSUME NEW j \in Jobs, LeaseExpires(j) PROVE JobsGood' /\ JobsEndedStay
    <2>1. [jobs[j] EXCEPT !.live = FALSE] \in GoodRows
      BY TouchedRow DEF JobsGood
    <2> QED
      BY <1>9, <2>1 DEF LeaseExpires, JobsGood, JobsEndedStay, GoodRows, JobRow
  <1>10. ASSUME NEW j \in Jobs, BecomesDue(j) PROVE JobsGood' /\ JobsEndedStay
    <2>1. [jobs[j] EXCEPT !.due = TRUE] \in GoodRows
      BY TouchedRow DEF JobsGood
    <2> QED
      BY <1>10, <2>1 DEF BecomesDue, JobsGood, JobsEndedStay, GoodRows, JobRow
  <1>11. CASE UNCHANGED vars
    BY <1>0, <1>11 DEF vars
  <1> QED
    BY <1>0, <1>1, <1>2, <1>3, <1>4, <1>6, <1>7, <1>8, <1>9, <1>10, <1>11
       DEF Next, SlotStep, SweepStep, Answer, CallThrows, CheckLease, Count, Mark, Fault,
           SweepCount, SweepMark, SweepFault, Crash, Suspend, Resume, queueVars

-----------------------------------------------------------------------------
(* A count is a verdict or "open". *)
LEMMA VerdictRange == \A b : Verdict(b) \in {"open"} \cup Terminal
  BY DEF Verdict, Terminal

LEMMA SlotMoves ==
    /\ IdleSlot \in GoodSlots
    /\ \A j \in Jobs, l \in {"calling", "failing", "settling"} :
          [IdleSlot EXCEPT !.pc = l, !.job = j] \in GoodSlots
    /\ \A s \in GoodSlots, o \in Outcomes : s.pc = "calling" =>
          [s EXCEPT !.pc = "checking", !.result = o] \in GoodSlots
    /\ \A s \in GoodSlots : s.pc = "checking" => [s EXCEPT !.pc = "storing"] \in GoodSlots
    /\ \A s \in GoodSlots, v \in {"open"} \cup Terminal : s.pc = "counting" =>
          [s EXCEPT !.pc = "marking", !.seen = v] \in GoodSlots
    /\ \A s \in GoodSlots, g \in {"store", "settle", "fail"} : s.pc # "idle" =>
          [s EXCEPT !.pc = "counting", !.stage = g] \in GoodSlots
  BY ConstantFacts, ZenonT(40) DEF GoodSlots, SlotState, IdleSlot, Seen, Terminal

(* Every step leaves every slot in a state of runOneCloudCapture. *)
LEMMA SlotsStep == SlotsGood /\ [Next]_vars => SlotsGood'
  <1> SUFFICES ASSUME SlotsGood, [Next]_vars PROVE SlotsGood'
    OBVIOUS
  <1> USE SlotMoves
  <1>0. CASE UNCHANGED slot
    BY <1>0 DEF SlotsGood
  <1>a. ASSUME NEW w \in Workers, NEW s \in GoodSlots, SlotTo(w, s)
        PROVE  SlotsGood'
    BY <1>a DEF SlotsGood, SlotTo
  <1>b. ASSUME NEW w \in Workers, Catch(w), slot[w].pc # "idle" PROVE SlotsGood'
    <2>1. slot[w].job \in Jobs
      BY <1>b DEF SlotsGood, GoodSlots
    <2> QED
      BY <1>a, <1>b, <2>1 DEF Catch
  <1>c. ASSUME NEW w \in Workers, Finish(w) PROVE SlotsGood'
    BY <1>a, <1>c DEF Finish
  <1>1. ASSUME NEW w \in Workers, Claim(w) PROVE SlotsGood'
    BY <1>a, <1>1 DEF Claim
  <1>2. ASSUME NEW w \in Workers, Answer(w) PROVE SlotsGood'
    <2>1. PICK o \in Outcomes : SlotTo(w, [slot[w] EXCEPT !.pc = "checking", !.result = o])
      BY <1>2 DEF Answer
    <2>2. [slot[w] EXCEPT !.pc = "checking", !.result = o] \in GoodSlots
      BY <1>2 DEF Answer, SlotsGood
    <2> QED
      BY <1>a, <2>1, <2>2
  <1>3. ASSUME NEW w \in Workers, CallThrows(w) PROVE SlotsGood'
    BY <1>b, <1>3 DEF CallThrows
  <1>4. ASSUME NEW w \in Workers, CheckLease(w) PROVE SlotsGood'
    <2>1. CASE Catch(w)
      BY <1>b, <1>4, <2>1 DEF CheckLease
    <2>2. CASE SlotTo(w, [slot[w] EXCEPT !.pc = "storing"])
      BY <1>a, <1>4, <2>2 DEF CheckLease, SlotsGood
    <2> QED
      BY <1>4, <2>1, <2>2 DEF CheckLease
  <1>5. ASSUME NEW w \in Workers, NEW g \in {"store", "settle", "fail"}, slot[w].pc # "idle",
               SlotTo(w, [slot[w] EXCEPT !.pc = "counting", !.stage = g])
        PROVE  SlotsGood'
    BY <1>a, <1>5 DEF SlotsGood
  <1>6. ASSUME NEW w \in Workers, Store(w) PROVE SlotsGood'
    BY <1>b, <1>5, <1>6 DEF Store
  <1>7. ASSUME NEW w \in Workers, Count(w) PROVE SlotsGood'
    <2>1. PICK v \in {"open"} \cup Terminal : SlotTo(w, [slot[w] EXCEPT !.pc = "marking", !.seen = v])
      BY <1>7, VerdictRange DEF Count
    <2> QED
      BY <1>a, <1>7, <2>1 DEF Count, SlotsGood
  <1>8. ASSUME NEW w \in Workers, Mark(w) PROVE SlotsGood'
    <2>1. slot[w].job \in Jobs
      BY <1>8 DEF Mark, SlotsGood, GoodSlots
    <2> QED
      BY <1>a, <1>c, <1>8, <2>1 DEF Mark
  <1>9. ASSUME NEW w \in Workers, Settle(w) PROVE SlotsGood'
    BY <1>5, <1>9 DEF Settle
  <1>10. ASSUME NEW w \in Workers, FailJob(w) PROVE SlotsGood'
    BY <1>5, <1>10 DEF FailJob
  <1>11. ASSUME NEW w \in Workers, Fault(w) PROVE SlotsGood'
    BY <1>b, <1>c, <1>11 DEF Fault
  <1>12. ASSUME NEW p \in Procs, Crash(p) PROVE SlotsGood'
    BY <1>12 DEF Crash, SlotsGood
  <1>13. CASE UNCHANGED vars
    BY <1>0, <1>13 DEF vars
  <1> QED
    BY <1>0, <1>1, <1>2, <1>3, <1>4, <1>6, <1>7, <1>8, <1>9, <1>10, <1>11, <1>12, <1>13
       DEF Next, SlotStep, SweepStep, Renew, SweepSettle, SweepExpired, SweepCount, SweepMark,
           SweepFault, LeaseExpires, BecomesDue, Suspend, Resume, queueVars

LEMMA SweepMoves ==
    /\ IdleSweep \in GoodSweeps
    /\ \A ts \in SUBSET Batches :
          [IdleSweep EXCEPT !.pc = "counting", !.todo = ts] \in GoodSweeps
    /\ \A s \in GoodSweeps, l \in {"expiring", "counting"}, ts \in SUBSET Batches :
          [s EXCEPT !.pc = l, !.todo = ts] \in GoodSweeps
    /\ \A s \in GoodSweeps, b \in Batches, v \in {"open"} \cup Terminal :
          [s EXCEPT !.pc = "marking", !.now = b, !.seen = v] \in GoodSweeps
  BY DEF GoodSweeps, SweepState, IdleSweep, Seen, Terminal

(* Every step leaves every sweep in a state of sweepExpiredCaptureJobs. *)
LEMMA SweepsStep == SweepsGood /\ [Next]_vars => SweepsGood'
  <1> SUFFICES ASSUME SweepsGood, [Next]_vars PROVE SweepsGood'
    OBVIOUS
  <1> USE SweepMoves
  <1>0. CASE UNCHANGED sweeper
    BY <1>0 DEF SweepsGood
  <1>a. ASSUME NEW p \in Procs, NEW s \in GoodSweeps, SweepTo(p, s)
        PROVE  SweepsGood'
    BY <1>a DEF SweepsGood, SweepTo
  <1>b. \A p \in Procs : sweeper[p].todo \in SUBSET Batches
    BY DEF SweepsGood, GoodSweeps, SweepState
  <1>1. ASSUME NEW p \in Procs, SweepSettle(p) PROVE SweepsGood'
    <2>1. PICK ts \in SUBSET Batches :
            SweepTo(p, [sweeper[p] EXCEPT !.pc = "expiring", !.todo = ts])
      BY <1>1, ConstantFacts DEF SweepSettle, Blocked
    <2> QED
      BY <1>a, <2>1 DEF SweepsGood
  <1>2. ASSUME NEW p \in Procs, SweepExpired(p) PROVE SweepsGood'
    <2> DEFINE ts == sweeper[p].todo \cup {BatchOf[j] : j \in Exhausted}
    <2>1. ts \in SUBSET Batches
      BY <1>b, ConstantFacts DEF Exhausted
    <2>2. [sweeper[p] EXCEPT !.pc = "counting", !.todo = ts] \in GoodSweeps
      BY <2>1 DEF SweepsGood
    <2>3. \/ SweepTo(p, IdleSweep)
          \/ SweepTo(p, [sweeper[p] EXCEPT !.pc = "counting", !.todo = ts])
      BY <1>2 DEF SweepExpired
    <2> QED
      BY <1>a, <2>2, <2>3
  <1>3. ASSUME NEW p \in Procs, SweepCount(p) PROVE SweepsGood'
    <2>1. PICK b \in sweeper[p].todo :
            SweepTo(p, [sweeper[p] EXCEPT !.pc = "marking", !.now = b, !.seen = Verdict(b)])
      BY <1>3 DEF SweepCount
    <2>2. [sweeper[p] EXCEPT !.pc = "marking", !.now = b, !.seen = Verdict(b)] \in GoodSweeps
      BY <1>b, <2>1, VerdictRange DEF SweepsGood
    <2> QED
      BY <1>a, <2>1, <2>2
  <1>4. ASSUME NEW p \in Procs, SweepMark(p) PROVE SweepsGood'
    <2> DEFINE ts == sweeper[p].todo \ {sweeper[p].now}
    <2>1. ts \in SUBSET Batches
      BY <1>b
    <2>2. \/ SweepTo(p, IdleSweep)
          \/ SweepTo(p, [IdleSweep EXCEPT !.pc = "counting", !.todo = ts])
      BY <1>4 DEF SweepMark
    <2> QED
      BY <1>a, <2>1, <2>2
  <1>5. ASSUME NEW p \in Procs, SweepFault(p) \/ Crash(p) PROVE SweepsGood'
    BY <1>a, <1>5 DEF SweepFault, Crash
  <1>6. CASE UNCHANGED vars
    BY <1>0, <1>6 DEF vars
  <1> QED
    BY <1>0, <1>1, <1>2, <1>3, <1>4, <1>5, <1>6
       DEF Next, SlotStep, SweepStep, Claim, Renew, Answer, CallThrows, CheckLease, Store, Count,
           Mark, Settle, FailJob, Fault, LeaseExpires, BecomesDue, Suspend, Resume, queueVars

-----------------------------------------------------------------------------
(* Evidence: the store transaction appends it and completes the job, and   *)
(* no other step touches either. *)
LEMMA CapturesStep ==
    AllGood /\ EvidenceIffComplete /\ [Next]_vars
        => CapturesGood' /\ EvidenceIffComplete' /\ EndedStays
  <1> SUFFICES ASSUME AllGood, EvidenceIffComplete, [Next]_vars
               PROVE  CapturesGood' /\ EvidenceIffComplete' /\ EndedStays
    OBVIOUS
  <1>1. JobsGood' /\ JobsEndedStay
    BY JobsStep
  <1>2. ASSUME NEW w \in Workers, Store(w), HoldsLease(w, slot[w].job)
        PROVE  CapturesGood' /\ EvidenceIffComplete' /\ EndedStays
    <2>1. slot[w].job \in Jobs /\ slot[w].result \in Outcomes
      BY <1>2 DEF Store, AllGood, SlotsGood, GoodSlots
    <2>2. PICK j \in Jobs, o \in Outcomes :
            /\ jobs[j].status = "leased"
            /\ capture' = [capture EXCEPT ![j] = o]
            /\ jobs' = [jobs EXCEPT ![j] = Completed(jobs[j])]
      BY <1>2, <2>1 DEF Store, HoldsLease
    <2>3. Completed(jobs[j]).status = "complete"
      BY EndedRow DEF AllGood, JobsGood
    <2> QED
      BY <2>2, <2>3, ConstantFacts
         DEF AllGood, JobsGood, CapturesGood, EvidenceIffComplete, EndedStays, Ended
  <1>3. ASSUME UNCHANGED capture, \A j \in Jobs : jobs'[j].status = "complete" <=> jobs[j].status = "complete"
        PROVE  CapturesGood' /\ EvidenceIffComplete' /\ EndedStays
    BY <1>1, <1>3 DEF AllGood, CapturesGood, EvidenceIffComplete, EndedStays, JobsEndedStay
  <1>4. CASE UNCHANGED <<jobs, capture>>
    BY <1>3, <1>4
  <1>5. ASSUME NEW w \in Workers, Claim(w)
        PROVE  CapturesGood' /\ EvidenceIffComplete' /\ EndedStays
    <2>1. PICK j \in Jobs : /\ jobs[j].status \in {"pending", "leased"}
                            /\ jobs' = [jobs EXCEPT ![j] = Leased(jobs[j], OwnerOf(w))]
      BY <1>5 DEF Claim, Claimable, Expired
    <2>2. Leased(jobs[j], OwnerOf(w)).status = "leased"
      BY DEF AllGood, JobsGood, GoodRows, JobRow, Leased
    <2> QED
      BY <1>3, <1>5, <2>1, <2>2 DEF AllGood, JobsGood, Claim
  <1>6. ASSUME NEW w \in Workers, Renew(w)
        PROVE  CapturesGood' /\ EvidenceIffComplete' /\ EndedStays
    <2>1. slot[w].job \in Jobs
      BY <1>6 DEF Renew, AllGood, SlotsGood, GoodSlots
    <2>2. PICK j \in Jobs : jobs' = [jobs EXCEPT ![j].live = TRUE]
      BY <1>6, <2>1 DEF Renew
    <2> QED
      BY <1>3, <1>6, <2>2 DEF AllGood, JobsGood, GoodRows, JobRow, Renew
  <1>7. ASSUME NEW w \in Workers, FailJob(w)
        PROVE  CapturesGood' /\ EvidenceIffComplete' /\ EndedStays
    <2>1. slot[w].job \in Jobs
      BY <1>7 DEF FailJob, AllGood, SlotsGood, GoodSlots
    <2>2. CASE jobs' = jobs
      BY <1>3, <1>7, <2>2 DEF FailJob
    <2>3. CASE jobs[slot[w].job].owner = OwnerOf(w)
      <3>1. PICK j \in Jobs : /\ jobs[j].owner \in Procs
                              /\ jobs' = [jobs EXCEPT ![j] = GivenBack(jobs[j])]
        BY <1>7, <2>1, <2>3, ConstantFacts DEF FailJob
      <3>2. jobs[j].status = "leased"
        BY <3>1, ConstantFacts DEF AllGood, JobsGood, GoodRows
      <3>3. GivenBack(jobs[j]).status \in {"pending", "failed"}
        BY GivenBackRow DEF AllGood, JobsGood
      <3> QED
        BY <1>3, <1>7, <3>1, <3>2, <3>3 DEF AllGood, JobsGood, FailJob
    <2> QED
      BY <1>7, <2>2, <2>3 DEF FailJob
  <1>8. ASSUME NEW js, FailAll(js), UNCHANGED capture,
               \A j \in js : j \in Jobs => jobs[j].status \in {"pending", "leased"}
        PROVE  CapturesGood' /\ EvidenceIffComplete' /\ EndedStays
    <2>1. \A j \in Jobs : Failed(jobs[j]).status = "failed"
      BY EndedRow DEF AllGood, JobsGood
    <2> QED
      BY <1>3, <1>8, <2>1 DEF AllGood, JobsGood, FailAll
  <1>9. ASSUME NEW w \in Workers, Settle(w)
        PROVE  CapturesGood' /\ EvidenceIffComplete' /\ EndedStays
    BY <1>8, <1>9 DEF Settle, Blocked, Expired
  <1>10. ASSUME NEW p \in Procs, SweepSettle(p)
         PROVE  CapturesGood' /\ EvidenceIffComplete' /\ EndedStays
    BY <1>8, <1>10 DEF SweepSettle, Blocked, Expired
  <1>11. ASSUME NEW p \in Procs, SweepExpired(p)
         PROVE  CapturesGood' /\ EvidenceIffComplete' /\ EndedStays
    BY <1>8, <1>11 DEF SweepExpired, Exhausted, Expired
  <1>12. ASSUME NEW j \in Jobs, LeaseExpires(j) \/ BecomesDue(j)
         PROVE  CapturesGood' /\ EvidenceIffComplete' /\ EndedStays
    BY <1>3, <1>12 DEF LeaseExpires, BecomesDue, AllGood, JobsGood, GoodRows, JobRow
  <1>13. ASSUME NEW w \in Workers, Store(w)
         PROVE  CapturesGood' /\ EvidenceIffComplete' /\ EndedStays
    BY <1>2, <1>4, <1>13 DEF Store
  <1>14. CASE UNCHANGED vars
    BY <1>4, <1>14 DEF vars
  <1> QED
    BY <1>4, <1>5, <1>6, <1>7, <1>9, <1>10, <1>11, <1>12, <1>13, <1>14
       DEF Next, SlotStep, SweepStep, Answer, CallThrows, CheckLease, Count, Mark, Fault,
           SweepCount, SweepMark, SweepFault, Crash, Suspend, Resume, queueVars

-----------------------------------------------------------------------------
(* A verdict other than "open" is right at the moment it is counted. *)
LEMMA VerdictIsRight ==
    AllGood /\ EvidenceIffComplete =>
        \A b \in Batches : Verdict(b) \in Terminal => Right(b, Verdict(b))
  <1> SUFFICES ASSUME AllGood, EvidenceIffComplete, NEW b \in Batches, Verdict(b) \in Terminal
               PROVE  Right(b, Verdict(b))
    OBVIOUS
  <1>1. \A j \in JobsOf(b) : /\ j \in Jobs
                             /\ jobs[j].status \in {"pending", "leased", "complete", "failed"}
                             /\ capture[j] \in Outcomes \cup {"none"}
    BY DEF AllGood, JobsGood, GoodRows, JobRow, CapturesGood, JobsOf
  <1>2. \A j \in JobsOf(b) : jobs[j].status \in Ended
    BY <1>1 DEF Verdict, Terminal, Ended
  <1>3. \A j \in JobsOf(b) : jobs[j].status = "failed" => capture[j] = "none"
    BY <1>1 DEF EvidenceIffComplete, AllGood, CapturesGood
  <1>4. \A j \in JobsOf(b) : jobs[j].status = "complete" => capture[j] # "none"
    BY <1>1 DEF EvidenceIffComplete
  <1> QED
    BY <1>1, <1>2, <1>3, <1>4 DEF Right, Verdict, Ended, Terminal

(* Right, said of the state after the step. *)
RightAfter(b, v) == /\ \A j \in JobsOf(b) : jobs'[j].status \in Ended
                    /\ v = "complete" <=> \A j \in JobsOf(b) : capture'[j] = "complete"

(* What was right stays right, however much later it is written. *)
LEMMA RightStays == EndedStays => \A b, v : Right(b, v) => RightAfter(b, v)
  BY DEF EndedStays, Right, RightAfter, JobsOf, Ended

(* Writing a right verdict, or "open", keeps every closed batch right. *)
LEMMA MarkStep ==
    ASSUME IInv, EndedStays, NEW b \in Batches, NEW v \in {"open"} \cup Terminal,
           v \in Terminal => Right(b, v), batch' = Marked(b, v)
    PROVE  BatchesGood' /\ ClosedBatchIsRight'
  <1>1. BatchesGood /\ ClosedBatchIsRight
    BY DEF IInv, AllGood
  <1>2. BatchesGood'
    BY <1>1 DEF BatchesGood, Marked, Terminal
  <1>3. ASSUME NEW c \in Batches, batch'[c] \in Terminal PROVE RightAfter(c, batch'[c])
    <2>1. CASE batch'[c] = batch[c]
      <3>1. Right(c, batch[c])
        BY <1>1, <1>3, <2>1 DEF ClosedBatchIsRight, Right
      <3> QED
        BY <2>1, <3>1, RightStays
    <2>2. CASE batch'[c] # batch[c]
      <3>1. c = b /\ v \in Terminal /\ batch'[c] = v
        BY <1>1, <1>3, <2>2 DEF Marked, BatchesGood, Terminal
      <3> QED
        BY <3>1, RightStays
    <2> QED
      BY <2>1, <2>2
  <1> QED
    BY <1>2, <1>3 DEF ClosedBatchIsRight, RightAfter

LEMMA BatchStep == IInv /\ EndedStays /\ [Next]_vars => BatchesGood' /\ ClosedBatchIsRight'
  <1> SUFFICES ASSUME IInv, EndedStays, [Next]_vars PROVE BatchesGood' /\ ClosedBatchIsRight'
    OBVIOUS
  <1>1. CASE UNCHANGED batch
    <2>1. BatchesGood'
      BY <1>1 DEF IInv, AllGood, BatchesGood
    <2>2. ASSUME NEW b \in Batches, batch'[b] \in Terminal PROVE RightAfter(b, batch'[b])
      <3>1. Right(b, batch[b])
        BY <1>1, <2>2 DEF IInv, ClosedBatchIsRight, Right
      <3> QED
        BY <1>1, <3>1, RightStays
    <2> QED
      BY <2>1, <2>2 DEF ClosedBatchIsRight, RightAfter
  <1>2. ASSUME NEW w \in Workers, Mark(w) PROVE BatchesGood' /\ ClosedBatchIsRight'
    <2>1. /\ slot[w].pc = "marking"
          /\ slot[w] \in GoodSlots
      BY <1>2 DEF Mark, IInv, AllGood, SlotsGood
    <2>2. /\ BatchOf[slot[w].job] \in Batches
          /\ slot[w].seen \in {"open"} \cup Terminal
      BY <2>1, ConstantFacts DEF GoodSlots
    <2>3. slot[w].seen \in Terminal => Right(BatchOf[slot[w].job], slot[w].seen)
      BY <2>1 DEF IInv, PendingVerdicts
    <2> QED
      BY <1>2, <2>2, <2>3, MarkStep DEF Mark
  <1>3. ASSUME NEW p \in Procs, SweepMark(p) PROVE BatchesGood' /\ ClosedBatchIsRight'
    <2>1. /\ sweeper[p].pc = "marking"
          /\ sweeper[p] \in GoodSweeps
      BY <1>3 DEF SweepMark, IInv, AllGood, SweepsGood
    <2>2. sweeper[p].now \in Batches /\ sweeper[p].seen \in {"open"} \cup Terminal
      BY <2>1 DEF GoodSweeps
    <2>3. sweeper[p].seen \in Terminal => Right(sweeper[p].now, sweeper[p].seen)
      BY <2>1 DEF IInv, PendingVerdicts
    <2> QED
      BY <1>3, <2>2, <2>3, MarkStep DEF SweepMark
  <1>4. CASE UNCHANGED vars
    BY <1>1, <1>4 DEF vars
  <1> QED
    BY <1>1, <1>2, <1>3, <1>4
       DEF Next, SlotStep, SweepStep, Claim, Renew, Answer, CallThrows, CheckLease, Store, Count, Settle,
           FailJob, Fault, SweepSettle, SweepExpired, SweepCount, SweepFault, Crash, LeaseExpires,
           BecomesDue, Suspend, Resume, queueVars

(* A slot or sweep that is about to write counted in an earlier step or    *)
(* counts in this one. *)
LEMMA SlotVerdicts ==
    SlotsGood /\ [Next]_vars => \A w \in Workers :
        slot'[w].pc = "marking" =>
            \/ slot'[w] = slot[w]
            \/ /\ slot'[w].job = slot[w].job /\ slot'[w].job \in Jobs
               /\ slot'[w].seen = Verdict(BatchOf[slot[w].job])
               /\ UNCHANGED <<jobs, capture>>
  <1> SUFFICES ASSUME SlotsGood, [Next]_vars, NEW w \in Workers,
                      slot'[w].pc = "marking", slot'[w] # slot[w]
               PROVE  /\ slot'[w].job = slot[w].job /\ slot'[w].job \in Jobs
                      /\ slot'[w].seen = Verdict(BatchOf[slot[w].job])
                      /\ UNCHANGED <<jobs, capture>>
    OBVIOUS
  <1>1. ASSUME NEW u \in Workers, NEW s, SlotTo(u, s) PROVE u = w /\ slot'[w] = s
    BY <1>1 DEF SlotTo, SlotsGood
  <1>2. slot[w] \in SlotState
    BY DEF SlotsGood, GoodSlots
  <1>3. ASSUME NEW u \in Workers, Count(u) PROVE u = w
    BY <1>1, <1>3 DEF Count
  <1>4. CASE Count(w)
    <2>1. slot'[w] = [slot[w] EXCEPT !.pc = "marking", !.seen = Verdict(BatchOf[slot[w].job])]
      BY <1>1, <1>4 DEF Count
    <2>2. slot[w].job \in Jobs
      BY <1>4 DEF Count, SlotsGood, GoodSlots
    <2> QED
      BY <1>2, <1>4, <2>1, <2>2 DEF Count, SlotState, queueVars
  <1>a. ASSUME NEW u \in Workers, NEW x, NEW l, l # "marking",
               SlotTo(u, [IdleSlot EXCEPT !.pc = l, !.job = x])
        PROVE  FALSE
    <2>1. slot'[w] = [IdleSlot EXCEPT !.pc = l, !.job = x]
      BY <1>1, <1>a
    <2> QED
      BY <1>a, <2>1 DEF IdleSlot
  <1>b. ASSUME NEW u \in Workers, Finish(u) PROVE FALSE
    <2>1. slot'[w] = IdleSlot
      BY <1>1, <1>b DEF Finish
    <2> QED
      BY <2>1 DEF IdleSlot
  <1>5. ASSUME NEW u \in Workers, Finish(u) \/ Catch(u) PROVE FALSE
    BY <1>a, <1>b, <1>5 DEF Catch
  <1>6. ASSUME NEW u \in Workers, NEW s \in SlotState, NEW l \in {"checking", "storing"},
               SlotTo(u, [s EXCEPT !.pc = l])
        PROVE  FALSE
    BY <1>1, <1>6 DEF SlotState
  <1>7. ASSUME NEW u \in Workers, Claim(u) PROVE FALSE
    BY <1>a, <1>7 DEF Claim
  <1>8. ASSUME NEW u \in Workers, Answer(u) PROVE FALSE
    <2>1. PICK o \in Outcomes : slot'[w] = [slot[u] EXCEPT !.pc = "checking", !.result = o]
      BY <1>1, <1>8 DEF Answer
    <2>2. slot[u] \in SlotState
      BY DEF SlotsGood, GoodSlots
    <2> QED
      BY <2>1, <2>2 DEF SlotState
  <1>9. ASSUME NEW u \in Workers, CheckLease(u) PROVE FALSE
    <2>1. slot[u] \in SlotState
      BY DEF SlotsGood, GoodSlots
    <2> QED
      BY <1>5, <1>6, <1>9, <2>1 DEF CheckLease
  <1>10. ASSUME NEW u \in Workers, NEW g, SlotTo(u, [slot[u] EXCEPT !.pc = "counting", !.stage = g])
         PROVE  FALSE
    <2>1. slot[u] \in SlotState /\ slot'[w] = [slot[u] EXCEPT !.pc = "counting", !.stage = g]
      BY <1>1, <1>10 DEF SlotsGood, GoodSlots
    <2> QED
      BY <2>1 DEF SlotState
  <1>11. ASSUME NEW u \in Workers, Mark(u) PROVE FALSE
    BY <1>a, <1>5, <1>11 DEF Mark
  <1>12. ASSUME NEW p \in Procs, Crash(p) PROVE FALSE
    BY <1>12 DEF Crash, IdleSlot
  <1>13. CASE UNCHANGED slot
    BY <1>13
  <1> QED
    BY <1>3, <1>4, <1>5, <1>7, <1>8, <1>9, <1>10, <1>11, <1>12, <1>13
       DEF Next, SlotStep, SweepStep, Renew, CallThrows, Store, Settle, FailJob, Fault, SweepSettle,
           SweepExpired, SweepCount, SweepMark, SweepFault, LeaseExpires, BecomesDue, Suspend,
           Resume, queueVars, vars

LEMMA SweepVerdicts ==
    SweepsGood /\ [Next]_vars => \A p \in Procs :
        sweeper'[p].pc = "marking" =>
            \/ sweeper'[p] = sweeper[p]
            \/ /\ sweeper'[p].now \in Batches
               /\ sweeper'[p].seen = Verdict(sweeper'[p].now)
               /\ UNCHANGED <<jobs, capture>>
  <1> SUFFICES ASSUME SweepsGood, [Next]_vars, NEW p \in Procs,
                      sweeper'[p].pc = "marking", sweeper'[p] # sweeper[p]
               PROVE  /\ sweeper'[p].now \in Batches
                      /\ sweeper'[p].seen = Verdict(sweeper'[p].now)
                      /\ UNCHANGED <<jobs, capture>>
    OBVIOUS
  <1>1. ASSUME NEW q \in Procs, NEW s, SweepTo(q, s) PROVE q = p /\ sweeper'[p] = s
    BY <1>1 DEF SweepTo, SweepsGood
  <1>2. \A q \in Procs : sweeper[q] \in SweepState
    BY DEF SweepsGood, GoodSweeps
  <1>3. ASSUME NEW q \in Procs, SweepCount(q)
        PROVE  /\ sweeper'[p].now \in Batches
               /\ sweeper'[p].seen = Verdict(sweeper'[p].now)
               /\ UNCHANGED <<jobs, capture>>
    <2>1. PICK b \in sweeper[q].todo :
            sweeper'[p] = [sweeper[q] EXCEPT !.pc = "marking", !.now = b, !.seen = Verdict(b)]
      BY <1>1, <1>3 DEF SweepCount
    <2>2. b \in Batches
      BY <1>2, <2>1 DEF SweepState
    <2> QED
      BY <1>2, <1>3, <2>1, <2>2 DEF SweepState, SweepCount, queueVars
  <1>4. ASSUME NEW q \in Procs, NEW s \in SweepState, NEW l \in {"expiring", "counting"}, NEW ts,
               SweepTo(q, [s EXCEPT !.pc = l, !.todo = ts])
        PROVE  FALSE
    <2>1. sweeper'[p] = [s EXCEPT !.pc = l, !.todo = ts]
      BY <1>1, <1>4
    <2> QED
      BY <2>1 DEF SweepState
  <1>5. ASSUME NEW q \in Procs, SweepTo(q, IdleSweep) PROVE FALSE
    BY <1>1, <1>5 DEF IdleSweep
  <1>6. ASSUME NEW q \in Procs, SweepSettle(q) PROVE FALSE
    BY <1>2, <1>4, <1>6 DEF SweepSettle
  <1>7. ASSUME NEW q \in Procs, SweepExpired(q) PROVE FALSE
    <2> DEFINE ts == sweeper[q].todo \cup {BatchOf[j] : j \in Exhausted}
    <2>1. \/ SweepTo(q, IdleSweep)
          \/ SweepTo(q, [sweeper[q] EXCEPT !.pc = "counting", !.todo = ts])
      BY <1>7 DEF SweepExpired
    <2> QED
      BY <1>2, <1>4, <1>5, <2>1
  <1>8. ASSUME NEW q \in Procs, SweepMark(q) PROVE FALSE
    <2> DEFINE ts == sweeper[q].todo \ {sweeper[q].now}
    <2>1. \/ SweepTo(q, IdleSweep)
          \/ SweepTo(q, [IdleSweep EXCEPT !.pc = "counting", !.todo = ts])
      BY <1>8 DEF SweepMark
    <2>2. CASE SweepTo(q, [IdleSweep EXCEPT !.pc = "counting", !.todo = ts])
      <3>1. sweeper'[p] = [IdleSweep EXCEPT !.pc = "counting", !.todo = ts]
        BY <1>1, <2>2
      <3> QED
        BY <3>1 DEF IdleSweep
    <2> QED
      BY <1>5, <2>1, <2>2
  <1>9. CASE UNCHANGED sweeper
    BY <1>9
  <1> QED
    BY <1>3, <1>5, <1>6, <1>7, <1>8, <1>9
       DEF Next, SlotStep, SweepStep, Claim, Renew, Answer, CallThrows, CheckLease, Store, Count, Mark,
           Settle, FailJob, Fault, SweepFault, Crash, LeaseExpires, BecomesDue, Suspend, Resume,
           queueVars, vars

LEMMA PendingStep == IInv /\ EndedStays /\ [Next]_vars => PendingVerdicts'
  <1> SUFFICES ASSUME IInv, EndedStays, [Next]_vars PROVE PendingVerdicts'
    OBVIOUS
  <1>1. ASSUME NEW b \in Batches, Verdict(b) \in Terminal, UNCHANGED <<jobs, capture>>
        PROVE  RightAfter(b, Verdict(b))
    BY <1>1, VerdictIsRight, RightStays DEF IInv
  <1>2. ASSUME NEW w \in Workers, slot'[w].pc = "marking", slot'[w].seen \in Terminal
        PROVE  RightAfter(BatchOf[slot'[w].job], slot'[w].seen)
    <2>1. CASE slot'[w] = slot[w]
      BY <1>2, <2>1, RightStays DEF IInv, PendingVerdicts
    <2>2. CASE slot'[w] # slot[w]
      BY <1>1, <1>2, <2>2, SlotVerdicts, ConstantFacts DEF IInv, AllGood
    <2> QED
      BY <2>1, <2>2
  <1>3. ASSUME NEW p \in Procs, sweeper'[p].pc = "marking", sweeper'[p].seen \in Terminal
        PROVE  RightAfter(sweeper'[p].now, sweeper'[p].seen)
    <2>1. CASE sweeper'[p] = sweeper[p]
      BY <1>3, <2>1, RightStays DEF IInv, PendingVerdicts
    <2>2. CASE sweeper'[p] # sweeper[p]
      BY <1>1, <1>3, <2>2, SweepVerdicts DEF IInv, AllGood
    <2> QED
      BY <2>1, <2>2
  <1> QED
    BY <1>2, <1>3 DEF PendingVerdicts, Right, RightAfter

LEMMA EnvStep == EnvGood /\ [Next]_vars => EnvGood'
  <1> SUFFICES ASSUME EnvGood, [Next]_vars PROVE EnvGood'
    OBVIOUS
  <1> USE QueueAssumption DEF EnvGood
  <1>1. CASE UNCHANGED <<suspended, crashes, faults, suspensions>>
    BY <1>1
  <1>2. ASSUME NEW w \in Workers, Fault(w) PROVE EnvGood'
    BY <1>2 DEF Fault, queueVars
  <1>3. ASSUME NEW p \in Procs, SweepFault(p) \/ Crash(p) PROVE EnvGood'
    BY <1>3 DEF SweepFault, Crash, queueVars
  <1>4. ASSUME NEW o \in Orgs, Suspend(o) \/ Resume(o) PROVE EnvGood'
    BY <1>4 DEF Suspend, Resume, env
  <1> QED
    BY <1>1, <1>2, <1>3, <1>4
       DEF Next, SlotStep, SweepStep, Claim, Renew, Answer, CallThrows, CheckLease, Store, Count,
           Mark, Settle, FailJob, SweepSettle, SweepExpired, SweepCount, SweepMark, LeaseExpires,
           BecomesDue, queueVars, env, vars

-----------------------------------------------------------------------------
LEMMA InitInv == Init => IInv
  <1> SUFFICES ASSUME Init PROVE IInv
    OBVIOUS
  <1> USE QueueAssumption, ConstantFacts DEF Init
  <1>1. \A j, late : NewJob(j \in late) \in GoodRows
    BY DEF NewJob, GoodRows, JobRow
  <1>2. PICK late \in SUBSET Jobs : jobs = [j \in Jobs |-> NewJob(j \in late)]
    OBVIOUS
  <1>3. JobsGood
    BY <1>1, <1>2 DEF JobsGood
  <1>4. SlotsGood /\ SweepsGood
    BY SlotMoves, SweepMoves DEF SlotsGood, SweepsGood
  <1>5. CapturesGood /\ BatchesGood /\ EnvGood
    BY DEF CapturesGood, BatchesGood, EnvGood
  <1>6. EvidenceIffComplete
    BY <1>2 DEF EvidenceIffComplete, NewJob
  <1>7. ClosedBatchIsRight /\ PendingVerdicts
    BY DEF ClosedBatchIsRight, PendingVerdicts, Terminal, IdleSlot, IdleSweep
  <1> QED
    BY <1>3, <1>4, <1>5, <1>6, <1>7 DEF IInv, AllGood

LEMMA NextInv == IInv /\ [Next]_vars => IInv' /\ EndedStays
  <1> SUFFICES ASSUME IInv, [Next]_vars PROVE IInv' /\ EndedStays
    OBVIOUS
  <1>1. JobsGood' /\ SlotsGood' /\ SweepsGood' /\ EnvGood'
    BY JobsStep, SlotsStep, SweepsStep, EnvStep DEF IInv, AllGood
  <1>2. CapturesGood' /\ EvidenceIffComplete' /\ EndedStays
    BY CapturesStep DEF IInv
  <1>3. BatchesGood' /\ ClosedBatchIsRight' /\ PendingVerdicts'
    BY <1>2, BatchStep, PendingStep
  <1> QED
    BY <1>1, <1>2, <1>3 DEF IInv, AllGood

(* The inductive invariant holds in every reachable state. *)
THEOREM Inductive == Spec => []IInv
  BY InitInv, NextInv, PTL DEF Spec

(* Types, and with them the retry budget: however often leases expire and  *)
(* jobs are taken over, no job is charged more than max_attempts calls.    *)
THEOREM TypeCorrect == Spec => []TypeOK
  <1>1. IInv => TypeOK
    BY DEF IInv, AllGood, JobsGood, SlotsGood, SweepsGood, CapturesGood, BatchesGood, EnvGood, TypeOK,
           GoodRows, GoodSlots, GoodSweeps
  <1> QED
    BY <1>1, Inductive, PTL

(* Jobs are complete exactly when their evidence exists, and pending ones  *)
(* can still be claimed. *)
THEOREM EvidenceSafe == Spec => [](EvidenceIffComplete /\ PendingHasRetry)
  <1>1. IInv => EvidenceIffComplete /\ PendingHasRetry
    BY DEF IInv, AllGood, JobsGood, GoodRows, PendingHasRetry
  <1> QED
    BY <1>1, Inductive, PTL

(* A batch that is closed is closed rightly, although the count and the    *)
(* write of refreshBatchStatus are separate statements. *)
THEOREM ClosedSafe == Spec => []ClosedBatchIsRight
  <1>1. IInv => ClosedBatchIsRight
    BY DEF IInv
  <1> QED
    BY <1>1, Inductive, PTL

-----------------------------------------------------------------------------
(* The live lease: who may end it. *)

LEMMA LeaseStep == AllGood /\ [Next]_vars => \A j \in Jobs : LiveLeaseKept(j)
  <1> SUFFICES ASSUME AllGood, [Next]_vars, NEW j \in Jobs, jobs[j].live
               PROVE  LiveLeaseKept(j)
    BY DEF LiveLeaseKept
  <1>1. jobs[j] \in JobRow /\ jobs[j].status = "leased" /\ jobs \in [Jobs -> GoodRows]
    BY DEF AllGood, JobsGood, GoodRows
  <1>2. CASE jobs'[j].attempts = jobs[j].attempts /\ jobs'[j].status = jobs[j].status
    BY <1>1, <1>2 DEF LiveLeaseKept
  <1>3. ASSUME NEW w \in Workers, Claim(w) PROVE LiveLeaseKept(j)
    <2>1. PICK k \in Jobs : Claimable(k) /\ jobs' = [jobs EXCEPT ![k] = Leased(jobs[k], OwnerOf(w))]
      BY <1>3 DEF Claim
    <2>2. k # j
      BY <1>1, <2>1 DEF Claimable, Expired
    <2> QED
      BY <1>1, <1>2, <2>1, <2>2
  <1>4. ASSUME NEW w \in Workers, Renew(w) PROVE LiveLeaseKept(j)
    <2>1. slot[w].job \in Jobs
      BY <1>4 DEF Renew, AllGood, SlotsGood, GoodSlots
    <2>2. PICK k \in Jobs : jobs' = [jobs EXCEPT ![k].live = TRUE]
      BY <1>4, <2>1 DEF Renew
    <2> QED
      BY <1>1, <1>2, <2>2 DEF JobRow
  <1>5. ASSUME NEW w \in Workers, slot[w].pc \in {"storing", "failing"},
               OwnerOf(w) = jobs[slot[w].job].owner, slot'[w].pc = "counting",
               jobs' = [jobs EXCEPT ![slot[w].job] = jobs'[slot[w].job]],
               slot[w].job = j => jobs'[j].attempts = jobs[j].attempts
        PROVE  LiveLeaseKept(j)
    <2>1. CASE slot[w].job = j
      BY <1>5, <2>1 DEF LiveLeaseKept, Working
    <2>2. CASE slot[w].job # j
      BY <1>1, <1>2, <1>5, <2>2
    <2> QED
      BY <2>1, <2>2
  <1>6. ASSUME NEW w \in Workers, NEW s \in SlotState, NEW g,
               SlotTo(w, [s EXCEPT !.pc = "counting", !.stage = g])
        PROVE  slot'[w].pc = "counting"
    <2>1. slot'[w] = [s EXCEPT !.pc = "counting", !.stage = g]
      BY <1>6 DEF SlotTo, AllGood, SlotsGood
    <2> QED
      BY <2>1 DEF SlotState
  <1>7. ASSUME NEW w \in Workers, Store(w) PROVE LiveLeaseKept(j)
    <2>1. slot[w] \in SlotState /\ slot[w].job \in Jobs
      BY <1>7 DEF Store, AllGood, SlotsGood, GoodSlots
    <2>2. CASE ~HoldsLease(w, slot[w].job)
      BY <1>2, <1>7, <2>2 DEF Store
    <2>3. CASE HoldsLease(w, slot[w].job)
      <3>1. /\ jobs' = [jobs EXCEPT ![slot[w].job] = Completed(jobs[slot[w].job])]
            /\ slot'[w].pc = "counting"
        BY <1>6, <1>7, <2>1, <2>3 DEF Store
      <3>2. Completed(jobs[j]).attempts = jobs[j].attempts
        BY <1>1 DEF Completed, JobRow
      <3> QED
        BY <1>1, <1>5, <1>7, <2>1, <2>3, <3>1, <3>2 DEF Store, HoldsLease
    <2> QED
      BY <2>2, <2>3
  <1>8. ASSUME NEW w \in Workers, FailJob(w) PROVE LiveLeaseKept(j)
    <2>1. slot[w] \in SlotState /\ slot[w].job \in Jobs
      BY <1>8 DEF FailJob, AllGood, SlotsGood, GoodSlots
    <2>2. CASE jobs' = jobs
      BY <1>2, <2>2
    <2>3. CASE jobs[slot[w].job].owner = OwnerOf(w)
      <3>1. /\ jobs' = [jobs EXCEPT ![slot[w].job] = GivenBack(jobs[slot[w].job])]
            /\ slot'[w].pc = "counting"
        BY <1>6, <1>8, <2>1, <2>3 DEF FailJob
      <3>2. GivenBack(jobs[j]).attempts = jobs[j].attempts
        BY <1>1 DEF GivenBack, JobRow
      <3> QED
        BY <1>1, <1>5, <1>8, <2>1, <2>3, <3>1, <3>2 DEF FailJob
    <2> QED
      BY <1>8, <2>2, <2>3 DEF FailJob
  <1>9. ASSUME NEW js, FailAll(js), j \notin js PROVE LiveLeaseKept(j)
    BY <1>1, <1>2, <1>9 DEF FailAll
  <1>10. ASSUME NEW bs PROVE j \notin Blocked(bs) /\ j \notin Exhausted
    BY <1>1 DEF Blocked, Exhausted, Expired
  <1>11. ASSUME NEW w \in Workers, Settle(w) PROVE LiveLeaseKept(j)
    BY <1>9, <1>10, <1>11 DEF Settle
  <1>12. ASSUME NEW p \in Procs, SweepSettle(p) \/ SweepExpired(p) PROVE LiveLeaseKept(j)
    BY <1>9, <1>10, <1>12 DEF SweepSettle, SweepExpired
  <1>13. ASSUME NEW k \in Jobs, LeaseExpires(k) \/ BecomesDue(k) PROVE LiveLeaseKept(j)
    BY <1>1, <1>2, <1>13 DEF LeaseExpires, BecomesDue, JobRow
  <1>14. CASE UNCHANGED jobs
    BY <1>2, <1>14
  <1> QED
    BY <1>3, <1>4, <1>7, <1>8, <1>11, <1>12, <1>13, <1>14
       DEF Next, SlotStep, SweepStep, Answer, CallThrows, CheckLease, Count, Mark, Fault,
           SweepCount, SweepMark, SweepFault, Crash, Suspend, Resume, queueVars, vars

(* A live lease is ended only by a slot of the process that owns it, which *)
(* works on that job: no sweep, breaker, stale worker or other claim.      *)
THEOREM LeaseSafe == Spec => LiveLeaseIsExclusive
  <1>1. IInv /\ [Next]_vars => [\A j \in Jobs : LiveLeaseKept(j)]_vars
    BY LeaseStep DEF IInv
  <1>2. Spec => [][\A j \in Jobs : LiveLeaseKept(j)]_vars
    BY <1>1, Inductive, PTL DEF Spec
  <1> QED
    BY <1>2 DEF LiveLeaseIsExclusive

-----------------------------------------------------------------------------
(* The queue implements the ledger. *)

SampleOf(j) == IF capture[j] # "none" THEN capture[j]
               ELSE IF jobs[j].status = "failed" THEN "lost" ELSE "open"
ClosedOf(b) == IF batch[b] \in Terminal THEN batch[b] ELSE "open"

LedgerMove == [Ledger!Next]_(Ledger!ledgerVars)

(* A sample is open exactly while its job is pending or leased. *)
LEMMA SampleFacts ==
    AllGood /\ EvidenceIffComplete => \A j \in Jobs :
        /\ SampleOf(j) = "open" <=> jobs[j].status \in {"pending", "leased"}
        /\ SampleOf(j) = "complete" <=> capture[j] = "complete"
  BY QueueAssumption
     DEF AllGood, JobsGood, GoodRows, JobRow, CapturesGood, EvidenceIffComplete, SampleOf

(* A step that ends no job and closes no batch leaves the ledger alone. *)
LEMMA LedgerStutter ==
    ASSUME UNCHANGED <<capture, batch>>,
           \A j \in Jobs : jobs'[j].status = "failed" <=> jobs[j].status = "failed"
    PROVE  LedgerMove
  BY DEF LedgerMove, Ledger!ledgerVars

(* Giving up open jobs loses their samples. *)
LEMMA LedgerLose ==
    ASSUME AllGood, EvidenceIffComplete, UNCHANGED <<capture, batch>>, NEW js \in SUBSET Jobs,
           \A j \in js : jobs[j].status \in {"pending", "leased"} /\ jobs'[j].status = "failed",
           \A j \in Jobs \ js : jobs'[j].status = "failed" <=> jobs[j].status = "failed"
    PROVE  LedgerMove
  <1>1. \A j \in js : SampleOf(j) = "open" /\ capture[j] = "none"
    BY SampleFacts DEF EvidenceIffComplete
  <1>2. Ledger!Lose(js)
    BY <1>1 DEF Ledger!Lose, SampleOf
  <1> QED
    BY <1>2 DEF LedgerMove, Ledger!Next

(* Marking a batch closes it in the ledger, once, or changes nothing. *)
LEMMA LedgerMark ==
    ASSUME AllGood, EvidenceIffComplete, NEW b \in Batches, NEW v \in {"open"} \cup Terminal,
           v \in Terminal => Right(b, v), batch' = Marked(b, v), UNCHANGED <<jobs, capture>>
    PROVE  LedgerMove
  <1>0. BatchesGood
    BY DEF AllGood
  <1>1. CASE v = "open" \/ batch[b] \in Terminal
    <2>1. \A c \in Batches : ClosedOf(c)' = ClosedOf(c)
      BY <1>0, <1>1 DEF ClosedOf, Marked, BatchesGood, Terminal
    <2> QED
      BY <2>1 DEF LedgerMove, Ledger!ledgerVars, ClosedOf
  <1>2. CASE v \in Terminal /\ batch[b] \notin Terminal
    <2>1. batch' = [batch EXCEPT ![b] = v]
      BY <1>2 DEF Marked, Terminal
    <2>2. JobsOf(b) = Ledger!JobsOf(b) /\ \A j \in JobsOf(b) : j \in Jobs
      BY DEF JobsOf, Ledger!JobsOf
    <2>3. \A j \in JobsOf(b) : SampleOf(j) # "open"
      BY <1>2, <2>2, SampleFacts DEF Right, Ended
    <2>4. v = IF \A j \in JobsOf(b) : SampleOf(j) = "complete" THEN "complete" ELSE "partial"
      BY <1>2, <2>2, SampleFacts DEF Right, Terminal
    <2>5. /\ ClosedOf(b) = "open"
          /\ [c \in Batches |-> ClosedOf(c)]' = [[c \in Batches |-> ClosedOf(c)] EXCEPT ![b] = v]
      BY <1>0, <1>2, <2>1 DEF ClosedOf, BatchesGood
    <2>6. Ledger!Close(b)
      <3> DEFINE sam == [j \in Jobs |-> SampleOf(j)]
                 clo == [c \in Batches |-> ClosedOf(c)]
      <3>1. clo[b] = "open" /\ \A j \in Ledger!JobsOf(b) : sam[j] # "open"
        BY <2>2, <2>3, <2>5
      <3>2. v = IF \A j \in Ledger!JobsOf(b) : sam[j] = "complete" THEN "complete" ELSE "partial"
        BY <2>2, <2>4
      <3>3. sam' = sam
        BY DEF SampleOf
      <3>4. clo' = [clo EXCEPT ![b] =
                IF \A j \in Ledger!JobsOf(b) : sam[j] = "complete" THEN "complete" ELSE "partial"]
        BY <2>5, <3>2
      <3> QED
        BY <3>1, <3>3, <3>4 DEF Ledger!Close, SampleOf, ClosedOf
    <2> QED
      BY <2>6 DEF LedgerMove, Ledger!Next
  <1> QED
    BY <1>1, <1>2

LEMMA LedgerStep == IInv /\ [Next]_vars => LedgerMove
  <1> SUFFICES ASSUME IInv, [Next]_vars PROVE LedgerMove
    OBVIOUS
  <1> USE DEF IInv
  <1>0. AllGood /\ EvidenceIffComplete /\ jobs \in [Jobs -> GoodRows] /\ capture \in [Jobs -> Outcomes \cup {"none"}]
    BY DEF AllGood, JobsGood, CapturesGood
  <1>1. CASE UNCHANGED <<jobs, capture, batch>>
    BY <1>1, LedgerStutter
  <1>2. ASSUME NEW w \in Workers, Claim(w) PROVE LedgerMove
    <2>1. PICK j \in Jobs : /\ jobs[j].status \in {"pending", "leased"}
                            /\ jobs' = [jobs EXCEPT ![j] = Leased(jobs[j], OwnerOf(w))]
      BY <1>2 DEF Claim, Claimable, Expired
    <2>2. Leased(jobs[j], OwnerOf(w)).status = "leased"
      BY <1>0 DEF GoodRows, JobRow, Leased
    <2> QED
      BY <1>0, <1>2, <2>1, <2>2, LedgerStutter DEF Claim
  <1>3. ASSUME NEW w \in Workers, Renew(w) PROVE LedgerMove
    <2>1. slot[w].job \in Jobs
      BY <1>3 DEF Renew, AllGood, SlotsGood, GoodSlots
    <2>2. PICK j \in Jobs : jobs' = [jobs EXCEPT ![j].live = TRUE]
      BY <1>3, <2>1 DEF Renew
    <2> QED
      BY <1>0, <1>3, <2>2, LedgerStutter DEF GoodRows, JobRow, Renew
  <1>4. ASSUME NEW w \in Workers, Store(w), HoldsLease(w, slot[w].job) PROVE LedgerMove
    <2>1. slot[w].job \in Jobs /\ slot[w].result \in Outcomes
      BY <1>4 DEF Store, AllGood, SlotsGood, GoodSlots
    <2>2. PICK j \in Jobs, o \in Outcomes :
            /\ jobs[j].status = "leased"
            /\ capture' = [capture EXCEPT ![j] = o]
            /\ jobs' = [jobs EXCEPT ![j] = Completed(jobs[j])]
            /\ UNCHANGED batch
      BY <1>4, <2>1 DEF Store, HoldsLease
    <2>3. Completed(jobs[j]).status = "complete" /\ o # "none"
      BY <1>0, EndedRow, ConstantFacts
    <2>4. SampleOf(j) = "open"
      BY <1>0, <2>2, SampleFacts
    <2>5. [k \in Jobs |-> SampleOf(k)]' = [[k \in Jobs |-> SampleOf(k)] EXCEPT ![j] = o]
      BY <1>0, <2>2, <2>3 DEF SampleOf
    <2>6. Ledger!Capture(j, o)
      BY <2>2, <2>4, <2>5 DEF Ledger!Capture, SampleOf
    <2> QED
      BY <2>6 DEF LedgerMove, Ledger!Next
  <1>5. ASSUME NEW w \in Workers, Store(w) PROVE LedgerMove
    BY <1>1, <1>4, <1>5 DEF Store
  <1>6. ASSUME NEW w \in Workers, FailJob(w) PROVE LedgerMove
    <2>1. slot[w].job \in Jobs
      BY <1>6 DEF FailJob, AllGood, SlotsGood, GoodSlots
    <2>2. CASE jobs' = jobs
      BY <1>1, <1>6, <2>2 DEF FailJob
    <2>3. CASE jobs[slot[w].job].owner = OwnerOf(w)
      <3>1. PICK j \in Jobs : /\ jobs[j].owner \in Procs
                              /\ jobs' = [jobs EXCEPT ![j] = GivenBack(jobs[j])]
        BY <1>6, <2>1, <2>3, ConstantFacts DEF FailJob
      <3>2. jobs[j].status = "leased"
        BY <1>0, <3>1, ConstantFacts DEF GoodRows
      <3>3. CASE GivenBack(jobs[j]).status = "failed"
        <4>1. /\ jobs'[j].status = "failed"
              /\ \A k \in Jobs \ {j} : jobs'[k] = jobs[k]
              /\ UNCHANGED <<capture, batch>>
          BY <1>0, <1>6, <3>1, <3>3 DEF FailJob
        <4>2. \A k \in {j} : jobs[k].status \in {"pending", "leased"} /\ jobs'[k].status = "failed"
          BY <3>2, <4>1
        <4>3. {j} \in SUBSET Jobs
          OBVIOUS
        <4> QED
          BY <1>0, <4>1, <4>2, <4>3, LedgerLose
      <3>4. CASE GivenBack(jobs[j]).status = "pending"
        BY <1>0, <1>6, <3>1, <3>2, <3>4, LedgerStutter DEF FailJob
      <3> QED
        BY <1>0, <3>3, <3>4, GivenBackRow
    <2> QED
      BY <1>6, <2>2, <2>3 DEF FailJob
  <1>7. ASSUME NEW js \in SUBSET Jobs, FailAll(js), UNCHANGED <<capture, batch>>,
               \A j \in js : jobs[j].status \in {"pending", "leased"}
        PROVE  LedgerMove
    <2>1. \A j \in Jobs : Failed(jobs[j]).status = "failed"
      BY <1>0, EndedRow
    <2> QED
      BY <1>0, <1>7, <2>1, LedgerLose DEF FailAll
  <1>8. ASSUME NEW w \in Workers, Settle(w) PROVE LedgerMove
    BY <1>7, <1>8 DEF Settle, Blocked, Expired
  <1>9. ASSUME NEW p \in Procs, SweepSettle(p) PROVE LedgerMove
    BY <1>7, <1>9 DEF SweepSettle, Blocked, Expired
  <1>10. ASSUME NEW p \in Procs, SweepExpired(p) PROVE LedgerMove
    BY <1>7, <1>10 DEF SweepExpired, Exhausted, Expired
  <1>11. ASSUME NEW j \in Jobs, LeaseExpires(j) \/ BecomesDue(j) PROVE LedgerMove
    BY <1>0, <1>11, LedgerStutter DEF LeaseExpires, BecomesDue, GoodRows, JobRow
  <1>12. ASSUME NEW w \in Workers, Mark(w) PROVE LedgerMove
    <2>1. slot[w].pc = "marking" /\ slot[w] \in GoodSlots
      BY <1>12 DEF Mark, AllGood, SlotsGood
    <2>2. BatchOf[slot[w].job] \in Batches /\ slot[w].seen \in {"open"} \cup Terminal
      BY <2>1, ConstantFacts DEF GoodSlots
    <2>3. slot[w].seen \in Terminal => Right(BatchOf[slot[w].job], slot[w].seen)
      BY <2>1 DEF PendingVerdicts
    <2> QED
      BY <1>12, <2>2, <2>3, LedgerMark DEF Mark
  <1>13. ASSUME NEW p \in Procs, SweepMark(p) PROVE LedgerMove
    <2>1. sweeper[p].pc = "marking" /\ sweeper[p] \in GoodSweeps
      BY <1>13 DEF SweepMark, AllGood, SweepsGood
    <2>2. sweeper[p].now \in Batches /\ sweeper[p].seen \in {"open"} \cup Terminal
      BY <2>1 DEF GoodSweeps
    <2>3. sweeper[p].seen \in Terminal => Right(sweeper[p].now, sweeper[p].seen)
      BY <2>1 DEF PendingVerdicts
    <2> QED
      BY <1>13, <2>2, <2>3, LedgerMark DEF SweepMark
  <1>14. CASE UNCHANGED vars
    BY <1>1, <1>14 DEF vars
  <1> QED
    BY <1>1, <1>2, <1>3, <1>5, <1>6, <1>8, <1>9, <1>10, <1>11, <1>12, <1>13, <1>14
       DEF Next, SlotStep, SweepStep, Answer, CallThrows, CheckLease, Count, Fault, SweepCount,
           SweepFault, Crash, Suspend, Resume, queueVars

(* Every behaviour of the queue is a behaviour of the ledger: samples are  *)
(* captured or lost once, evidence is never rewritten, and a batch closes  *)
(* once, when all its samples are settled, with the right word.            *)
THEOREM QueueImplementsLedger == Spec => LedgerSpec
  <1>1. Init => Ledger!Init
    BY DEF Init, Ledger!Init, NewJob, Terminal
  <1>2. Spec => [][Ledger!Next]_(Ledger!ledgerVars)
    BY LedgerStep, Inductive, PTL DEF Spec, LedgerMove
  <1> QED
    BY <1>1, <1>2, PTL DEF Spec, LedgerSpec, Ledger!Spec

-----------------------------------------------------------------------------
(* Nothing is stranded without a death or a failing statement.             *)

LEMMA CountCloses ==
    ASSUME NEW b, \A j \in JobsOf(b) : jobs[j].status \in Ended
    PROVE  Verdict(b) # "open"
  BY DEF Verdict, Ended

(* A slot that goes on with its job in any state but the last will refresh. *)
LEMMA SlotGoesOn ==
    ASSUME SlotsGood, NEW w \in Workers, NEW s, SlotTo(w, s), s.pc \notin {"idle", "marking"},
           NEW b, BatchOf[s.job] = b
    PROVE  SlotRefreshes(w, b)'
  <1>1. slot'[w] = s
    BY DEF SlotTo, SlotsGood
  <1> QED
    BY <1>1 DEF SlotRefreshes

LEMMA SlotOnward ==
    ASSUME SlotsGood, NEW w \in Workers, NEW b, BatchOf[slot[w].job] = b,
           Answer(w) \/ CallThrows(w) \/ CheckLease(w) \/ Store(w) \/ Settle(w) \/ FailJob(w)
    PROVE  SlotRefreshes(w, b)'
  <1>1. slot[w] \in SlotState
    BY DEF SlotsGood, GoodSlots
  <1>2. CASE Catch(w)
    <2>1. [IdleSlot EXCEPT !.pc = "failing", !.job = slot[w].job].pc = "failing"
          /\ [IdleSlot EXCEPT !.pc = "failing", !.job = slot[w].job].job = slot[w].job
      BY DEF IdleSlot
    <2> QED
      BY <1>2, <2>1, SlotGoesOn DEF Catch
  <1>3. ASSUME NEW o \in Outcomes, SlotTo(w, [slot[w] EXCEPT !.pc = "checking", !.result = o])
        PROVE  SlotRefreshes(w, b)'
    <2>1. [slot[w] EXCEPT !.pc = "checking", !.result = o].pc = "checking"
          /\ [slot[w] EXCEPT !.pc = "checking", !.result = o].job = slot[w].job
      BY <1>1 DEF SlotState
    <2> QED
      BY <1>3, <2>1, SlotGoesOn
  <1>4. CASE SlotTo(w, [slot[w] EXCEPT !.pc = "storing"])
    <2>1. [slot[w] EXCEPT !.pc = "storing"].pc = "storing"
          /\ [slot[w] EXCEPT !.pc = "storing"].job = slot[w].job
      BY <1>1 DEF SlotState
    <2> QED
      BY <1>4, <2>1, SlotGoesOn
  <1>5. ASSUME NEW g, SlotTo(w, [slot[w] EXCEPT !.pc = "counting", !.stage = g])
        PROVE  SlotRefreshes(w, b)'
    <2>1. [slot[w] EXCEPT !.pc = "counting", !.stage = g].pc = "counting"
          /\ [slot[w] EXCEPT !.pc = "counting", !.stage = g].job = slot[w].job
      BY <1>1 DEF SlotState
    <2> QED
      BY <1>5, <2>1, SlotGoesOn
  <1> QED
    BY <1>2, <1>3, <1>4, <1>5 DEF Answer, CallThrows, CheckLease, Store, Settle, FailJob

(* A slot that was going to refresh still is, unless the batch is closed.  *)
LEMMA SlotStaysAhead ==
    ASSUME AllGood, NEW w \in Workers, NEW b \in Batches, SlotStep(w), SlotRefreshes(w, b),
           \A j \in JobsOf(b) : jobs[j].status \in Ended, batch'[b] \notin Terminal
    PROVE  SlotRefreshes(w, b)'
  <1>1. slot[w] \in SlotState /\ slot[w] \in GoodSlots /\ SlotsGood /\ BatchesGood
    BY DEF AllGood, SlotsGood, GoodSlots
  <1>2. slot[w].pc # "idle" /\ BatchOf[slot[w].job] = b
    BY DEF SlotRefreshes
  <1>3. CASE Count(w)
    <2>1. slot'[w] = [slot[w] EXCEPT !.pc = "marking", !.seen = Verdict(b)]
      BY <1>1, <1>2, <1>3 DEF Count, SlotTo, SlotsGood
    <2>2. slot'[w].pc = "marking" /\ slot'[w].seen # "open" /\ slot'[w].job = slot[w].job
      BY <1>1, <2>1, CountCloses DEF SlotState
    <2> QED
      BY <1>2, <2>2 DEF SlotRefreshes
  <1>4. CASE Mark(w)
    <2>1. slot[w].pc = "marking" /\ batch' = Marked(b, slot[w].seen)
      BY <1>2, <1>4 DEF Mark
    <2>2. slot[w].seen \notin Terminal
      BY <1>1, <2>1 DEF Marked, BatchesGood, Terminal
    <2>3. slot[w].stage = "store" /\ slot[w].result = "quota"
      BY <1>1, <2>1, <2>2 DEF SlotRefreshes, GoodSlots
    <2>4. SlotTo(w, [IdleSlot EXCEPT !.pc = "settling", !.job = slot[w].job])
      BY <1>4, <2>3 DEF Mark
    <2>5. [IdleSlot EXCEPT !.pc = "settling", !.job = slot[w].job].pc = "settling"
          /\ [IdleSlot EXCEPT !.pc = "settling", !.job = slot[w].job].job = slot[w].job
      BY DEF IdleSlot
    <2> QED
      BY <1>1, <1>2, <2>4, <2>5, SlotGoesOn
  <1>5. CASE Claim(w)
    BY <1>2, <1>5 DEF Claim
  <1> QED
    BY <1>1, <1>2, <1>3, <1>4, <1>5, SlotOnward DEF SlotStep

(* The same of a sweep.                                                    *)
LEMMA SweepStaysAhead ==
    ASSUME AllGood, NEW p \in Procs, NEW b \in Batches, SweepStep(p), SweepRefreshes(p, b),
           \A j \in JobsOf(b) : jobs[j].status \in Ended, batch'[b] \notin Terminal
    PROVE  SweepRefreshes(p, b)'
  <1>1. sweeper[p] \in SweepState /\ sweeper[p] \in GoodSweeps /\ BatchesGood
    BY DEF AllGood, SweepsGood, GoodSweeps
  <1>2. b \in sweeper[p].todo
    BY DEF SweepRefreshes
  <1>3. ASSUME NEW s, SweepTo(p, s) PROVE sweeper'[p] = s
    BY <1>3 DEF SweepTo, AllGood, SweepsGood
  <1>4. CASE SweepCount(p)
    <2>1. PICK c \in sweeper[p].todo :
            sweeper'[p] = [sweeper[p] EXCEPT !.pc = "marking", !.now = c, !.seen = Verdict(c)]
      BY <1>3, <1>4 DEF SweepCount
    <2>2. sweeper'[p].pc = "marking" /\ sweeper'[p].todo = sweeper[p].todo /\ sweeper'[p].now = c /\ sweeper'[p].seen = Verdict(c)
      BY <1>1, <2>1 DEF SweepState
    <2> QED
      BY <1>2, <2>2, CountCloses DEF SweepRefreshes
  <1>5. CASE SweepMark(p)
    <2>1. sweeper[p].pc = "marking" /\ batch' = Marked(sweeper[p].now, sweeper[p].seen)
      BY <1>5 DEF SweepMark
    <2>2. sweeper[p].now # b
      BY <1>1, <2>1 DEF Marked, BatchesGood, Terminal, GoodSweeps, SweepRefreshes
    <2>3. b \in sweeper[p].todo \ {sweeper[p].now}
      BY <1>2, <2>2
    <2>4. sweeper'[p] = [IdleSweep EXCEPT !.pc = "counting", !.todo = sweeper[p].todo \ {sweeper[p].now}]
      BY <1>3, <1>5, <2>3 DEF SweepMark
    <2> QED
      BY <2>3, <2>4 DEF SweepRefreshes, IdleSweep
  <1>6. CASE SweepExpired(p)
    <2> DEFINE ts == sweeper[p].todo \cup {BatchOf[j] : j \in Exhausted}
    <2>1. b \in ts
      BY <1>2
    <2>2. sweeper'[p] = [sweeper[p] EXCEPT !.pc = "counting", !.todo = ts]
      BY <1>3, <1>6, <2>1 DEF SweepExpired
    <2>3. sweeper'[p].pc = "counting" /\ sweeper'[p].todo = ts
      BY <1>1, <2>2 DEF SweepState
    <2> QED
      BY <2>1, <2>3 DEF SweepRefreshes
  <1>7. CASE SweepSettle(p)
    BY <1>7 DEF SweepSettle, SweepRefreshes
  <1> QED
    BY <1>4, <1>5, <1>6, <1>7 DEF SweepStep

(* Whoever ends a job of a batch has the refresh of the batch before it.   *)
LEMMA EnderIsAhead ==
    ASSUME IInv, [Next]_vars, NEW j \in Jobs, NEW b \in Batches, BatchOf[j] = b,
           jobs[j].status \notin Ended, jobs'[j].status \in Ended
    PROVE  (\E w \in Workers : SlotRefreshes(w, b)') \/ (\E p \in Procs : SweepRefreshes(p, b)')
  <1> DEFINE Ahead == (\E w \in Workers : SlotRefreshes(w, b)') \/ (\E p \in Procs : SweepRefreshes(p, b)')
  <1>0. /\ SlotsGood /\ SweepsGood /\ JobsGood
        /\ jobs \in [Jobs -> JobRow]
    BY DEF IInv, AllGood, JobsGood, GoodRows
  <1>1. jobs' # jobs
    OBVIOUS
  <1>2. ASSUME NEW w \in Workers, Store(w) \/ FailJob(w) PROVE Ahead
    <2>1. slot[w].job \in Jobs
      BY <1>0, <1>2 DEF Store, FailJob, SlotsGood, GoodSlots
    <2>2. slot[w].job = j
      BY <1>0, <1>1, <1>2, <2>1 DEF Store, FailJob
    <2> QED
      BY <1>0, <1>2, <2>2, SlotOnward
  <1>3. ASSUME NEW w \in Workers, Settle(w) PROVE Ahead
    <2>1. j \in Blocked({BatchOf[slot[w].job]})
      BY <1>3 DEF Settle, FailAll
    <2>2. BatchOf[slot[w].job] = b
      BY <2>1 DEF Blocked
    <2> QED
      BY <1>0, <1>3, <2>2, SlotOnward
  <1>4. ASSUME NEW p \in Procs, SweepSettle(p) PROVE Ahead
    <2>1. j \in Blocked(Batches)
      BY <1>4 DEF SweepSettle, FailAll
    <2> DEFINE ts == {BatchOf[i] : i \in Blocked(Batches)}
    <2>2. b \in ts
      BY <2>1
    <2>3. sweeper'[p] = [sweeper[p] EXCEPT !.pc = "expiring", !.todo = ts]
      BY <1>0, <1>4 DEF SweepSettle, SweepTo, SweepsGood
    <2>4. sweeper[p] \in SweepState
      BY <1>0 DEF SweepsGood, GoodSweeps
    <2>5. sweeper'[p].pc = "expiring" /\ sweeper'[p].todo = ts
      BY <2>3, <2>4 DEF SweepState
    <2> QED
      BY <2>2, <2>5 DEF SweepRefreshes
  <1>5. ASSUME NEW p \in Procs, SweepExpired(p) PROVE Ahead
    <2>1. j \in Exhausted
      BY <1>5 DEF SweepExpired, FailAll
    <2> DEFINE ts == sweeper[p].todo \cup {BatchOf[i] : i \in Exhausted}
    <2>2. b \in ts
      BY <2>1
    <2>3. SweepTo(p, IF ts = {} THEN IdleSweep ELSE [sweeper[p] EXCEPT !.pc = "counting", !.todo = ts])
      BY <1>5 DEF SweepExpired
    <2> HIDE DEF ts
    <2>4. sweeper'[p] = [sweeper[p] EXCEPT !.pc = "counting", !.todo = ts]
      BY <1>0, <2>2, <2>3 DEF SweepTo, SweepsGood
    <2>5. sweeper[p] \in SweepState
      BY <1>0 DEF SweepsGood, GoodSweeps
    <2>6. sweeper'[p].pc = "counting" /\ sweeper'[p].todo = ts
      BY <2>4, <2>5 DEF SweepState
    <2> QED
      BY <2>2, <2>6 DEF SweepRefreshes
  <1>6. ASSUME NEW w \in Workers, Claim(w) PROVE FALSE
    <2>1. PICK i \in Jobs : jobs' = [jobs EXCEPT ![i] = Leased(jobs[i], OwnerOf(w))]
      BY <1>6 DEF Claim
    <2>2. Leased(jobs[i], OwnerOf(w)).status = "leased"
      BY <1>0 DEF JobRow, Leased
    <2> QED
      BY <1>0, <2>1, <2>2 DEF Ended
  <1>7. ASSUME NEW w \in Workers, Renew(w) PROVE FALSE
    <2>1. PICK i : jobs' = [jobs EXCEPT ![i].live = TRUE]
      BY <1>7 DEF Renew
    <2> QED
      BY <1>0, <2>1 DEF JobRow
  <1>8. ASSUME NEW i \in Jobs, LeaseExpires(i) \/ BecomesDue(i) PROVE FALSE
    BY <1>0, <1>8 DEF LeaseExpires, BecomesDue, JobRow
  <1> QED
    BY <1>1, <1>2, <1>3, <1>4, <1>5, <1>6, <1>7, <1>8
       DEF Next, SlotStep, SweepStep, Answer, CallThrows, CheckLease, Count, Mark, Fault,
           SweepCount, SweepMark, SweepFault, Crash, Suspend, Resume, queueVars, vars

(* A step that writes the status of a batch never reopens it.              *)
LEMMA ClosedStays ==
    ASSUME AllGood, [Next]_vars, NEW b \in Batches, batch[b] \in Terminal
    PROVE  batch'[b] \in Terminal
  <1>1. ASSUME NEW c, NEW v, batch' = Marked(c, v) PROVE batch'[b] \in Terminal
    BY <1>1 DEF Marked, AllGood, BatchesGood, Terminal
  <1> QED
    BY <1>1 DEF Next, SlotStep, SweepStep, Claim, Renew, Answer, CallThrows, CheckLease, Store, Count,
           Mark, Settle, FailJob, Fault, SweepSettle, SweepExpired, SweepCount, SweepMark, SweepFault,
           Crash, LeaseExpires, BecomesDue, Suspend, Resume, queueVars, vars

LEMMA ClosingStep == IInv /\ ClosingIsAhead /\ [Next]_vars => ClosingIsAhead'
  <1> SUFFICES ASSUME IInv, ClosingIsAhead, [Next]_vars, NEW b \in Batches,
                      (crashes + faults)' = 0, batch'[b] \notin Terminal, JobsOf(b) # {},
                      \A j \in JobsOf(b) : jobs'[j].status \in Ended
               PROVE  (\E w \in Workers : SlotRefreshes(w, b)') \/ (\E p \in Procs : SweepRefreshes(p, b)')
    BY DEF ClosingIsAhead, JobsOf
  <1> DEFINE Ahead == (\E w \in Workers : SlotRefreshes(w, b)') \/ (\E p \in Procs : SweepRefreshes(p, b)')
  <1>0. AllGood /\ crashes \in Nat /\ faults \in Nat
    BY DEF IInv, AllGood, EnvGood
  <1>1. ~(\E w \in Workers : Fault(w)) /\ ~(\E p \in Procs : SweepFault(p) \/ Crash(p))
    BY <1>0 DEF Fault, SweepFault, Crash
  <1>2. crashes + faults = 0
    BY <1>1 DEF Next, SlotStep, SweepStep, Claim, Renew, Answer, CallThrows, CheckLease, Store, Count,
           Mark, Settle, FailJob, SweepSettle, SweepExpired, SweepCount, SweepMark,
           LeaseExpires, BecomesDue, Suspend, Resume, env, vars
  <1>3. ASSUME NEW j \in JobsOf(b), jobs[j].status \notin Ended PROVE Ahead
    BY <1>3, EnderIsAhead DEF JobsOf
  <1>4. CASE \A j \in JobsOf(b) : jobs[j].status \in Ended
    <2>1. batch[b] \notin Terminal
      BY <1>0, ClosedStays
    <2>2. (\E w \in Workers : SlotRefreshes(w, b)) \/ (\E p \in Procs : SweepRefreshes(p, b))
      BY <1>2, <1>4, <2>1 DEF ClosingIsAhead
    <2>3. ASSUME NEW w \in Workers, SlotRefreshes(w, b) PROVE Ahead
      <3>1. CASE slot'[w] = slot[w]
        BY <2>3, <3>1 DEF SlotRefreshes
      <3>2. CASE SlotStep(w)
        BY <1>0, <1>4, <2>3, <3>2, SlotStaysAhead
      <3>3. ASSUME NEW u \in Workers, u # w, SlotStep(u) PROVE slot'[w] = slot[w]
        BY <1>0, <3>3 DEF SlotStep, Claim, Answer, CallThrows, CheckLease, Store, Count, Mark,
             Settle, FailJob, SlotTo, Catch, Finish, AllGood, SlotsGood
      <3> QED
        BY <1>1, <3>1, <3>2, <3>3 DEF Next, SweepStep, Renew, SweepSettle, SweepExpired,
             SweepCount, SweepMark, LeaseExpires, BecomesDue, Suspend, Resume, vars
    <2>4. ASSUME NEW p \in Procs, SweepRefreshes(p, b) PROVE Ahead
      <3>1. CASE sweeper'[p] = sweeper[p]
        BY <2>4, <3>1 DEF SweepRefreshes
      <3>2. CASE SweepStep(p)
        BY <1>0, <1>4, <2>4, <3>2, SweepStaysAhead
      <3>3. ASSUME NEW q \in Procs, q # p, SweepStep(q) PROVE sweeper'[p] = sweeper[p]
        BY <1>0, <3>3 DEF SweepStep, SweepSettle, SweepExpired, SweepCount, SweepMark, SweepTo,
             AllGood, SweepsGood
      <3> QED
        BY <1>1, <3>1, <3>2, <3>3 DEF Next, SlotStep, Claim, Renew, Answer, CallThrows, CheckLease,
             Store, Count, Mark, Settle, FailJob, LeaseExpires, BecomesDue, Suspend, Resume, vars
    <2> QED
      BY <2>2, <2>3, <2>4
  <1> QED
    BY <1>3, <1>4

(* service.ts:1385, cloud-runner.ts:235: as long as no process dies and no *)
(* statement fails, a batch whose last job has ended has somebody who will *)
(* close it; only a loss between the two can leave it open.                *)
THEOREM ClosingSafe == Spec => []ClosingIsAhead
  <1>1. Init => ClosingIsAhead
    BY DEF Init, NewJob, ClosingIsAhead, JobsOf, Ended
  <1> QED
    BY <1>1, Inductive, ClosingStep, PTL DEF Spec
=============================================================================
