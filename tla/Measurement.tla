----------------------------- MODULE Measurement -----------------------------
(***************************************************************************)
(* From the stored answers of one batch to the metric snapshot that every  *)
(* report, draft and page reads.                                           *)
(*   apps/worker/src/measurement.ts       parse jobs, snapshots, review    *)
(*   apps/worker/src/semantic-runtime.ts  two slots and a coordinator      *)
(*   apps/worker/src/queue-recovery.ts    the sweep of exhausted leases    *)
(* A semantic run parses every answer once; one observation per answer is  *)
(* selected, and the run is frozen into a snapshot of these selections.    *)
(* Reparsing starts a new run, a human review reopens the current one.     *)
(* Every SQL statement outside a transaction is one step; freezing a run   *)
(* reads several statements one after the other under READ COMMITTED and   *)
(* holds only the run's row lock meanwhile, so each of them is a step too. *)
(***************************************************************************)
EXTENDS Naturals, FiniteSets

CONSTANTS Captures,        \* the samples of the batch
          Procs, Slots,    \* semantic workers; parse slots of each (2)
          None,
          MaxRuns,         \* bound: 1 + the number of reparses
          MaxReviews,      \* bound: human reviews
          MaxAttempts,     \* jobs.max_attempts, 2 in queueSemanticCaptures
          MaxFailures      \* bound: crashes and failing statements

ASSUME MeasurementAssumption ==
    /\ None \notin Captures /\ None \notin Procs /\ IsFiniteSet(Captures)
    /\ MaxRuns \in Nat \ {0} /\ MaxReviews \in Nat
    /\ MaxAttempts \in Nat \ {0}
    /\ MaxFailures \in Nat

VARIABLES
    sample,    \* "open" until its capture job ends; then "answered" or "lost"
    closed,    \* the batch is complete or partial
    runs,      \* how many semantic runs exist; the last one is the current one
    status,    \* semantic_parse_runs.status of each run
    job,       \* the semantic_parse job of each run and capture
    selected,  \* semantic_selections: the observation in force, 0 for none
    made,      \* how many observations were selected, ever: names the next one
    snapshot,  \* the snapshot current_metric_id points to
    slot,      \* where each slot is in runOneSemanticJob
    coord,     \* where each process is in coordinate()
    reviews, failures

vars == <<sample, closed, runs, status, job, selected, made, snapshot, slot, coord,
          reviews, failures>>
results == <<runs, status, selected, made, snapshot>>
batchVars == <<sample, closed>>
bounds == <<reviews, failures>>

Runs == 1..MaxRuns
Workers == Procs \X Slots
OwnerOf(w) == w[1]

Active == {"queued", "running"}
Ended == {"ready", "partial", "failed"}
Answered == {c \in Captures : sample[c] = "answered"}

NoJob == [status |-> "absent", owner |-> None, live |-> FALSE, attempts |-> 0]
NewJob == [NoJob EXCEPT !.status = "pending"]
IdleSlot == [pc |-> "idle", run |-> 1, capture |-> None, found |-> FALSE]
NoSnapshot == [c \in Captures |-> None]
IdleCoord == [pc |-> "idle", todo |-> {}, run |-> None, read |-> NoSnapshot]

Expired(r, c) == job[r][c].status = "leased" /\ ~job[r][c].live
JobOpen(r, c) == job[r][c].status \in {"pending", "leased"}

(* createBatch inserts the first run together with the batch. *)
Init == /\ sample = [c \in Captures |-> "open"]
        /\ closed = FALSE
        /\ runs = 1
        /\ status = [r \in Runs |-> IF r = 1 THEN "queued" ELSE "absent"]
        /\ job = [r \in Runs |-> [c \in Captures |-> NoJob]]
        /\ selected = [r \in Runs |-> [c \in Captures |-> 0]]
        /\ made = 0
        /\ snapshot = [r \in Runs |-> NoSnapshot]
        /\ slot = [w \in Workers |-> IdleSlot]
        /\ coord = [p \in Procs |-> IdleCoord]
        /\ reviews = 0 /\ failures = 0

SlotTo(w, s) == slot' = [slot EXCEPT ![w] = s]
CoordTo(p, s) == coord' = [coord EXCEPT ![p] = s]
JobTo(r, c, row) == job' = [job EXCEPT ![r] = [job[r] EXCEPT ![c] = row]]
StatusTo(r, s) == status' = [status EXCEPT ![r] = s]
Select(r, c, o) == selected' = [selected EXCEPT ![r] = [selected[r] EXCEPT ![c] = o]]

-----------------------------------------------------------------------------
(* What the capture queue promises (CaptureQueue): every sample is answered*)
(* or lost once, and the batch closes after the last of them.              *)

SampleEnds(c) ==
    /\ sample[c] = "open"
    /\ \E s \in {"answered", "lost"} : sample' = [sample EXCEPT ![c] = s]
    /\ UNCHANGED <<closed, results, job, slot, coord, bounds>>

BatchCloses ==
    /\ ~closed /\ \A c \in Captures : sample[c] # "open"
    /\ closed' = TRUE
    /\ UNCHANGED <<sample, results, job, slot, coord, bounds>>

-----------------------------------------------------------------------------
(* A slot parses one answer. *)

(* Mutant of Claimable: the retry budget is not looked at. *)
ClaimableBeyondBudget(r, c) == job[r][c].status = "pending" \/ Expired(r, c)

Claimable(r, c) == /\ job[r][c].attempts < MaxAttempts
                   /\ job[r][c].status = "pending" \/ Expired(r, c)

Claim(w) ==
    /\ slot[w].pc = "idle"
    /\ \E r \in 1..runs, c \in Captures :
        /\ Claimable(r, c)
        /\ JobTo(r, c, [status |-> "leased", owner |-> OwnerOf(w), live |-> TRUE,
                        attempts |-> job[r][c].attempts + 1])
        /\ SlotTo(w, [IdleSlot EXCEPT !.pc = "starting", !.run = r, !.capture = c])
    /\ UNCHANGED <<batchVars, results, coord, bounds>>

(* The first parse of a run marks it running; the guard keeps a run that   *)
(* has ended as it is.  What is read before may throw.                     *)
Start(w) ==
    /\ slot[w].pc = "starting"
    /\ \/ /\ status' = IF status[slot[w].run] # "queued" THEN status
                       ELSE [status EXCEPT ![slot[w].run] = "running"]
          /\ SlotTo(w, [slot[w] EXCEPT !.pc = "parsing"])
       \/ SlotTo(w, [slot[w] EXCEPT !.pc = "failing"]) /\ UNCHANGED status
    /\ UNCHANGED <<batchVars, runs, selected, made, snapshot, job, coord, bounds>>

(* One or two passes of the model: an observation is adopted, or none is   *)
(* (the passes disagree: the answer waits for a human), or something throws*)
(* (no key, HTTP error, lost lease, suspended organization).               *)
Parse(w) ==
    /\ slot[w].pc = "parsing"
    /\ \/ \E found \in BOOLEAN : SlotTo(w, [slot[w] EXCEPT !.pc = "committing", !.found = found])
       \/ SlotTo(w, [slot[w] EXCEPT !.pc = "failing"])
    /\ UNCHANGED <<batchVars, results, job, coord, bounds>>

Holds(w) == LET j == job[slot[w].run][slot[w].capture] IN
    j.owner = OwnerOf(w) /\ j.status = "leased" /\ j.live

(* Mutant of Adopt: ON CONFLICT DO UPDATE, as in the review. *)
AdoptOver(w) ==
    LET r == slot[w].run  c == slot[w].capture IN
    IF slot[w].found THEN Select(r, c, made + 1) /\ made' = made + 1 ELSE UNCHANGED <<selected, made>>

(* INSERT ... ON CONFLICT DO NOTHING. *)
Adopt(w) ==
    LET r == slot[w].run  c == slot[w].capture IN
    IF slot[w].found /\ selected[r][c] = 0
    THEN Select(r, c, made + 1) /\ made' = made + 1 ELSE UNCHANGED <<selected, made>>

Commit(w) ==
    /\ slot[w].pc = "committing"
    /\ IF Holds(w)
       THEN /\ JobTo(slot[w].run, slot[w].capture,
                     [job[slot[w].run][slot[w].capture] EXCEPT !.status = "complete", !.owner = None, !.live = FALSE])
            /\ Adopt(w)
            /\ SlotTo(w, IdleSlot)
       ELSE /\ SlotTo(w, [slot[w] EXCEPT !.pc = "failing"])
            /\ UNCHANGED <<job, selected, made>>
    /\ UNCHANGED <<batchVars, runs, status, snapshot, coord, bounds>>

(* The catch block, guarded by the owner only. *)
Fail(w) ==
    /\ slot[w].pc = "failing"
    /\ LET j == job[slot[w].run][slot[w].capture] IN
        IF j.owner # OwnerOf(w) THEN UNCHANGED job
        ELSE JobTo(slot[w].run, slot[w].capture,
                   [j EXCEPT !.status = IF j.attempts >= MaxAttempts THEN "failed" ELSE "pending",
                             !.owner = None, !.live = FALSE])
    /\ SlotTo(w, IdleSlot)
    /\ UNCHANGED <<batchVars, results, coord, bounds>>

(* The statement of the catch block fails as well: the lease stays. *)
FailFault(w) ==
    /\ slot[w].pc = "failing" /\ failures < MaxFailures
    /\ failures' = failures + 1
    /\ SlotTo(w, IdleSlot)
    /\ UNCHANGED <<batchVars, results, job, coord, reviews>>

Renew(w) ==
    /\ slot[w].pc # "idle"
    /\ LET j == job[slot[w].run][slot[w].capture] IN
        /\ j.owner = OwnerOf(w) /\ j.status = "leased"
        /\ JobTo(slot[w].run, slot[w].capture, [j EXCEPT !.live = TRUE])
    /\ UNCHANGED <<batchVars, results, slot, coord, bounds>>

-----------------------------------------------------------------------------
(* The coordinator: sweep, queue the answers, freeze the finished runs.    *)

(* Mutant of Exhausted: off by one against the claim. *)
ExhaustedBeyond(r, c) == Expired(r, c) /\ job[r][c].attempts > MaxAttempts

Exhausted(r, c) == Expired(r, c) /\ job[r][c].attempts >= MaxAttempts

Sweep(p) ==
    /\ coord[p].pc = "idle"
    /\ job' = [r \in Runs |-> [c \in Captures |->
            IF Exhausted(r, c) THEN [job[r][c] EXCEPT !.status = "failed", !.owner = None, !.live = FALSE]
            ELSE job[r][c]]]
    /\ CoordTo(p, [IdleCoord EXCEPT !.pc = "queueing"])
    /\ UNCHANGED <<batchVars, results, slot, bounds>>

(* One INSERT ... SELECT for the current run while it is active; the job's *)
(* primary key makes it idempotent.                                        *)
Queue(p) ==
    /\ coord[p].pc = "queueing"
    /\ job' = [r \in Runs |-> [c \in Captures |->
            IF r = runs /\ status[r] \in Active /\ sample[c] = "answered" /\ job[r][c].status = "absent"
            THEN NewJob ELSE job[r][c]]]
    /\ CoordTo(p, [IdleCoord EXCEPT !.pc = "listing"])
    /\ UNCHANGED <<batchVars, results, slot, bounds>>

List(p) ==
    /\ coord[p].pc = "listing"
    /\ CoordTo(p, [IdleCoord EXCEPT !.pc = "freezing",
                       !.todo = {r \in 1..runs : closed /\ status[r] \in Active}])
    /\ UNCHANGED <<batchVars, results, job, slot, bounds>>

Locked(r) == \E p \in Procs : coord[p].run = r
NextRun(p) == CoordTo(p, [IdleCoord EXCEPT !.pc = "freezing", !.todo = coord[p].todo])

(* The run's row is locked and read again. *)
Lock(p) ==
    /\ coord[p].pc = "freezing"
    /\ \E r \in coord[p].todo :
        /\ ~Locked(r)
        /\ CoordTo(p, [coord[p] EXCEPT
                       !.pc = IF status[r] \in Active THEN "counting" ELSE "freezing",
                       !.todo = coord[p].todo \ {r},
                       !.run = IF status[r] \in Active THEN r ELSE None])
    /\ UNCHANGED <<batchVars, results, job, slot, bounds>>

FreezeDone(p) ==
    /\ coord[p].pc = "freezing" /\ coord[p].todo = {}
    /\ CoordTo(p, IdleCoord)
    /\ UNCHANGED <<batchVars, results, job, slot, bounds>>

NothingOpen(r) == \A c \in Captures : ~JobOpen(r, c)

CountOpen(p) ==
    /\ coord[p].pc = "counting"
    /\ IF NothingOpen(coord[p].run) THEN CoordTo(p, [coord[p] EXCEPT !.pc = "checking"]) ELSE NextRun(p)
    /\ UNCHANGED <<batchVars, results, job, slot, bounds>>

(* Mutant of NothingMissing: answers without a job are not looked for. *)
NothingLookedFor(r) == TRUE

NothingMissing(r) == \A c \in Answered : job[r][c].status # "absent"

CheckMissing(p) ==
    /\ coord[p].pc = "checking"
    /\ IF NothingMissing(coord[p].run) THEN CoordTo(p, [coord[p] EXCEPT !.pc = "reading"]) ELSE NextRun(p)
    /\ UNCHANGED <<batchVars, results, job, slot, bounds>>

ReadSelections(p) ==
    /\ coord[p].pc = "reading"
    /\ CoordTo(p, [coord[p] EXCEPT !.pc = "writing", !.read = selected[coord[p].run]])
    /\ UNCHANGED <<batchVars, results, job, slot, bounds>>

(* The snapshot of what was read is appended and becomes current.  How good*)
(* the coverage has to be for "ready" is left to the metrics.              *)
Freeze(p) ==
    /\ coord[p].pc = "writing"
    /\ LET r == coord[p].run  read == coord[p].read IN
        /\ snapshot' = [snapshot EXCEPT ![r] = read]
        /\ \E s \in IF \A c \in Captures : read[c] = 0 THEN {"failed"} ELSE Ended : StatusTo(r, s)
    /\ NextRun(p)
    /\ UNCHANGED <<batchVars, runs, selected, made, job, slot, bounds>>

(* A statement of the transaction fails: it is rolled back, the lock is    *)
(* released, and the run is marked failed by one guarded statement.        *)
FreezeFault(p) ==
    /\ failures < MaxFailures
    /\ coord[p].pc \in {"counting", "checking", "reading", "writing"}
    /\ failures' = failures + 1
    /\ CoordTo(p, [coord[p] EXCEPT !.pc = "giving up", !.read = NoSnapshot])
    /\ UNCHANGED <<batchVars, results, job, slot, reviews>>

GiveUp(p) ==
    /\ coord[p].pc = "giving up"
    /\ LET r == coord[p].run IN IF status[r] \in Active THEN StatusTo(r, "failed") ELSE UNCHANGED status
    /\ NextRun(p)
    /\ UNCHANGED <<batchVars, runs, selected, made, snapshot, job, slot, bounds>>

(* Any other statement fails: the tick ends and the next one starts over.  *)
TickFault(p) ==
    /\ failures < MaxFailures
    /\ coord[p].pc \in {"queueing", "listing", "giving up"}
    /\ failures' = failures + 1
    /\ CoordTo(p, IdleCoord)
    /\ UNCHANGED <<batchVars, results, job, slot, reviews>>

-----------------------------------------------------------------------------
(* Members: both operations lock the batch and look at the current run.    *)

Reparse ==
    /\ closed /\ runs < MaxRuns
    /\ status[runs] \in Ended
    /\ runs' = runs + 1
    /\ StatusTo(runs + 1, "queued")
    /\ UNCHANGED <<batchVars, selected, made, snapshot, job, slot, coord, bounds>>

(* A validated human observation replaces the one in force, and the run is *)
(* frozen again.                                                           *)
Review(c) ==
    /\ reviews < MaxReviews
    /\ sample[c] = "answered" /\ status[runs] \in Ended
    /\ ~Locked(runs)
    /\ Select(runs, c, made + 1) /\ made' = made + 1
    /\ snapshot' = [snapshot EXCEPT ![runs] = NoSnapshot]
    /\ StatusTo(runs, "queued")
    /\ reviews' = reviews + 1
    /\ UNCHANGED <<batchVars, runs, job, slot, coord, failures>>

-----------------------------------------------------------------------------
(* The environment. *)

LeaseExpires(r, c) ==
    /\ job[r][c].live
    /\ JobTo(r, c, [job[r][c] EXCEPT !.live = FALSE])
    /\ UNCHANGED <<batchVars, results, slot, coord, bounds>>

Crash(p) ==
    /\ failures < MaxFailures
    /\ failures' = failures + 1
    /\ slot' = [w \in Workers |-> IF OwnerOf(w) = p THEN IdleSlot ELSE slot[w]]
    /\ CoordTo(p, IdleCoord)
    /\ UNCHANGED <<batchVars, results, job, reviews>>

-----------------------------------------------------------------------------
SlotStep(w) == Claim(w) \/ Start(w) \/ Parse(w) \/ Commit(w) \/ Fail(w)
CoordStep(p) == \/ Sweep(p) \/ Queue(p) \/ List(p) \/ Lock(p) \/ FreezeDone(p)
                \/ CountOpen(p) \/ CheckMissing(p) \/ ReadSelections(p) \/ Freeze(p) \/ GiveUp(p)

Next == \/ \E c \in Captures : SampleEnds(c) \/ Review(c)
        \/ BatchCloses \/ Reparse
        \/ \E w \in Workers : SlotStep(w) \/ FailFault(w) \/ Renew(w)
        \/ \E p \in Procs : CoordStep(p) \/ FreezeFault(p) \/ TickFault(p) \/ Crash(p)
        \/ \E r \in Runs, c \in Captures : LeaseExpires(r, c)

Spec == Init /\ [][Next]_vars

(* The capture queue ends every sample and closes the batch, the timers of *)
(* the semantic worker go on, a model call ends (120 s timeout), and leases*)
(* nobody renews run out.  Nothing is assumed of members.                  *)
Held(r, c) == \E w \in Workers : /\ slot[w].pc # "idle" /\ slot[w].run = r /\ slot[w].capture = c
                                 /\ OwnerOf(w) = job[r][c].owner
Fairness == /\ \A c \in Captures : WF_vars(SampleEnds(c))
            /\ WF_vars(BatchCloses)
            /\ \A w \in Workers : WF_vars(SlotStep(w))
            /\ \A p \in Procs : WF_vars(CoordStep(p))
            /\ \A r \in Runs, c \in Captures : WF_vars(~Held(r, c) /\ LeaseExpires(r, c))

FairSpec == Spec /\ Fairness

-----------------------------------------------------------------------------
(* Properties. *)

Observations == 0..(MaxReviews + MaxRuns * Cardinality(Captures))

(* Types; each answer is parsed at most max_attempts times per run. *)
TypeOK ==
    /\ sample \in [Captures -> {"open", "answered", "lost"}]
    /\ closed \in BOOLEAN
    /\ runs \in Runs
    /\ status \in [Runs -> {"absent"} \cup Active \cup Ended]
    /\ job \in [Runs -> [Captures -> [status : {"absent", "pending", "leased", "complete", "failed"},
                    owner : Procs \cup {None}, live : BOOLEAN, attempts : 0..MaxAttempts]]]
    /\ selected \in [Runs -> [Captures -> Observations]]
    /\ made \in Observations
    /\ snapshot \in [Runs -> [Captures -> Observations \cup {None}]]
    /\ slot \in [Workers -> [pc : {"idle", "starting", "parsing", "committing", "failing"}, run : Runs,
                             capture : Captures \cup {None}, found : BOOLEAN]]
    /\ coord \in [Procs -> [pc : {"idle", "queueing", "listing", "freezing", "counting", "checking",
                                  "reading", "writing", "giving up"},
                            todo : SUBSET Runs, run : Runs \cup {None},
                            read : [Captures -> Observations \cup {None}]]]
    /\ reviews \in 0..MaxReviews /\ failures \in 0..MaxFailures

(* visibility-measurement-v2.md: the snapshot a run points to is computed  *)
(* from the selections in force, and of every answer of the batch.  No     *)
(* parse that is still under way, late or retried, and no review may change*)
(* a selection behind a current snapshot, and neither the capture that     *)
(* arrived last nor the jobs of a crashed worker are left out of it.       *)
SnapshotIsCurrent == \A r \in Runs : snapshot[r] # NoSnapshot =>
    /\ snapshot[r] = selected[r]
    /\ \A c \in Answered : job[r][c].status \in {"complete", "failed"}

(* A parse never takes the place of an observation in force: a human       *)
(* review stands, also when jobs of its run are still open because the run *)
(* was given up while they were parsed.                                    *)
ReviewStands == [][\A r \in Runs, c \in Captures :
    selected[r][c] # 0 /\ selected'[r][c] # selected[r][c] => reviews' # reviews]_vars

(* The analysis of a batch ends, again after each review and reparse,      *)
(* whatever crashes, expired leases and failing statements happen, once    *)
(* the batch is closed.  That it closes is assumed of the capture queue    *)
(* (WF of BatchCloses): a batch whose last refresh was lost stays open     *)
(* (service.ts:1385, CaptureQueue!Stranded), and its analysis with it.     *)
MeasurementEnds == <>[](\A r \in 1..runs : status[r] \in Ended)
=============================================================================
