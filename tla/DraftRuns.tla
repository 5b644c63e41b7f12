------------------------------ MODULE DraftRuns ------------------------------
(***************************************************************************)
(* A draft of the HRouter agent: the agent_runs row and its agent_draft    *)
(* job, from the queue to a decision.                                      *)
(*   apps/worker/src/agent.ts          executeAgentDraft, approve, reject  *)
(*   apps/worker/src/agent-jobs.ts     the slots of an agent worker        *)
(*   apps/worker/src/workbench.ts      the coordinator's automatic approval*)
(*   apps/worker/src/queue-recovery.ts the sweep of exhausted leases       *)
(* A run may be written by a slot that executes it, a slot that lost its   *)
(* lease, two coordinators, a sweep and the members of the organization.   *)
(* Every SQL statement and every transaction is one step.                  *)
(***************************************************************************)
EXTENDS Naturals, Sequences, FiniteSets

CONSTANTS Runs, Sessions, Members,
          Procs, Slots,          \* agent workers; slots of each (AGENT_JOB_CONCURRENCY)
          None,
          SessionOf,             \* Runs -> Sessions or None
          Kinds,                 \* the purposes a run may have
          MaxAttempts,           \* jobs.max_attempts, 2 in enqueueAgentDraft
          MaxUpsets              \* crashes, failing statements and stalls together

Purposes == {"article", "report", "other"}

ASSUME DraftAssumption ==
    /\ None \notin Sessions /\ None \notin Runs /\ None \notin Procs
    /\ SessionOf \in [Runs -> Sessions \cup {None}]
    /\ Kinds \subseteq Purposes
    /\ MaxAttempts \in Nat \ {0}
    /\ MaxUpsets \in Nat

VARIABLES
    run,       \* agent_runs: status, the stored draft, and the approvals that took effect
    job,       \* the agent_draft job of each run
    session,   \* agent_sessions: auto_approve, and whether it failed or was cancelled
    slot,      \* where each slot is in runOneAgentJob and executeAgentDraft
    sweep,     \* runs whose jobs a process has failed in sweepTerminalLeases, still to do
    coord,     \* where each process is in resumeWaitingSessions
    member,    \* where each member is in approveAgentRun
    up,        \* the processes that run
    aged,      \* runs known to be more than 15 minutes old: a lease of theirs ran out
    cut,       \* history: runs that nothing ends any more, as their last statement was lost
    upsets     \* crashes, failing statements and stalls so far

vars == <<run, job, session, slot, sweep, coord, member, up, aged, cut, upsets>>
rows == <<run, job, session>>
bounds == <<aged, cut, upsets>>

Workers == Procs \X Slots
OwnerOf(w) == w[1]

NoDraft == 0                       \* draft = NULL; a draft is named after its attempt
IdleSlot == [pc |-> "idle", run |-> None, attempt |-> 0, denied |-> FALSE]
IdleCoord == [pc |-> "idle", todo |-> {}, run |-> None, draft |-> NoDraft]
IdleMember == [run |-> None, draft |-> NoDraft]

Expired(r) == job[r].status = "leased" /\ ~job[r].live
JobOpen(r) == job[r].status \in {"pending", "leased"}
Undecided == {"queued", "running", "awaiting_approval"}
Unfinished == {"queued", "running"}
Cancelled(r) == SessionOf[r] # None /\ session[SessionOf[r]].state = "cancelled"

(* The run and its job are inserted in one transaction. *)
Init ==
    /\ \E purpose \in [Runs -> Kinds] :
        run = [r \in Runs |-> [status |-> "queued", purpose |-> purpose[r], draft |-> NoDraft, applied |-> <<>>]]
    /\ job = [r \in Runs |-> [status |-> "pending", owner |-> None, live |-> FALSE,
                              attempts |-> 0, due |-> TRUE]]
    /\ session \in [Sessions -> [auto : BOOLEAN, state : {"live"}]]
    /\ slot = [w \in Workers |-> IdleSlot]
    /\ sweep = [p \in Procs |-> {}]
    /\ coord = [p \in Procs |-> IdleCoord]
    /\ member = [m \in Members |-> IdleMember]
    /\ up = Procs /\ aged = {} /\ cut = {}
    /\ upsets = 0

SlotTo(w, s) == slot' = [slot EXCEPT ![w] = s]
SlotAt(w, pc) == SlotTo(w, [slot[w] EXCEPT !.pc = pc])
WriteRun(r, status) == run' = [run EXCEPT ![r] = [run[r] EXCEPT !.status = status]]

-----------------------------------------------------------------------------
(* A slot executes a draft. *)

Claimable(r) == /\ job[r].attempts < MaxAttempts
                /\ job[r].due
                /\ job[r].status = "pending" \/ Expired(r)

Claim(w) ==
    /\ OwnerOf(w) \in up
    /\ slot[w].pc = "idle"
    /\ \E r \in Runs :
        /\ Claimable(r)
        /\ job' = [job EXCEPT ![r] = [job[r] EXCEPT !.status = "leased", !.owner = OwnerOf(w),
                                       !.live = TRUE, !.attempts = job[r].attempts + 1]]
        /\ SlotTo(w, [pc |-> "starting", run |-> r, attempt |-> job[r].attempts + 1, denied |-> FALSE])
    /\ UNCHANGED <<run, session, sweep, coord, member, up, bounds>>

Renew(w) ==
    /\ slot[w].pc # "idle"
    /\ LET r == slot[w].run IN
        /\ job[r].owner = OwnerOf(w) /\ job[r].status = "leased"
        /\ job' = [job EXCEPT ![r] = [job[r] EXCEPT !.live = TRUE]]
    /\ UNCHANGED <<run, session, slot, sweep, coord, member, up, bounds>>

(* Authorization (a cancelled session denies it) and configuration; only   *)
(* then is the run touched.  A denial is not retried.                      *)
Begin(w) ==
    /\ slot[w].pc = "starting"
    /\ \/ ~Cancelled(slot[w].run) /\ SlotAt(w, "launching")
       \/ \E denied \in BOOLEAN : SlotTo(w, [slot[w] EXCEPT !.pc = "returning", !.denied = denied])
    /\ UNCHANGED <<rows, sweep, coord, member, up, bounds>>

(* Unguarded: whatever the run was, it is running and its draft is gone. *)
Launch(w) ==
    /\ slot[w].pc = "launching"
    /\ LET r == slot[w].run IN
        run' = [run EXCEPT ![r] = [run[r] EXCEPT !.status = "running", !.draft = NoDraft]]
    /\ SlotAt(w, "working")
    /\ UNCHANGED <<job, session, sweep, coord, member, up, bounds>>

(* The model submits a draft and the second authorization passes, or       *)
(* something throws.                                                       *)
Work(w) ==
    /\ slot[w].pc = "working"
    /\ \/ ~Cancelled(slot[w].run) /\ SlotAt(w, "submitting")
       \/ \E denied \in BOOLEAN : SlotTo(w, [slot[w] EXCEPT !.pc = "recording", !.denied = denied])
    /\ UNCHANGED <<rows, sweep, coord, member, up, bounds>>

(* Unguarded as well. *)
Submit(w) ==
    /\ slot[w].pc = "submitting"
    /\ LET r == slot[w].run IN
        run' = [run EXCEPT ![r] = [run[r] EXCEPT !.status = "awaiting_approval",
                                                 !.draft = slot[w].attempt]]
    /\ SlotAt(w, "charging")
    /\ UNCHANGED <<job, session, sweep, coord, member, up, bounds>>

(* INSERT INTO project_costs. *)
Charge(w) ==
    /\ slot[w].pc = "charging"
    /\ SlotAt(w, "completing")
    /\ UNCHANGED <<rows, sweep, coord, member, up, bounds>>

(* A neighbour set the run running again and did not record that it failed.*)
Abandoned(w) == LET r == slot[w].run IN
    /\ run[r].status \in Unfinished
    /\ \A v \in Workers \ {w} : slot[v].run = r => slot[v].pc \in {"charging", "completing", "returning"}

(* The slot may end the lease of its neighbour. *)
Complete(w) ==
    /\ slot[w].pc = "completing"
    /\ LET r == slot[w].run IN
        IF job[r].owner # OwnerOf(w) THEN UNCHANGED <<job, cut>>
        ELSE /\ job' = [job EXCEPT ![r] =
                    [job[r] EXCEPT !.status = "complete", !.owner = None, !.live = FALSE]]
             /\ cut' = IF Abandoned(w) THEN cut \cup {r} ELSE cut
    /\ SlotTo(w, IdleSlot)
    /\ UNCHANGED <<run, session, sweep, coord, member, up, aged, upsets>>

(* The catch block of executeAgentDraft. *)
Record(w) ==
    /\ slot[w].pc = "recording"
    /\ WriteRun(slot[w].run, "failed")
    /\ SlotAt(w, "returning")
    /\ UNCHANGED <<job, session, sweep, coord, member, up, bounds>>

(* The catch block of runOneAgentJob: one transaction, guarded by the owner,*)
(* whose name is that of the process: a slot that lost its lease to its    *)
(* neighbour returns the neighbour's attempt, at worst the last one.       *)
Retrying(w) == ~slot[w].denied /\ slot[w].attempt < MaxAttempts

(* Mutant of GiveBack: the run of a job that is retried stays "failed",    *)
(* and the run of a job that is not stays as it was.                       *)
GiveBackJobOnly(w) ==
    /\ slot[w].pc = "returning"
    /\ LET r == slot[w].run IN
        job' = IF job[r].owner # OwnerOf(w) THEN job
               ELSE [job EXCEPT ![r] = [job[r] EXCEPT
                    !.status = IF Retrying(w) THEN "pending" ELSE "failed",
                    !.owner = None, !.live = FALSE, !.due = FALSE]]
    /\ SlotTo(w, IdleSlot)
    /\ UNCHANGED <<run, session, sweep, coord, member, up, bounds>>

GiveBack(w) ==
    /\ slot[w].pc = "returning"
    /\ LET r == slot[w].run IN
        IF job[r].owner # OwnerOf(w) THEN UNCHANGED <<run, job, cut>>
        ELSE /\ job' = [job EXCEPT ![r] = [job[r] EXCEPT
                    !.status = IF Retrying(w) THEN "pending" ELSE "failed",
                    !.owner = None, !.live = FALSE, !.due = FALSE]]
             /\ WriteRun(r, IF Retrying(w) THEN "queued" ELSE "failed")
             /\ cut' = IF Retrying(w) /\ job[r].attempts >= MaxAttempts THEN cut \cup {r} ELSE cut
    /\ SlotTo(w, IdleSlot)
    /\ UNCHANGED <<session, sweep, coord, member, up, aged, upsets>>

(* A statement of the slot fails: inside executeAgentDraft its catch block *)
(* runs, later the catch block of runOneAgentJob, and an error there leaves*)
(* the job to its lease.                                                   *)
Fault(w) ==
    /\ upsets < MaxUpsets
    /\ upsets' = upsets + 1
    /\ \/ slot[w].pc = "launching" /\ SlotAt(w, "returning")
       \/ slot[w].pc \in {"submitting", "charging"} /\ SlotAt(w, "recording")
       \/ slot[w].pc \in {"completing", "recording"} /\ SlotAt(w, "returning")
       \/ slot[w].pc = "returning" /\ SlotTo(w, IdleSlot)
    /\ cut' = IF slot[w].pc = "recording" /\ job[slot[w].run].owner # OwnerOf(w)
              THEN cut \cup {slot[w].run} ELSE cut
    /\ UNCHANGED <<rows, sweep, coord, member, up, aged>>

-----------------------------------------------------------------------------
(* approveAgentRun: read the row outside the transaction; inside it, check *)
(* the session, claim the row by its status, and materialize the draft that*)
(* was read.                                                               *)

(* Mutant of Approve: the row is not claimed by its status. *)
ApproveUnclaimed(r, draft, via) ==
    /\ run[r].status \in Undecided \cup {"approved"}
    /\ run' = [run EXCEPT ![r] = [run[r] EXCEPT !.status = "approved",
            !.applied = Append(run[r].applied, [draft |-> draft, via |-> via])]]

Approve(r, draft, via) ==
    /\ run[r].status = "awaiting_approval"
    /\ run' = [run EXCEPT ![r] = [run[r] EXCEPT !.status = "approved",
            !.applied = Append(run[r].applied, [draft |-> draft, via |-> via])]]

MemberReads(m) ==
    /\ member[m].run = None
    /\ \E r \in Runs :
        /\ run[r].status = "awaiting_approval"
        /\ member' = [member EXCEPT ![m] = [run |-> r, draft |-> run[r].draft]]
    /\ UNCHANGED <<rows, slot, sweep, coord, up, bounds>>

(* Refused: 409 when the row was taken meanwhile, or an authorization,     *)
(* evidence or metric-snapshot check that does not hold (any more).        *)
MemberApproves(m) ==
    /\ member[m].run # None
    /\ member' = [member EXCEPT ![m] = IdleMember]
    /\ \/ Approve(member[m].run, member[m].draft, "manual")
       \/ UNCHANGED run
    /\ UNCHANGED <<job, session, slot, sweep, coord, up, bounds>>

Reject(r) == run[r].status = "awaiting_approval" /\ WriteRun(r, "rejected")

MemberRejects(m) ==
    /\ member[m].run = None
    /\ \E r \in Runs : Reject(r)
    /\ UNCHANGED <<job, session, slot, sweep, coord, member, up, bounds>>

-----------------------------------------------------------------------------
(* The coordinator: automatic approval of the drafts of sessions in        *)
(* automatic mode, then of every article draft.                            *)

CoordTo(p, c) == coord' = [coord EXCEPT ![p] = c]
CoordAt(p, pc) == CoordTo(p, [coord[p] EXCEPT !.pc = pc, !.run = None, !.draft = NoDraft])

ListWorkbench(p) ==
    /\ p \in up
    /\ coord[p].pc = "idle"
    /\ CoordTo(p, [IdleCoord EXCEPT !.pc = "workbench", !.todo = {r \in Runs :
            /\ run[r].status = "awaiting_approval" /\ run[r].purpose # "report"
            /\ SessionOf[r] # None
            /\ session[SessionOf[r]].auto /\ session[SessionOf[r]].state = "live"}])
    /\ UNCHANGED <<rows, slot, sweep, member, up, bounds>>

ListArticles(p) ==
    /\ coord[p].pc = "workbench" /\ coord[p].todo = {}
    /\ CoordTo(p, [IdleCoord EXCEPT !.pc = "articles", !.todo = {r \in Runs :
            run[r].status = "awaiting_approval" /\ run[r].purpose = "article"}])
    /\ UNCHANGED <<rows, slot, sweep, member, up, bounds>>

CoordDone(p) ==
    /\ coord[p].pc = "articles" /\ coord[p].todo = {}
    /\ CoordTo(p, IdleCoord)
    /\ UNCHANGED <<rows, slot, sweep, member, up, bounds>>

(* The row is gone from awaiting_approval: 404, an error like any other.   *)
AutoReads(p) ==
    /\ coord[p].pc \in {"workbench", "articles"}
    /\ \E r \in coord[p].todo :
        CoordTo(p, [coord[p] EXCEPT
            !.todo = coord[p].todo \ {r}, !.run = r, !.draft = run[r].draft,
            !.pc = IF run[r].status = "awaiting_approval"
                   THEN (IF coord[p].pc = "workbench" THEN "approving" ELSE "publishing")
                   ELSE (IF coord[p].pc = "workbench" THEN "rejecting" ELSE "failing")])
    /\ UNCHANGED <<rows, slot, sweep, member, up, bounds>>

(* Mutant of AutoAllowed: the session is not looked at again. *)
AutoAllowedBefore(p) == TRUE

AutoAllowed(p) ==
    LET s == SessionOf[coord[p].run] IN
    /\ coord[p].pc = "approving" => session[s].auto
    /\ s # None => session[s].state # "cancelled"

(* Only the refusal "taken by someone else" of the workbench path is told  *)
(* apart from the other errors.                                            *)
AutoApproves(p) ==
    /\ coord[p].pc \in {"approving", "publishing"}
    /\ LET r == coord[p].run
           list == IF coord[p].pc = "approving" THEN "workbench" ELSE "articles"
           onError == IF coord[p].pc = "approving" THEN "rejecting" ELSE "failing"
           via == IF coord[p].pc = "approving" THEN "workbench" ELSE "auto_article"
       IN  \/ AutoAllowed(p) /\ Approve(r, coord[p].draft, via) /\ CoordAt(p, list)
           \/ /\ AutoAllowed(p) /\ run[r].status # "awaiting_approval"
              /\ UNCHANGED run
              /\ IF list = "workbench" THEN CoordAt(p, list)
                 ELSE CoordTo(p, [coord[p] EXCEPT !.pc = onError])
           \/ UNCHANGED run /\ CoordTo(p, [coord[p] EXCEPT !.pc = onError])
    /\ UNCHANGED <<job, session, slot, sweep, member, up, bounds>>

AutoRejects(p) ==
    /\ coord[p].pc = "rejecting"
    /\ Reject(coord[p].run) \/ (run[coord[p].run].status # "awaiting_approval" /\ UNCHANGED run)
    /\ CoordAt(p, "workbench")
    /\ UNCHANGED <<job, session, slot, sweep, member, up, bounds>>

(* Unguarded: the status at this time is not looked at. *)
ArticleFails(p) ==
    /\ coord[p].pc = "failing"
    /\ WriteRun(coord[p].run, "failed")
    /\ CoordAt(p, "articles")
    /\ UNCHANGED <<job, session, slot, sweep, member, up, bounds>>

(* Mutant of CoordFault: the coordinator stays marked as busy. *)
CoordFaultBusy(p) ==
    /\ upsets < MaxUpsets
    /\ coord[p].pc # "idle"
    /\ upsets' = upsets + 1
    /\ CoordTo(p, [IdleCoord EXCEPT !.pc = "busy"])
    /\ UNCHANGED <<rows, slot, sweep, member, up, aged, cut>>

(* A failing statement ends the round of this coordinator. *)
CoordFault(p) ==
    /\ upsets < MaxUpsets
    /\ coord[p].pc # "idle"
    /\ upsets' = upsets + 1
    /\ CoordTo(p, IdleCoord)
    /\ UNCHANGED <<rows, slot, sweep, member, up, aged, cut>>

-----------------------------------------------------------------------------
(* Recovery. *)

Exhausted == {r \in Runs : Expired(r) /\ job[r].attempts >= MaxAttempts}

SweepJobs(p) ==
    /\ p \in up
    /\ sweep[p] = {}
    /\ Exhausted # {}
    /\ job' = [r \in Runs |-> IF r \in Exhausted
            THEN [job[r] EXCEPT !.status = "failed", !.owner = None, !.live = FALSE] ELSE job[r]]
    /\ sweep' = [sweep EXCEPT ![p] = Exhausted]
    /\ UNCHANGED <<run, session, slot, coord, member, up, bounds>>

(* Mutant of SweepRun: a run that waits for its approval is failed too. *)
SweepRunAny(p) ==
    /\ \E r \in sweep[p] :
        /\ IF run[r].status \in Undecided \cup {"approved"} THEN WriteRun(r, "failed") ELSE UNCHANGED run
        /\ sweep' = [sweep EXCEPT ![p] = sweep[p] \ {r}]
    /\ UNCHANGED <<job, session, slot, coord, member, up, bounds>>

(* Mutant of SweepRun: only a run that was not begun is failed. *)
SweepRunQueued(p) ==
    /\ \E r \in sweep[p] :
        /\ IF run[r].status = "queued" THEN WriteRun(r, "failed") ELSE UNCHANGED run
        /\ sweep' = [sweep EXCEPT ![p] = sweep[p] \ {r}]
    /\ UNCHANGED <<job, session, slot, coord, member, up, bounds>>

SweepRun(p) ==
    /\ \E r \in sweep[p] :
        /\ IF run[r].status \in Unfinished THEN WriteRun(r, "failed") ELSE UNCHANGED run
        /\ sweep' = [sweep EXCEPT ![p] = sweep[p] \ {r}]
    /\ UNCHANGED <<job, session, slot, coord, member, up, bounds>>

(* Bounded by what it cuts off: once for each run. *)
SweepFault(p) ==
    /\ ~(sweep[p] \subseteq cut)
    /\ sweep' = [sweep EXCEPT ![p] = {}]
    /\ cut' = cut \cup sweep[p]
    /\ UNCHANGED <<rows, slot, coord, member, up, aged, upsets>>

Crash(p) ==
    /\ upsets < MaxUpsets /\ p \in up
    /\ upsets' = upsets + 1
    /\ up' = up \ {p}
    /\ slot' = [w \in Workers |-> IF OwnerOf(w) = p THEN IdleSlot ELSE slot[w]]
    /\ sweep' = [sweep EXCEPT ![p] = {}]
    /\ cut' = cut \cup sweep[p]
    /\ CoordTo(p, IdleCoord)
    /\ UNCHANGED <<rows, member, aged>>

(* recoverOrphanedAgentRuns runs once, before the first tick: runs created *)
(* more than 15 minutes ago that are "running" without an open job.  A     *)
(* lease lasts 15 minutes as well, so a run that lost one is old enough.   *)
Start(p) ==
    /\ p \notin up
    /\ up' = up \cup {p}
    /\ \E old \in {o \in SUBSET Runs : aged \subseteq o} :
        run' = [r \in Runs |-> IF r \in old /\ run[r].status = "running" /\ ~JobOpen(r)
                               THEN [run[r] EXCEPT !.status = "failed"] ELSE run[r]]
    /\ UNCHANGED <<job, session, slot, sweep, coord, member, bounds>>

-----------------------------------------------------------------------------
(* The environment: time, and what members and turns do to the session.    *)

Held(r) == \E w \in Workers : /\ slot[w].pc # "idle" /\ slot[w].run = r
                              /\ OwnerOf(w) = job[r].owner

LeaseExpires(r) ==
    /\ job[r].live /\ ~Held(r)
    /\ job' = [job EXCEPT ![r] = [job[r] EXCEPT !.live = FALSE]]
    /\ aged' = aged \cup {r}
    /\ UNCHANGED <<run, session, slot, sweep, coord, member, up, cut, upsets>>

(* A worker is suspended, or cannot reach the database, for 15 minutes. *)
Stall(r) ==
    /\ upsets < MaxUpsets
    /\ job[r].live /\ Held(r)
    /\ upsets' = upsets + 1
    /\ aged' = aged \cup {r}
    /\ job' = [job EXCEPT ![r] = [job[r] EXCEPT !.live = FALSE]]
    /\ UNCHANGED <<run, session, slot, sweep, coord, member, up, cut>>

BecomesDue(r) ==
    /\ ~job[r].due
    /\ job' = [job EXCEPT ![r] = [job[r] EXCEPT !.due = TRUE]]
    /\ UNCHANGED <<run, session, slot, sweep, coord, member, up, bounds>>

(* updateSessionSettings, cancelSession, and the failing and resuming turns.*)
SessionChanges(s) ==
    /\ \/ session' = [session EXCEPT ![s] = [session[s] EXCEPT !.auto = ~session[s].auto]]
       \/ /\ session[s].state # "cancelled"
          /\ \E state \in {"live", "failed", "cancelled"} \ {session[s].state} :
                session' = [session EXCEPT ![s] = [session[s] EXCEPT !.state = state]]
    /\ UNCHANGED <<run, job, slot, sweep, coord, member, up, bounds>>

-----------------------------------------------------------------------------
SlotStep(w) == \/ Claim(w) \/ Begin(w) \/ Launch(w) \/ Work(w) \/ Submit(w) \/ Charge(w)
               \/ Complete(w) \/ Record(w) \/ GiveBack(w)
CoordStep(p) == \/ ListWorkbench(p) \/ ListArticles(p) \/ CoordDone(p) \/ AutoReads(p)
                \/ AutoApproves(p) \/ AutoRejects(p) \/ ArticleFails(p)
SweepStep(p) == SweepJobs(p) \/ SweepRun(p)

Next == \/ \E w \in Workers : SlotStep(w) \/ Renew(w) \/ Fault(w)
        \/ \E m \in Members : MemberReads(m) \/ MemberApproves(m) \/ MemberRejects(m)
        \/ \E p \in Procs : \/ CoordStep(p) \/ CoordFault(p) \/ SweepStep(p) \/ SweepFault(p)
                            \/ Crash(p) \/ Start(p)
        \/ \E r \in Runs : LeaseExpires(r) \/ Stall(r) \/ BecomesDue(r)
        \/ \E s \in Sessions : SessionChanges(s)

Spec == Init /\ [][Next]_vars

(* The ticks of a running worker go on, the model's answer or its error    *)
(* arrives, a crashed worker is restarted (compose restart policy), and    *)
(* time passes.  Nothing is assumed of members and their sessions.         *)
Fairness == /\ \A w \in Workers : WF_vars(SlotStep(w))
            /\ \A p \in Procs : WF_vars(CoordStep(p)) /\ WF_vars(SweepStep(p)) /\ WF_vars(Start(p))
            /\ \A r \in Runs : WF_vars(LeaseExpires(r)) /\ WF_vars(BecomesDue(r))

FairSpec == Spec /\ Fairness

-----------------------------------------------------------------------------
(* Properties. *)

SlotPc == {"idle", "starting", "launching", "working", "submitting", "charging",
           "completing", "recording", "returning"}
CoordPc == {"idle", "workbench", "approving", "rejecting", "articles", "publishing", "failing"}
Approval == [draft : 0..MaxAttempts, via : {"manual", "workbench", "auto_article"}]

(* Types; a run is executed at most max_attempts times, however it is lost.*)
TypeOK ==
    /\ \A r \in Runs :
        /\ run[r].status \in Undecided \cup {"approved", "rejected", "failed"}
        /\ run[r].purpose \in Kinds /\ run[r].draft \in 0..MaxAttempts
        /\ run[r].applied \in Seq(Approval)
    /\ job \in [Runs -> [status : {"pending", "leased", "complete", "failed"}, owner : Procs \cup {None},
                         live : BOOLEAN, attempts : 0..MaxAttempts, due : BOOLEAN]]
    /\ session \in [Sessions -> [auto : BOOLEAN, state : {"live", "failed", "cancelled"}]]
    /\ slot \in [Workers -> [pc : SlotPc, run : Runs \cup {None}, attempt : 0..MaxAttempts, denied : BOOLEAN]]
    /\ sweep \in [Procs -> SUBSET Runs]
    /\ coord \in [Procs -> [pc : CoordPc, todo : SUBSET Runs, run : Runs \cup {None}, draft : 0..MaxAttempts]]
    /\ member \in [Members -> [run : Runs \cup {None}, draft : 0..MaxAttempts]]
    /\ up \in SUBSET Procs /\ cut \in SUBSET Runs /\ aged \in SUBSET Runs
    /\ upsets \in 0..MaxUpsets

(* operations.md:78: when a member and the coordinator approve the same    *)
(* draft at the same time only one approval takes effect and the other is  *)
(* merely refused.  As long as no worker died, stalled or lost a statement,*)
(* a run is "approved" exactly when its draft was materialized, once.      *)
Calm == upsets = 0
ApprovedOnce(r) == /\ Len(run[r].applied) <= 1
                   /\ run[r].status = "approved" <=> Len(run[r].applied) = 1
OneApprovalTakesEffect == Calm => \A r \in Runs : ApprovedOnce(r)

(* The same of every draft but an article, whose failed automatic approval *)
(* the coordinator writes over whatever the run has become: see            *)
(* ArticleFails.                                                           *)
OneApprovalUnlessArticle == Calm => \A r \in Runs : run[r].purpose # "article" => ApprovedOnce(r)

(* rbac-v2.md:89, :92: once a session is cancelled none of its drafts is   *)
(* materialized automatically, although the coordinator chose the draft and*)
(* read its row before the cancellation.                                   *)
NoAutoAfterCancel == [][\A r \in Runs :
    Len(run'[r].applied) > Len(run[r].applied) =>
        run'[r].applied[Len(run'[r].applied)].via = "manual" \/ ~Cancelled(r)]_vars

(* What no step may undo.  Approving and executing are guarded against each*)
(* other only through the job: once the job has ended and no worker, not   *)
(* even one that lost its lease, still executes the run, a decision stands,*)
(* whatever crashes, lapses, failing statements, sweeps and coordinators   *)
(* are about.  Article drafts are left out: see ArticleFails.              *)
Settled(r) == /\ run[r].status \in {"approved", "rejected"}
              /\ ~JobOpen(r)
              /\ \A w \in Workers : slot[w].run # r
DecisionStands == [][\A r \in Runs : Settled(r) /\ run[r].purpose # "article" =>
                        run'[r] = run[r] /\ Settled(r)']_vars

(* queue-recovery.ts:3, agent-jobs.ts:24: a run that is not finished has a *)
(* job to claim or a lease that will end, a sweep that will fail it, a slot*)
(* that will write its end although it lost the job, or a worker to be     *)
(* started that will find it; unless one of the losses named by cut left it*)
(* behind.  Zombies, neighbours that end each other's lease, members and   *)
(* coordinators write the run in any order.  It needs the two attempts a   *)
(* draft is given: with three it does not hold.                            *)
RunIsMoving == \A r \in Runs : run[r].status \in Unfinished =>
    \/ job[r].status = "pending" /\ job[r].attempts < MaxAttempts
    \/ job[r].status = "leased"
    \/ \E p \in Procs : r \in sweep[p]
    \/ \E w \in Workers : slot[w].run = r /\ slot[w].pc \in {"working", "submitting", "recording"}
    \/ run[r].status = "running" /\ r \in aged /\ up # Procs
    \/ r \in cut

(* queue-recovery.ts:3: jobs and the runs that depend on them converge even*)
(* after the final crash; a run that stays queued or running would also    *)
(* keep its project from being archived.  Every crash, lapse and failing   *)
(* statement is made up for, by the next claim or by the sweep, except the *)
(* loss of the very statement that would have ended the run once its job   *)
(* had ended: that of the sweep, or that of a worker that still executes   *)
(* what was swept; and except a last attempt that the slot's neighbour has *)
(* returned as its own, which is pending without an attempt left.          *)
RunSettlesUnlessCut == \A r \in Runs : <>[](run[r].status \notin Unfinished \/ r \in cut)

(* architecture.md:109: a draft of a session that stays live and in        *)
(* automatic mode is decided without a member (unless cut off, as above).  *)
AutoDecided == \A r \in Runs :
    (SessionOf[r] # None /\ run[r].purpose # "report") =>
        (<>[](session[SessionOf[r]] = [auto |-> TRUE, state |-> "live"])
            => <>[](run[r].status \in {"approved", "rejected", "failed"} \/ r \in cut))
=============================================================================
