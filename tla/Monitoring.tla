----------------------------- MODULE Monitoring -----------------------------
(***************************************************************************)
(* The monitoring schedule of a project, the batches it starts, and the    *)
(* end of the project.                                                     *)
(*   apps/worker/src/service.ts            saveMonitoringSchedule,         *)
(*     processDueSchedules, createScheduledBatch, createBatch              *)
(*   apps/worker/src/index.ts              the timer of the coordinators   *)
(*   apps/worker/src/project-lifecycle.ts  changeProjectLifecycle          *)
(*   packages/core/migrations/0027         the triggers of every table     *)
(* Every statement is a step.  A transaction that inserts a batch holds    *)
(* the row of the project FOR SHARE until it commits; the end of a project *)
(* holds it FOR UPDATE.  A statement on the schedule locks that row before *)
(* its trigger asks for the project.  What a batch does is module          *)
(* CaptureQueue; here its jobs end, and later its status is refreshed,     *)
(* unless the process dies between the two: nothing closes it then.        *)
(***************************************************************************)
EXTENDS Naturals, FiniteSets

CONSTANTS Ticks,       \* processDueSchedules under way: processes, or one whose timer overlaps
          Batches, None,
          MaxEdits,    \* plans saved, batches started by members, and requests to end the project
          MaxUpsets    \* crashes and failing statements

ASSUME MonitoringAssumption ==
    /\ None \notin Ticks /\ None \notin {"queued", "drained", "closed"}
    /\ IsFiniteSet(Batches)
    /\ MaxEdits \in Nat /\ MaxUpsets \in Nat

VARIABLES
    project,   \* "active", "archived" or "deleted"
    plan,      \* monitoring_schedules: enabled, next_run_at, last_run_at, last_error
    batch,     \* experiment_batches of the project, and the run of the plan that started each
    tick,      \* where each tick is, the statement it is at, and the run it read
    row,       \* the tick whose UPDATE holds the row of the plan and waits for the project
    ending,    \* where the request is that ends the project
    owed,      \* history: the run of the plan that is due or comes next; over when its
               \* batch is recorded and the date has moved
    cut,       \* history: runs that a second tick took up, or whose UPDATE of the plan was lost
    stranded,  \* batches whose jobs have ended and that nobody refreshes any more
    edits, upsets

vars == <<project, plan, batch, tick, row, ending, owed, cut, stranded, edits, upsets>>
history == <<owed, cut, stranded>>
counts == <<edits, upsets>>

Runs == 1..(Cardinality(Batches) + 1)
ByHand == 0                                          \* the run of a batch a member started
IdleTick == [pc |-> "idle", write |-> None, run |-> 0]
Free(b) == batch[b].status = None
NewBatch == CHOOSE b \in Batches : Free(b)           \* randomUUID

(* Mutant of Open: a batch counts whatever its status. *)
OpenEver(b) == ~Free(b)

Open(b) == batch[b].status \in {"queued", "drained"}    \* status queued or running
Ended == project # "active"

(* The row of the project: held by the request that ends it, or shared by  *)
(* the transactions that insert batches.                                   *)
Exclusive == ending # "idle"
Shared == \E t \in Ticks : tick[t].pc = "committing"
Writable == ~Ended /\ ~Exclusive

Init ==
    /\ project = "active"
    /\ plan = [enabled |-> FALSE, date |-> "none", ran |-> FALSE, failed |-> FALSE]
    /\ batch = [b \in Batches |-> [status |-> None, run |-> 0]]
    /\ tick = [t \in Ticks |-> IdleTick]
    /\ row = None /\ ending = "idle"
    /\ owed = 1 /\ cut = {} /\ stranded = {}
    /\ edits = 0 /\ upsets = 0

Upset == upsets < MaxUpsets /\ upsets' = upsets + 1
Edit == edits < MaxEdits /\ edits' = edits + 1
Interfered(r) == cut' = cut \cup {r}

-----------------------------------------------------------------------------
(* Members, time, and the batches. *)

Recomputed == IF plan.ran THEN {"due", "later"} ELSE {"later"}

(* Mutant of NextDate: a plan switched on again keeps the date it has. *)
NextDateKept(enabled, changed) ==
    IF ~enabled THEN {"none"} ELSE IF changed THEN Recomputed ELSE {plan.date}

(* next_run_at of a saved plan: a period from now when it is switched on,  *)
(* the last run plus the new period when that changed, else as it was.     *)
NextDate(enabled, changed) ==
    IF ~enabled THEN {"none"}
    ELSE IF ~plan.enabled THEN {"later"}
    ELSE IF changed \/ plan.date = "none" THEN Recomputed
    ELSE {plan.date}

Save ==
    /\ Edit /\ Writable /\ row = None
    /\ \E enabled, changed \in BOOLEAN : \E date \in NextDate(enabled, changed) :
        plan' = [plan EXCEPT !.enabled = enabled, !.date = date, !.failed = FALSE]
    /\ UNCHANGED <<project, batch, tick, row, ending, history, upsets>>

(* A batch started by a member asks for no other batch. *)
StartByHand ==
    /\ Edit /\ Writable
    /\ \E b \in Batches : Free(b)
    /\ batch' = [batch EXCEPT ![NewBatch] = [status |-> "queued", run |-> ByHand]]
    /\ UNCHANGED <<project, plan, tick, row, ending, history, upsets>>

DateComes ==
    /\ plan.date = "later"
    /\ plan' = [plan EXCEPT !.date = "due"]
    /\ UNCHANGED <<project, batch, tick, row, ending, history, counts>>

(* The last job of a batch has ended; module CaptureQueue says when. *)
JobsEnd(b) ==
    /\ batch[b].status = "queued" /\ Writable
    /\ batch' = [batch EXCEPT ![b].status = "drained"]
    /\ UNCHANGED <<project, plan, tick, row, ending, history, counts>>

Closes(b) == batch[b].status = "drained" /\ b \notin stranded

(* The slot or sweep that ended the last job refreshes the batch.          *)
Refresh(b) ==
    /\ Closes(b) /\ Writable
    /\ batch' = [batch EXCEPT ![b].status = "closed"]
    /\ UNCHANGED <<project, plan, tick, row, ending, history, counts>>

(* It dies before that, or its statement fails.                            *)
Strands(b) ==
    /\ Upset /\ Closes(b)
    /\ stranded' = stranded \cup {b}
    /\ UNCHANGED <<project, plan, batch, tick, row, ending, owed, cut, edits>>

-----------------------------------------------------------------------------
(* A tick, as far as it looks after this plan. *)

TickStarts(t) ==
    /\ tick[t].pc = "idle"
    /\ plan.enabled /\ plan.date = "due" /\ ~Ended
    /\ tick' = [tick EXCEPT ![t] = [pc |-> "looking", write |-> None, run |-> owed]]
    /\ IF \E u \in Ticks : tick[u].pc # "idle" /\ tick[u].run = owed
         THEN Interfered(owed) ELSE UNCHANGED cut
    /\ UNCHANGED <<project, plan, batch, row, ending, owed, stranded, counts>>

Writes(t, what) == tick' = [tick EXCEPT ![t].pc = "writing", ![t].write = what]

Looks(t) ==
    /\ tick[t].pc = "looking"
    /\ IF \E b \in Batches : Open(b)
         THEN Writes(t, "postpone")
         ELSE tick' = [tick EXCEPT ![t].pc = "building"]
    /\ UNCHANGED <<project, plan, batch, row, ending, history, counts>>

(* createScheduledBatch up to its INSERT, whose trigger asks for the       *)
(* project: the first alternative is a project that has ended or a         *)
(* configuration that cannot be built.                                     *)
Builds(t) ==
    /\ tick[t].pc = "building"
    /\ \/ Writes(t, "failure")
       \/ /\ Writable
          /\ \E b \in Batches : Free(b)
          /\ tick' = [tick EXCEPT ![t].pc = "committing"]
    /\ UNCHANGED <<project, plan, batch, row, ending, history, counts>>

Commits(t) ==
    /\ tick[t].pc = "committing"
    /\ \E b \in Batches : Free(b)
    /\ batch' = [batch EXCEPT ![NewBatch] = [status |-> "queued", run |-> tick[t].run]]
    /\ Writes(t, "success")
    /\ UNCHANGED <<project, plan, row, ending, history, counts>>

(* The UPDATE of the plan holds its row; its trigger waits for the project *)
(* while that is being ended.                                              *)
WriteWaits(t) ==
    /\ tick[t].pc = "writing" /\ row = None /\ Exclusive
    /\ row' = t
    /\ UNCHANGED <<project, plan, batch, tick, ending, history, counts>>

(* Mutant of Moved: a batch that was started leaves the date as it is. *)
MovedOnlyLater(what) ==
    CASE what = "success" -> [plan EXCEPT !.ran = TRUE, !.failed = FALSE]
      [] what = "failure" -> [plan EXCEPT !.date = "later", !.failed = TRUE]
      [] OTHER            -> [plan EXCEPT !.date = "later"]

Moved(what) ==
    CASE what = "success" -> [plan EXCEPT !.date = "later", !.ran = TRUE, !.failed = FALSE]
      [] what = "failure" -> [plan EXCEPT !.date = "later", !.failed = TRUE]
      [] OTHER            -> [plan EXCEPT !.date = "later"]

Released(t) == row' = IF row = t THEN None ELSE row

WritePlan(t) ==
    /\ tick[t].pc = "writing" /\ row \in {None, t} /\ Writable
    /\ plan' = Moved(tick[t].write)
    /\ owed' = IF tick[t].write = "success" /\ plan'.date # "due" THEN owed + 1 ELSE owed
    /\ tick' = [tick EXCEPT ![t] = IdleTick]
    /\ Released(t)
    /\ UNCHANGED <<project, batch, ending, cut, stranded, counts>>

(* A refused or failing UPDATE: after a batch it is taken for the failure  *)
(* of the batch, elsewhere the error ends the tick.                        *)
Refused(t) ==
    /\ IF tick[t].write = "success"
         THEN Writes(t, "failure") /\ Interfered(tick[t].run)
         ELSE tick' = [tick EXCEPT ![t] = IdleTick] /\ UNCHANGED cut
    /\ Released(t)
    /\ UNCHANGED <<project, plan, batch, owed, stranded, edits>>

WriteRefused(t) ==
    /\ tick[t].pc = "writing" /\ row \in {None, t} /\ Ended /\ ~Exclusive
    /\ Refused(t)
    /\ UNCHANGED <<ending, upsets>>

WriteFails(t) ==
    /\ Upset /\ tick[t].pc = "writing" /\ row \in {None, t}
    /\ Refused(t)
    /\ UNCHANGED ending

Crash(t) ==
    /\ Upset /\ tick[t].pc # "idle"
    /\ IF tick[t].write = "success" THEN Interfered(tick[t].run) ELSE UNCHANGED cut
    /\ tick' = [tick EXCEPT ![t] = IdleTick]
    /\ Released(t)
    /\ UNCHANGED <<project, plan, batch, ending, owed, stranded, edits>>

-----------------------------------------------------------------------------
(* Archiving or deleting the project: one transaction. *)

(* Mutant of Lockable: the row of the project is read without a lock. *)
LockableAlways == TRUE

Lockable == ~Shared

EndLocks ==
    /\ Edit /\ ending = "idle" /\ project # "deleted" /\ Lockable
    /\ ending' = "checking"
    /\ UNCHANGED <<project, plan, batch, tick, row, history, upsets>>

Busy == \E b \in Batches : batch[b].status = "queued"

EndChecks ==
    /\ ending = "checking"
    /\ ending' = IF Busy THEN "idle" ELSE "disabling"
    /\ UNCHANGED <<project, plan, batch, tick, row, history, counts>>

(* An archived project can only be deleted, and its plan stays as it is. *)
EndCommits ==
    /\ ending = "disabling"
    /\ IF Ended
         THEN project' = "deleted" /\ UNCHANGED plan
         ELSE /\ row = None
              /\ project' \in {"archived", "deleted"}
              /\ plan' = [plan EXCEPT !.enabled = FALSE]
    /\ ending' = "idle"
    /\ UNCHANGED <<batch, tick, row, history, counts>>

(* The end holds the project and waits for the plan, a tick holds the plan *)
(* and waits for the project: the database aborts one of them.             *)
Deadlocked == ending = "disabling" /\ ~Ended /\ row # None

AbortEnd ==
    /\ Deadlocked
    /\ ending' = "idle"
    /\ UNCHANGED <<project, plan, batch, tick, row, history, counts>>

AbortTick(t) ==
    /\ Deadlocked /\ row = t
    /\ Refused(t)
    /\ UNCHANGED <<ending, upsets>>

-----------------------------------------------------------------------------
TickStep(t) ==
    \/ TickStarts(t) \/ Looks(t) \/ Builds(t) \/ Commits(t) \/ WriteWaits(t)
    \/ WritePlan(t) \/ WriteRefused(t) \/ AbortTick(t)

EndStep == EndChecks \/ EndCommits \/ AbortEnd

Next ==
    \/ Save \/ StartByHand \/ DateComes
    \/ \E b \in Batches : JobsEnd(b) \/ Refresh(b) \/ Strands(b)
    \/ \E t \in Ticks : TickStep(t) \/ WriteFails(t) \/ Crash(t)
    \/ EndLocks \/ EndStep

(* Time passes, the timer of some process runs, the jobs of batches end    *)
(* and who ended the last one refreshes the batch unless it is upset,      *)
(* statements return.  A stranded batch has no such step.                  *)
Fairness ==
    /\ WF_vars(DateComes)
    /\ WF_vars(\E b \in Batches : JobsEnd(b) \/ Refresh(b))
    /\ WF_vars(\E t \in Ticks : TickStep(t))
    /\ WF_vars(EndStep)

Spec == Init /\ [][Next]_vars /\ Fairness

-----------------------------------------------------------------------------
(* The variables have their types, and a plan that is switched on has a    *)
(* date, whatever was saved and whatever a tick wrote after it             *)
(* (saveMonitoringSchedule: the CASE of next_run_at).                      *)
TypeOK ==
    /\ project \in {"active", "archived", "deleted"}
    /\ plan \in [enabled : BOOLEAN, date : {"none", "later", "due"},
                 ran : BOOLEAN, failed : BOOLEAN]
    /\ batch \in [Batches -> [status : {None, "queued", "drained", "closed"},
                              run : Runs \cup {ByHand}]]
    /\ tick \in [Ticks -> [pc : {"idle", "looking", "building", "committing", "writing"},
                           write : {None, "postpone", "failure", "success"}, run : Runs \cup {0}]]
    /\ row \in Ticks \cup {None} /\ ending \in {"idle", "checking", "disabling"}
    /\ owed \in Runs /\ cut \subseteq Runs /\ stranded \subseteq Batches
    /\ edits \in 0..MaxEdits /\ upsets \in 0..MaxUpsets
    /\ plan.enabled => plan.date # "none"

(* One run of the plan starts one batch, whatever comes between the        *)
(* statements of its tick (saved plans, batches of members, postponements, *)
(* failures, an archive that is abandoned), unless a second tick took up   *)
(* the run while the first was under way or the UPDATE of the plan after   *)
(* the batch was lost (processDueSchedules).                               *)
OneBatchPerRun ==
    \A r \in Runs \ cut : Cardinality({b \in Batches : batch[b].run = r}) <= 1

(* A project that has ended has no batch with open jobs, and neither its   *)
(* batches nor its plan change any more, whatever was under way when it    *)
(* ended (changeProjectLifecycle; the triggers of migration 0027).         *)
EndedIsFrozen ==
    [][Ended' => /\ \A b \in Batches : batch'[b].status # "queued"
                 /\ ~plan'.enabled
                 /\ Ended => UNCHANGED batch /\ plan'.failed = plan.failed]_vars

(* A plan that is switched on gets the batch of the run it owes, or says   *)
(* that it failed, however often an open batch has it postponed: of ticks, *)
(* members and the end of the project none blocks it for ever.  Excepted is*)
(* a stranded batch: it is open for good, so the plan is postponed by an   *)
(* hour for ever and its last_error stays empty (processDueSchedules).     *)
Owes ==
    /\ plan.enabled /\ ~plan.failed
    /\ \E b \in Batches : Free(b)
    /\ ~\E b \in Batches : batch[b].run = owed

RunIsServedUnlessStranded == []<>(~Owes \/ stranded # {})

=============================================================================
