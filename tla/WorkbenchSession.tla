-------------------------- MODULE WorkbenchSession --------------------------
(***************************************************************************)
(* A session of the workbench that runs on the server, and its turns: the  *)
(* agent_sessions row and the agent_session_turn jobs.                     *)
(*   apps/worker/src/workbench.ts      messages, answers, cancellation,    *)
(*                                     executeSessionTurn, the wake-up of  *)
(*                                     waiting sessions, orphans           *)
(*   apps/worker/src/agent-jobs.ts     the slots of an agent worker        *)
(*   apps/worker/src/queue-recovery.ts the sweep of exhausted leases       *)
(* The row is written by members' requests, by slots that execute a turn   *)
(* or lost it, by two coordinators, by sweeps and at the start of a worker.*)
(* Every SQL statement and every transaction is one step.                  *)
(***************************************************************************)
EXTENDS Naturals, Sequences, FiniteSets

CONSTANTS Sessions, Members,
          Procs, Slots,       \* agent workers; slots of each (AGENT_JOB_CONCURRENCY)
          Nobody,
          Things,             \* batches, drafts and reports a session may wait for
          Reviewed,           \* drafts whose approval is handed back to the member
          MaxAttempts,        \* jobs.max_attempts, 2 in enqueueTurn
          MaxQuestions,       \* messages of a session
          MaxFaults,          \* crashes, failing statements, stalls and answers, together
          Failing             \* whether there are others than answers

ASSUME SessionAssumption ==
    /\ Reviewed \subseteq Things
    /\ Nobody \notin Sessions /\ Nobody \notin Procs /\ Nobody \notin Things
    /\ MaxAttempts \in Nat \ {0} /\ MaxQuestions \in Nat
    /\ MaxFaults \in Nat /\ Failing \in BOOLEAN

VARIABLES
    sessions,  \* agent_sessions: status, waiting, cancelled_at, and whether the
               \* stored transcript ends in an ask_user or wait_for call
    jobs,      \* the agent_session_turn jobs of each session
    thing,     \* the objects sessions wait for
    slot,      \* where each slot is in runOneAgentJob and executeSessionTurn
    coord,     \* where each process is in resumeWaitingSessions
    sweep,     \* sessions whose turns a process has failed in sweepTerminalLeases
    member,    \* where each member's request is
    up,        \* the processes that run
    cut,       \* history: sessions whose last ending or queueing statement was lost
    faults

sessionVars == <<sessions, jobs, thing, slot, coord, sweep, member, up, cut, faults>>
rows == <<sessions, jobs, thing>>
actors == <<slot, coord, sweep, member, up>>
bounds == <<cut, faults>>

Workers == Procs \X Slots
OwnerOf(w) == w[1]

(* waiting: NULL, a question to the member, or a thing. *)
Question == "question"

IdleSlot == [pc |-> "idle", s |-> Nobody, turn |-> 0, attempt |-> 0,
             prior |-> Nobody, result |-> Nobody, denied |-> FALSE]
IdleCoord == [pc |-> "idle", todo |-> {}, s |-> Nobody]
IdleMember == [pc |-> "idle", s |-> Nobody, trigger |-> "user"]

Open(t) == t.status \in {"pending", "leased"}
OpenTurn(s) == \E i \in DOMAIN jobs[s] : Open(jobs[s][i])
Expired(t) == t.status = "leased" /\ ~t.live
Asked(s) == Cardinality({i \in DOMAIN jobs[s] : jobs[s][i].trigger = "user"})
            + Cardinality({m \in Members : member[m] = [pc |-> "queueing", s |-> s, trigger |-> "user"]})

(* createSession; its first message is Send. *)
SessionInit ==
    /\ sessions = [s \in Sessions |-> [status |-> "idle", waiting |-> Nobody,
                                      cancelled |-> FALSE, call |-> FALSE]]
    /\ jobs = [s \in Sessions |-> <<>>]
    /\ thing = [t \in Things |-> "pending"]
    /\ slot = [w \in Workers |-> IdleSlot]
    /\ coord = [p \in Procs |-> IdleCoord]
    /\ sweep = [p \in Procs |-> {}]
    /\ member = [m \in Members |-> IdleMember]
    /\ up = Procs
    /\ cut = {} /\ faults = 0

Fault == Failing /\ faults < MaxFaults /\ faults' = faults + 1
SlotTo(w, a) == slot' = [slot EXCEPT ![w] = a]
SlotAt(w, pc) == SlotTo(w, [slot[w] EXCEPT !.pc = pc])
CoordTo(p, a) == coord' = [coord EXCEPT ![p] = a]
CoordAt(p, pc) == CoordTo(p, [coord[p] EXCEPT !.pc = pc])
MemberTo(m, a) == member' = [member EXCEPT ![m] = a]

WriteSession(s, row) == sessions' = [sessions EXCEPT ![s] = row]
SetStatus(s, status) == WriteSession(s, [sessions[s] EXCEPT !.status = status])
Fail(s) == WriteSession(s, [sessions[s] EXCEPT !.status = "failed", !.waiting = Nobody])
WriteTurn(s, i, t) == jobs' = [jobs EXCEPT ![s] = [jobs[s] EXCEPT ![i] = t]]

(* Mutant of Enqueue: a session with an open turn gets no second one. *)
EnqueueOnce(s, trigger) ==
    IF OpenTurn(s) THEN UNCHANGED jobs
    ELSE jobs' = [jobs EXCEPT ![s] = Append(jobs[s],
        [trigger |-> trigger, status |-> "pending", owner |-> Nobody, live |-> FALSE, attempts |-> 0])]

(* enqueueTurn *)
Enqueue(s, trigger) ==
    jobs' = [jobs EXCEPT ![s] = Append(jobs[s],
        [trigger |-> trigger, status |-> "pending", owner |-> Nobody, live |-> FALSE, attempts |-> 0])]

-----------------------------------------------------------------------------
(* Requests of members. *)

(* sendMessage claims the session in one guarded statement; its turn is    *)
(* queued by a later one.  A session that waits for a thing is claimable.  *)
Send(m) ==
    /\ member[m].pc = "idle"
    /\ \E s \in Sessions :
        /\ Asked(s) < MaxQuestions
        /\ ~sessions[s].cancelled
        /\ sessions[s].status \notin {"running", "waiting_user"}
        /\ SetStatus(s, "running")
        /\ MemberTo(m, [pc |-> "queueing", s |-> s, trigger |-> "user"])
    /\ UNCHANGED <<jobs, thing, slot, coord, sweep, up, bounds>>

(* answerQuestion: the question is read first ... *)
ReadQuestion(m) ==
    /\ member[m].pc = "idle"
    /\ faults < MaxFaults /\ faults' = faults + 1
    /\ \E s \in Sessions :
        /\ sessions[s].status = "waiting_user" /\ sessions[s].waiting = Question
        /\ MemberTo(m, [pc |-> "answering", s |-> s, trigger |-> "answer"])
    /\ UNCHANGED <<rows, slot, coord, sweep, up, cut>>

(* ... and then the session is set running whatever it has become, unless  *)
(* the answer is refused or confirming the proposed questions fails.       *)
Answer(m) ==
    /\ member[m].pc = "answering"
    /\ \/ SetStatus(member[m].s, "running") /\ MemberTo(m, [member[m] EXCEPT !.pc = "queueing"])
       \/ UNCHANGED sessions /\ MemberTo(m, IdleMember)
    /\ UNCHANGED <<jobs, thing, slot, coord, sweep, up, bounds>>

QueueTurn(m) ==
    /\ member[m].pc = "queueing"
    /\ Enqueue(member[m].s, member[m].trigger)
    /\ MemberTo(m, IdleMember)
    /\ UNCHANGED <<sessions, thing, slot, coord, sweep, up, bounds>>

(* cancelSession: the session in one statement, its open turns in a second.*)
Cancel(m) ==
    /\ member[m].pc = "idle"
    /\ \E s \in Sessions :
        /\ sessions[s].status \in {"running", "waiting_user", "waiting_job", "idle"}
        /\ WriteSession(s, [sessions[s] EXCEPT !.status = "failed", !.waiting = Nobody, !.cancelled = TRUE])
        /\ MemberTo(m, [pc |-> "cancelling", s |-> s, trigger |-> "user"])
    /\ UNCHANGED <<jobs, thing, slot, coord, sweep, up, bounds>>

CancelTurns(m) ==
    /\ member[m].pc = "cancelling"
    /\ LET s == member[m].s IN
        /\ jobs' = [jobs EXCEPT ![s] = [i \in DOMAIN jobs[s] |->
                IF ~Open(jobs[s][i]) THEN jobs[s][i]
                ELSE [jobs[s][i] EXCEPT !.status = "failed", !.owner = Nobody, !.live = FALSE]]]
        /\ cut' = IF sessions[s].status = "running" THEN cut \cup {s} ELSE cut
    /\ MemberTo(m, IdleMember)
    /\ UNCHANGED <<sessions, thing, slot, coord, sweep, up, faults>>

(* A statement fails or the API process dies: the rest of the request is lost.*)
MemberFault(m) ==
    /\ Fault /\ member[m].pc # "idle"
    /\ cut' = IF member[m].pc = "queueing" THEN cut \cup {member[m].s} ELSE cut
    /\ MemberTo(m, IdleMember)
    /\ UNCHANGED <<rows, slot, coord, sweep, up>>

-----------------------------------------------------------------------------
(* A slot executes a turn. *)

Turn(w) == jobs[slot[w].s][slot[w].turn]
Owns(w) == Turn(w).owner = OwnerOf(w)

(* Mutant of MayClaim: the retry budget is not looked at. *)
ClaimableBeyondBudget(t) == t.status = "pending" \/ Expired(t)

MayClaim(t) == t.attempts < MaxAttempts /\ (t.status = "pending" \/ Expired(t))

(* The 30 seconds before a retry are not modelled: it may come at once. *)
Claim(w) ==
    /\ OwnerOf(w) \in up
    /\ slot[w].pc = "idle"
    /\ \E s \in Sessions : \E i \in DOMAIN jobs[s] :
        LET t == jobs[s][i] IN
        /\ MayClaim(t)
        /\ WriteTurn(s, i, [t EXCEPT !.status = "leased", !.owner = OwnerOf(w), !.live = TRUE,
                                     !.attempts = t.attempts + 1])
        /\ SlotTo(w, [IdleSlot EXCEPT !.pc = "loading", !.s = s, !.turn = i, !.attempt = t.attempts + 1])
    /\ UNCHANGED <<sessions, thing, coord, sweep, member, up, bounds>>

Renew(w) ==
    /\ slot[w].pc # "idle"
    /\ Owns(w) /\ Turn(w).status = "leased"
    /\ WriteTurn(slot[w].s, slot[w].turn, [Turn(w) EXCEPT !.live = TRUE])
    /\ UNCHANGED <<sessions, thing, actors, bounds>>

(* A wake-up or an answer is void once the session has ended. *)
Void(w) == sessions[slot[w].s].status \in {"done", "failed"} /\ Turn(w).trigger # "user"

(* authorizeWorkbench in runOneAgentJob, then loadSession: what the session*)
(* waited for is read here and used after StartTurn has cleared it.        *)
Load(w) ==
    /\ slot[w].pc = "loading"
    /\ LET s == slot[w].s IN
        \/ sessions[s].cancelled /\ SlotTo(w, [slot[w] EXCEPT !.pc = "returning", !.denied = TRUE])
        \/ /\ ~sessions[s].cancelled
           /\ SlotTo(w, IF Void(w) THEN [slot[w] EXCEPT !.pc = "completing"]
                        ELSE [slot[w] EXCEPT !.pc = "starting", !.prior = sessions[s].waiting])
    /\ UNCHANGED <<rows, coord, sweep, member, up, bounds>>

(* Cancelled in between: it returns, or the second authorization throws.   *)
(* A missing model or key throws as well, and may be retried.              *)
Refuse(w) ==
    /\ slot[w].pc = "starting"
    /\ \/ sessions[slot[w].s].cancelled /\ SlotTo(w, [slot[w] EXCEPT !.pc = "completing", !.prior = Nobody])
       \/ \E denied \in BOOLEAN :
            SlotTo(w, [slot[w] EXCEPT !.pc = "returning", !.denied = denied, !.prior = Nobody])
    /\ UNCHANGED <<rows, coord, sweep, member, up, bounds>>

MayStart(s) == ~sessions[s].cancelled

StartTurn(w) ==
    /\ slot[w].pc = "starting"
    /\ LET s == slot[w].s IN
        /\ MayStart(s)
        /\ WriteSession(s, [sessions[s] EXCEPT !.status = "running", !.waiting = Nobody])
    /\ SlotTo(w, [slot[w] EXCEPT !.pc = "working", !.prior = Nobody])
    /\ UNCHANGED <<jobs, thing, coord, sweep, member, up, bounds>>

(* The model ends the turn: with or without finish, by ask_user or by      *)
(* wait_for, which refuses what has already ended.                         *)
Decide(w) ==
    /\ slot[w].pc = "working"
    /\ \E r \in {"idle", "done", Question} \cup {t \in Things : thing[t] # "ended"} :
        SlotTo(w, [slot[w] EXCEPT !.pc = "storing", !.result = r])
    /\ UNCHANGED <<rows, coord, sweep, member, up, bounds>>

(* The model or an authorization during the turn throws; so may the last   *)
(* authorization, before the outcome is stored.                            *)
Throw(w) ==
    /\ slot[w].pc \in {"working", "storing"}
    /\ \E denied \in BOOLEAN :
        /\ slot[w].pc = "storing" => denied
        /\ SlotTo(w, [slot[w] EXCEPT !.pc = "recording", !.denied = denied, !.result = Nobody])
    /\ UNCHANGED <<rows, coord, sweep, member, up, bounds>>

Result(r) == IF r \in Things THEN [status |-> "waiting_job", waiting |-> r, cancelled |-> FALSE, call |-> TRUE]
             ELSE IF r = Question THEN [status |-> "waiting_user", waiting |-> r, cancelled |-> FALSE, call |-> TRUE]
             ELSE [status |-> r, waiting |-> Nobody, cancelled |-> FALSE, call |-> FALSE]

(* Mutant of Store: a session cancelled meanwhile is not told apart. *)
StoreAnyway(w) ==
    /\ slot[w].pc = "storing"
    /\ WriteSession(slot[w].s, [Result(slot[w].result) EXCEPT !.cancelled = sessions[slot[w].s].cancelled])
    /\ SlotTo(w, [slot[w] EXCEPT !.pc = "completing", !.result = Nobody])
    /\ UNCHANGED <<jobs, thing, coord, sweep, member, up, cut, faults>>

Store(w) ==
    /\ slot[w].pc = "storing"
    /\ LET s == slot[w].s
           r == slot[w].result
       IN  IF sessions[s].cancelled THEN UNCHANGED sessions
           ELSE WriteSession(s, Result(r))
    /\ SlotTo(w, [slot[w] EXCEPT !.pc = "completing", !.result = Nobody])
    /\ UNCHANGED <<jobs, thing, coord, sweep, member, up, cut, faults>>

Complete(w) ==
    /\ slot[w].pc = "completing"
    /\ IF Owns(w) THEN WriteTurn(slot[w].s, slot[w].turn,
                            [Turn(w) EXCEPT !.status = "complete", !.owner = Nobody, !.live = FALSE])
       ELSE UNCHANGED jobs
    /\ SlotTo(w, IdleSlot)
    /\ UNCHANGED <<sessions, thing, coord, sweep, member, up, bounds>>

(* The catch block of executeSessionTurn; the transcript it stores holds   *)
(* the result of the call the turn went on from.                           *)
Record(w) ==
    /\ slot[w].pc = "recording"
    /\ LET s == slot[w].s IN
        IF sessions[s].cancelled THEN UNCHANGED sessions
        ELSE WriteSession(s, [sessions[s] EXCEPT !.status = "failed", !.waiting = Nobody, !.call = FALSE])
    /\ SlotAt(w, "returning")
    /\ UNCHANGED <<jobs, thing, coord, sweep, member, up, bounds>>

(* The catch block of runOneAgentJob: one transaction, guarded by the owner*)
(* of the job but not by the cancellation of the session.                  *)
Retrying(w) == ~slot[w].denied /\ slot[w].attempt < MaxAttempts

(* A slot that lost its turn writes nothing any more: a session it had set *)
(* running is left to others, and stays so if they are done with it.       *)
Leave(w) == cut' = IF sessions[slot[w].s].status = "running" THEN cut \cup {slot[w].s} ELSE cut

(* The slots of a process share its name: one that lost its lease to its   *)
(* neighbour returns the neighbour's turn, and may leave it pending without*)
(* an attempt left.                                                        *)
ReturnTurn(w) ==
    /\ WriteTurn(slot[w].s, slot[w].turn, [Turn(w) EXCEPT
            !.status = IF Retrying(w) THEN "pending" ELSE "failed", !.owner = Nobody, !.live = FALSE])
    /\ cut' = IF Retrying(w) /\ Turn(w).attempts >= MaxAttempts THEN cut \cup {slot[w].s} ELSE cut

(* Mutant of GiveBack: the session of a turn that is not retried is left alone.*)
GiveBackRetriesOnly(w) ==
    /\ slot[w].pc = "returning"
    /\ IF ~Owns(w) THEN Leave(w) /\ UNCHANGED <<sessions, jobs>>
       ELSE /\ ReturnTurn(w)
            /\ IF Retrying(w) THEN SetStatus(slot[w].s, "running") ELSE UNCHANGED sessions
    /\ SlotTo(w, IdleSlot)
    /\ UNCHANGED <<thing, coord, sweep, member, up, faults>>

GiveBack(w) ==
    /\ slot[w].pc = "returning"
    /\ IF ~Owns(w) THEN Leave(w) /\ UNCHANGED <<sessions, jobs>>
       ELSE /\ ReturnTurn(w)
            /\ IF Retrying(w) THEN SetStatus(slot[w].s, "running") ELSE Fail(slot[w].s)
    /\ SlotTo(w, IdleSlot)
    /\ UNCHANGED <<thing, coord, sweep, member, up, faults>>

(* A slot whose turn ends without a word about the session: its outcome is *)
(* stored, or the session was cancelled.                                   *)
Leaving(w) == \/ slot[w].pc = "completing"
              \/ slot[w].pc \in {"starting", "working", "storing"} /\ sessions[slot[w].s].cancelled

(* A neighbour with the same name is about to complete the turn.           *)
NeighbourLeaves(w) == \E v \in Workers \ {w} :
    slot[v].s = slot[w].s /\ slot[v].turn = slot[w].turn /\ OwnerOf(v) = OwnerOf(w) /\ Leaving(v)

(* A statement of the slot fails: before StartTurn and in the preparation  *)
(* after it the catch block of runOneAgentJob runs; up to the event and    *)
(* the cost that follow Store, that of executeSessionTurn does.  What is   *)
(* lost is made up for by the job, if the slot still has it and no         *)
(* neighbour completes it.                                                 *)
SlotFault(w) ==
    /\ Fault
    /\ \/ slot[w].pc \in {"loading", "starting", "working", "completing", "recording"} /\ SlotAt(w, "returning")
       \/ slot[w].pc \in {"storing", "completing"} /\ SlotAt(w, "recording")
       \/ slot[w].pc = "returning" /\ SlotTo(w, IdleSlot)
    /\ IF slot[w].pc = "returning" /\ (~Owns(w) \/ NeighbourLeaves(w)) THEN Leave(w) ELSE UNCHANGED cut
    /\ UNCHANGED <<rows, coord, sweep, member, up>>

-----------------------------------------------------------------------------
(* The coordinator: resumeWaitingSessions, its second part. *)

List(p) ==
    /\ p \in up
    /\ coord[p].pc = "idle"
    /\ \E s \in Sessions : sessions[s].status = "waiting_job"
    /\ CoordTo(p, [IdleCoord EXCEPT !.pc = "listed", !.todo =
            {[s |-> s, on |-> sessions[s].waiting] : s \in {z \in Sessions : sessions[z].status = "waiting_job"}}])
    /\ UNCHANGED <<rows, slot, sweep, member, up, bounds>>

(* Mutant of NextStep: drafts that ended wake nobody. *)
NextStepBatches(t) == IF thing[t] = "ended" /\ t \notin Reviewed THEN "claiming"
                      ELSE IF thing[t] = "review" THEN "asking" ELSE "listed"

(* What is to be done depends on the object that was listed. *)
NextStep(t) == CASE thing[t] = "ended" -> "claiming"
                 [] thing[t] = "review" -> "asking"
                 [] OTHER -> "listed"

Look(p) ==
    /\ coord[p].pc = "listed"
    /\ \E x \in coord[p].todo :
        CoordTo(p, [todo |-> coord[p].todo \ {x}, s |-> x.s,
                    pc |-> IF sessions[x.s].cancelled THEN "denying" ELSE NextStep(x.on)])
    /\ UNCHANGED <<rows, slot, sweep, member, up, bounds>>

ListDone(p) ==
    /\ coord[p].pc = "listed" /\ coord[p].todo = {}
    /\ CoordTo(p, IdleCoord)
    /\ UNCHANGED <<rows, slot, sweep, member, up, bounds>>

(* Neither Deny nor Ask looks at what the session has become. *)
Deny(p) ==
    /\ coord[p].pc = "denying"
    /\ Fail(coord[p].s)
    /\ CoordAt(p, "listed")
    /\ UNCHANGED <<jobs, thing, slot, sweep, member, up, bounds>>

Ask(p) ==
    /\ coord[p].pc = "asking"
    /\ WriteSession(coord[p].s, [sessions[coord[p].s] EXCEPT !.status = "waiting_user", !.waiting = Question])
    /\ CoordAt(p, "listed")
    /\ UNCHANGED <<jobs, thing, slot, sweep, member, up, bounds>>

MayWake(s) == sessions[s].status = "waiting_job" /\ sessions[s].waiting # Nobody

WakeSession(p) ==
    /\ coord[p].pc = "claiming"
    /\ LET s == coord[p].s IN
        IF MayWake(s) THEN SetStatus(s, "running") /\ CoordAt(p, "queueing")
        ELSE UNCHANGED sessions /\ CoordAt(p, "listed")
    /\ UNCHANGED <<jobs, thing, slot, sweep, member, up, bounds>>

QueueResume(p) ==
    /\ coord[p].pc = "queueing"
    /\ Enqueue(coord[p].s, "resume")
    /\ CoordAt(p, "listed")
    /\ UNCHANGED <<sessions, thing, slot, sweep, member, up, bounds>>

(* The round ends at a statement that fails.  The statement may be the     *)
(* authorization, whose failure is taken for a denial.                     *)
CoordFault(p) ==
    /\ Fault /\ coord[p].pc # "idle"
    /\ \/ CoordTo(p, IdleCoord)
       \/ coord[p].pc \in {"claiming", "asking"} /\ CoordAt(p, "denying")
    /\ cut' = IF coord[p].pc = "queueing" THEN cut \cup {coord[p].s} ELSE cut
    /\ UNCHANGED <<rows, slot, sweep, member, up>>

-----------------------------------------------------------------------------
(* Recovery. *)

Exhausted(t) == Expired(t) /\ t.attempts >= MaxAttempts

SweepTurns(p) ==
    /\ p \in up
    /\ sweep[p] = {}
    /\ \E s \in Sessions : \E i \in DOMAIN jobs[s] : Exhausted(jobs[s][i])
    /\ jobs' = [s \in Sessions |-> [i \in DOMAIN jobs[s] |->
            IF ~Exhausted(jobs[s][i]) THEN jobs[s][i]
            ELSE [jobs[s][i] EXCEPT !.status = "failed", !.owner = Nobody, !.live = FALSE]]]
    /\ sweep' = [sweep EXCEPT ![p] = {s \in Sessions : \E i \in DOMAIN jobs[s] : Exhausted(jobs[s][i])}]
    /\ UNCHANGED <<sessions, thing, slot, coord, member, up, bounds>>

SweepSession(p) ==
    /\ \E s \in sweep[p] :
        /\ IF sessions[s].status = "running" THEN Fail(s) ELSE UNCHANGED sessions
        /\ sweep' = [sweep EXCEPT ![p] = sweep[p] \ {s}]
    /\ UNCHANGED <<jobs, thing, slot, coord, member, up, bounds>>

(* Needs no bound: each sweep has ended a turn. *)
SweepFault(p) ==
    /\ sweep[p] # {}
    /\ sweep' = [sweep EXCEPT ![p] = {}]
    /\ cut' = cut \cup sweep[p]
    /\ UNCHANGED <<rows, slot, coord, member, up, faults>>

(* What dies with a process: its slots, whose turns are claimed again if   *)
(* they still had them, its sweep and its coordinator.                     *)
Crash(p) ==
    /\ Fault /\ p \in up
    /\ up' = up \ {p}
    /\ slot' = [w \in Workers |-> IF OwnerOf(w) = p THEN IdleSlot ELSE slot[w]]
    /\ sweep' = [sweep EXCEPT ![p] = {}]
    /\ CoordTo(p, IdleCoord)
    /\ cut' = cut \cup sweep[p] \cup {s \in Sessions :
            \/ coord[p].pc = "queueing" /\ coord[p].s = s
            \/ /\ sessions[s].status = "running"
               /\ \E w \in Workers : /\ OwnerOf(w) = p /\ slot[w].pc # "idle" /\ slot[w].s = s
                                     /\ ~Owns(w) /\ ~Leaving(w)}
    /\ UNCHANGED <<rows, member>>

(* A request or a wake-up is about to queue a turn. *)
Queueing(s) == \/ \E m \in Members : member[m].pc = "queueing" /\ member[m].s = s
               \/ \E p \in Procs : coord[p].pc = "queueing" /\ coord[p].s = s

(* recoverOrphanedSessions, once, before the first tick: sessions running  *)
(* without an open turn whose row is 20 minutes old.  No request takes so  *)
(* long between its two statements.                                        *)
Boot(p) ==
    /\ p \notin up
    /\ up' = up \cup {p}
    /\ \E old \in SUBSET {s \in Sessions : ~Queueing(s)} :
        sessions' = [s \in Sessions |->
            IF s \in old /\ sessions[s].status = "running" /\ ~OpenTurn(s)
            THEN [sessions[s] EXCEPT !.status = "failed"] ELSE sessions[s]]
    /\ UNCHANGED <<jobs, thing, slot, coord, sweep, member, bounds>>

-----------------------------------------------------------------------------
(* The environment: what is waited for goes on, and time passes. *)

Progress(t) ==
    /\ \/ thing[t] = "pending" /\ t \in Reviewed /\ thing' = [thing EXCEPT ![t] = "review"]
       \/ thing[t] # "ended" /\ thing' = [thing EXCEPT ![t] = "ended"]
    /\ UNCHANGED <<sessions, jobs, actors, bounds>>

Held(s, i) == \E w \in Workers : /\ slot[w].s = s /\ slot[w].turn = i
                                 /\ OwnerOf(w) = jobs[s][i].owner

Lapse(s, i) == jobs[s][i].live /\ WriteTurn(s, i, [jobs[s][i] EXCEPT !.live = FALSE])

TurnExpires(s) ==
    /\ \E i \in DOMAIN jobs[s] : ~Held(s, i) /\ Lapse(s, i)
    /\ UNCHANGED <<sessions, thing, actors, bounds>>

(* A worker is suspended, or cannot reach the database, for 15 minutes. *)
WorkerStalls(s) ==
    /\ Fault
    /\ \E i \in DOMAIN jobs[s] : Held(s, i) /\ Lapse(s, i)
    /\ UNCHANGED <<sessions, thing, actors, cut>>

-----------------------------------------------------------------------------
SlotStep(w) == \/ Claim(w) \/ Load(w) \/ Refuse(w) \/ StartTurn(w) \/ Decide(w) \/ Throw(w)
               \/ Store(w) \/ Complete(w) \/ Record(w) \/ GiveBack(w)
CoordStep(p) == \/ List(p) \/ Look(p) \/ ListDone(p) \/ Deny(p) \/ Ask(p) \/ WakeSession(p) \/ QueueResume(p)
SweepStep(p) == SweepTurns(p) \/ SweepSession(p)
RequestStep(m) == Answer(m) \/ QueueTurn(m) \/ CancelTurns(m)

SessionNext == \/ \E m \in Members : Send(m) \/ ReadQuestion(m) \/ Cancel(m) \/ RequestStep(m) \/ MemberFault(m)
               \/ \E w \in Workers : SlotStep(w) \/ Renew(w) \/ SlotFault(w)
               \/ \E p \in Procs : \/ CoordStep(p) \/ CoordFault(p) \/ SweepStep(p) \/ SweepFault(p)
                                   \/ Crash(p) \/ Boot(p)
               \/ \E t \in Things : Progress(t)
               \/ \E s \in Sessions : TurnExpires(s) \/ WorkerStalls(s)

SessionSpec == SessionInit /\ [][SessionNext]_sessionVars

(* Requests that were begun go on, the ticks of a running worker go on, the*)
(* model's answer or its error arrives, a crashed worker is restarted, and *)
(* time passes.  No member is assumed to ask, answer or cancel anything,   *)
(* and nothing that is waited for is assumed to end.                       *)
SessionFairness == /\ \A m \in Members : WF_sessionVars(RequestStep(m))
                   /\ \A w \in Workers : WF_sessionVars(SlotStep(w))
                   /\ \A p \in Procs : WF_sessionVars(CoordStep(p)) /\ WF_sessionVars(SweepStep(p)) /\ WF_sessionVars(Boot(p))
                   /\ \A s \in Sessions : WF_sessionVars(TurnExpires(s))

FairSession == SessionSpec /\ SessionFairness

-----------------------------------------------------------------------------
(* Properties. *)

SlotPc == {"idle", "loading", "starting", "working", "storing", "completing", "recording", "returning"}
CoordPc == {"idle", "listed", "denying", "asking", "claiming", "queueing"}
Waitable == Things \cup {Nobody, Question}

(* Types; a turn is executed at most max_attempts times, however it is     *)
(* lost; and a session that waits says for what (operations.md:88): for a  *)
(* question a member can answer, or for a draft the coordinator can find.  *)
SessionTypeOK ==
    /\ sessions \in [Sessions -> [status : {"idle", "running", "waiting_user", "waiting_job", "done", "failed"},
                                 waiting : Waitable, cancelled : BOOLEAN, call : BOOLEAN]]
    /\ \A s \in Sessions : \A i \in DOMAIN jobs[s] :
        jobs[s][i] \in [trigger : {"user", "answer", "resume"}, owner : Procs \cup {Nobody}, live : BOOLEAN,
                         status : {"pending", "leased", "complete", "failed"}, attempts : 0..MaxAttempts]
    /\ thing \in [Things -> {"pending", "review", "ended"}]
    /\ slot \in [Workers -> [pc : SlotPc, s : Sessions \cup {Nobody}, turn : Nat, attempt : 0..MaxAttempts,
                             prior : Waitable, result : Waitable \cup {"idle", "done"}, denied : BOOLEAN]]
    /\ coord \in [Procs -> [pc : CoordPc, todo : SUBSET [s : Sessions, on : Waitable], s : Sessions \cup {Nobody}]]
    /\ sweep \in [Procs -> SUBSET Sessions]
    /\ member \in [Members -> [pc : {"idle", "answering", "queueing", "cancelling"},
                               s : Sessions \cup {Nobody}, trigger : {"user", "answer"}]]
    /\ up \in SUBSET Procs /\ cut \in SUBSET Sessions
    /\ faults \in 0..MaxFaults
    /\ \A s \in Sessions :
        /\ sessions[s].status = "waiting_user" => sessions[s].waiting = Question
        /\ sessions[s].status = "waiting_job" => sessions[s].waiting \in Things

(* visibility-measurement-v2.md:71, operations.md:129 and the test at      *)
(* hardening.test.ts:78: no earlier turn overwrites a cancellation with its own outcome, and no*)
(* turn of a cancelled session is begun, also not one that was loaded,     *)
(* answered or woken before.                                               *)
CancelHolds ==
    [][/\ \A s \in Sessions : sessions'[s].cancelled =>
             sessions'[s].status \notin {"idle", "done", "waiting_job"}
       /\ \A w \in Workers : slot[w].pc # "working" /\ slot'[w].pc = "working" =>
             ~sessions[slot[w].s].cancelled]_sessionVars

(* workbench.ts:1929: no session is shown running for ever.  This is true  *)
(* unless the statement was lost that would have queued its turn or ended  *)
(* it, or a cancellation was overtaken between its two statements.         *)
RunningEndsUnlessCut == \A s \in Sessions :
    sessions[s].status = "running" ~> (sessions[s].status # "running" \/ s \in cut)

(* Somebody will get to a running session: a turn that can be claimed or is*)
(* leased, a slot that has not yet left it, a request or a wake-up about to*)
(* queue its turn, or a sweep.  A slot that is leaving, and its turn, do   *)
(* not count.                                                              *)
Serving(s, i) ==
    /\ Open(jobs[s][i]) /\ (jobs[s][i].status = "pending" => jobs[s][i].attempts < MaxAttempts)
    /\ ~\E w \in Workers : /\ slot[w].pc # "idle" /\ slot[w].s = s /\ slot[w].turn = i
                           /\ Owns(w) /\ Leaving(w)
Served(s) == \/ Queueing(s)
             \/ \E i \in DOMAIN jobs[s] : Serving(s, i)
             \/ \E w \in Workers : slot[w].pc # "idle" /\ slot[w].s = s /\ ~Leaving(w)
             \/ \E p \in Procs : s \in sweep[p]

(* workbench.ts:1929 and agent-jobs.ts:122, in every state: no session is  *)
(* left running with nobody to end it, whatever its slots, requests and    *)
(* coordinators do to each other, unless a statement was lost.             *)
RunningIsServed == \A s \in Sessions :
    sessions[s].status = "running" => s \in cut \/ Served(s)

(* architecture.md:109: a session that waits for something that has ended  *)
(* is woken.                                                               *)
WaiterIsWoken == \A s \in Sessions : \A t \in Things :
    (sessions[s].status = "waiting_job" /\ sessions[s].waiting = t /\ thing[t] = "ended")
        ~> sessions[s].status # "waiting_job"

(* workbench.ts:1536: an answer continues the conversation as the result of*)
(* the call that asked, so that the structure stays whole: a turn that     *)
(* begins with an answer while the transcript ends in such a call knows    *)
(* the question.                                                           *)
AnswerIsToolResult == [][\A w \in Workers :
    (slot[w].pc = "starting" /\ slot'[w].pc = "working"
        /\ Turn(w).trigger = "answer" /\ sessions[slot[w].s].call)
    => slot[w].prior = Question]_sessionVars
=============================================================================
