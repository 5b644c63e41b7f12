-------------------------- MODULE MonitoringProofs --------------------------
(***************************************************************************)
(* Proofs about the runs of a plan and the end of a monitored project, for *)
(* any number of ticks, batches, edits and upsets.                         *)
(*                                                                         *)
(* The check that nothing runs any more is worth something because the     *)
(* project is locked before it: no batch is committed between the check    *)
(* and the end.  Locked says so.  A run that nobody interfered with is in  *)
(* the hands of one tick, which writes the plan once its batch is there.   *)
(* The next run is taken only then, so runs are counted by the batches     *)
(* that there are (Counted), and their numbers stay in range.              *)
(***************************************************************************)
EXTENDS Monitoring, FiniteSetTheorems, TLAPS

Plans == [enabled : BOOLEAN, date : {"none", "later", "due"}, ran : BOOLEAN, failed : BOOLEAN]
BatchRows == [status : {None, "queued", "drained", "closed"}, run : Nat]
TickRows == [pc : {"idle", "looking", "building", "committing", "writing"},
             write : {None, "postpone", "failure", "success"}, run : Nat]

Types ==
    /\ project \in {"active", "archived", "deleted"}
    /\ plan \in Plans
    /\ batch \in [Batches -> BatchRows]
    /\ tick \in [Ticks -> TickRows]
    /\ ending \in {"idle", "checking", "disabling"}
    /\ owed \in Nat

(* While a project is being ended, and after, no batch is being inserted;  *)
(* once it was found idle it stays so.                                     *)
Locked ==
    /\ Exclusive \/ Ended => ~Shared
    /\ ending = "disabling" \/ Ended => ~Busy
    /\ Ended => ~plan.enabled

IInv == Types /\ Locked

(* What an ended project promises about one step. *)
Frozen == Ended' => /\ \A b \in Batches : batch'[b].status # "queued"
                    /\ ~plan'.enabled
                    /\ Ended => UNCHANGED batch /\ plan'.failed = plan.failed

-----------------------------------------------------------------------------
LEMMA Initial == Init => IInv
  <1> SUFFICES ASSUME Init PROVE IInv
    OBVIOUS
  <1>1. Types
    BY DEF Init, Types, Plans, BatchRows, TickRows, IdleTick
  <1>2. Locked
    BY DEF Init, Locked, Exclusive, Ended
  <1> QED
    BY <1>1, <1>2 DEF IInv

LEMMA Dates == ASSUME Types, NEW enabled \in BOOLEAN, NEW changed \in BOOLEAN
               PROVE  NextDate(enabled, changed) \subseteq {"none", "later", "due"}
  BY DEF Types, Plans, NextDate, Recomputed

(* A tick that goes on, or ends. *)
LEMMA TickMoves ==
    ASSUME Types, NEW t \in Ticks
    PROVE  /\ \A w \in {"postpone", "failure", "success"} :
                Writes(t, w) => tick' \in [Ticks -> TickRows] /\ tick'[t].pc = "writing"
                                /\ \A u \in Ticks \ {t} : tick'[u] = tick[u]
           /\ \A pc \in {"building", "committing"} :
                tick' = [tick EXCEPT ![t].pc = pc] => tick' \in [Ticks -> TickRows]
           /\ tick' = [tick EXCEPT ![t] = IdleTick] => tick' \in [Ticks -> TickRows]
                                /\ \A u \in Ticks : tick'[u].pc = "committing" => tick[u].pc = "committing"
  <1>1. tick \in [Ticks -> TickRows] /\ tick[t] \in TickRows
    BY DEF Types
  <1>2. ASSUME NEW w \in {"postpone", "failure", "success"}, Writes(t, w)
        PROVE  tick' \in [Ticks -> TickRows] /\ tick'[t].pc = "writing"
               /\ \A u \in Ticks \ {t} : tick'[u] = tick[u]
    <2>1. tick' = [tick EXCEPT ![t] = [tick[t] EXCEPT !.pc = "writing", !.write = w]]
      BY <1>1, <1>2 DEF Writes
    <2>2. [tick[t] EXCEPT !.pc = "writing", !.write = w] \in TickRows
          /\ [tick[t] EXCEPT !.pc = "writing", !.write = w].pc = "writing"
      BY <1>1 DEF TickRows
    <2> QED
      BY <1>1, <2>1, <2>2
  <1>3. ASSUME NEW pc \in {"building", "committing"}, tick' = [tick EXCEPT ![t].pc = pc]
        PROVE  tick' \in [Ticks -> TickRows]
    BY <1>1, <1>3 DEF TickRows
  <1>4. ASSUME tick' = [tick EXCEPT ![t] = IdleTick]
        PROVE  tick' \in [Ticks -> TickRows]
               /\ \A u \in Ticks : tick'[u].pc = "committing" => tick[u].pc = "committing"
    <2>1. IdleTick \in TickRows /\ IdleTick.pc = "idle"
      BY DEF IdleTick, TickRows
    <2> QED
      BY <1>1, <1>4, <2>1
  <1> QED
    BY <1>2, <1>3, <1>4

(* A refused UPDATE of the plan changes one tick and nothing else. *)
LEMMA RefusedTypes == ASSUME Types, NEW t \in Ticks, Refused(t)
                      PROVE  tick' \in [Ticks -> TickRows] /\ (Shared' => Shared)
  <1>1. CASE Writes(t, "failure")
    BY <1>1, TickMoves DEF Shared
  <1>2. CASE tick' = [tick EXCEPT ![t] = IdleTick]
    BY <1>2, TickMoves DEF Shared
  <1> QED
    BY <1>1, <1>2 DEF Refused

-----------------------------------------------------------------------------
(* The steps of members, batches, ticks and of the end of the project.     *)
LEMMA MemberSteps ==
    ASSUME IInv, Save \/ StartByHand \/ DateComes PROVE IInv' /\ Frozen
  <1>1. CASE Save
    <2>1. plan' \in Plans
      BY <1>1, Dates, ZenonT(40) DEF Save, IInv, Types, Plans
    <2>2. Types'
      BY <1>1, <2>1 DEF Save, IInv, Types, history, counts
    <2> QED
      BY <1>1, <2>2 DEF Save, IInv, Locked, Frozen, Writable, Exclusive, Ended, Shared, Busy, history
  <1>2. CASE StartByHand
    <2>1. batch' \in [Batches -> BatchRows]
      BY <1>2 DEF StartByHand, IInv, Types, BatchRows, ByHand
    <2>2. Types'
      BY <1>2, <2>1 DEF StartByHand, IInv, Types, history
    <2> QED
      BY <1>2, <2>2 DEF StartByHand, IInv, Locked, Frozen, Writable, Exclusive, Ended, Shared, history
  <1>3. CASE DateComes
    <2>1. plan' \in Plans /\ plan'.enabled = plan.enabled /\ plan'.failed = plan.failed
      BY <1>3 DEF DateComes, IInv, Types, Plans
    <2>2. Types'
      BY <1>3, <2>1 DEF DateComes, IInv, Types, history
    <2> QED
      BY <1>3, <2>1, <2>2 DEF DateComes, IInv, Locked, Frozen, Exclusive, Ended, Shared, Busy
  <1> QED
    BY <1>1, <1>2, <1>3

LEMMA BatchSteps ==
    ASSUME IInv, NEW b \in Batches, JobsEnd(b) \/ Refresh(b) PROVE IInv' /\ Frozen
  <1>1. PICK s \in {"drained", "closed"} : batch' = [batch EXCEPT ![b].status = s]
    BY DEF JobsEnd, Refresh
  <1>2. batch' \in [Batches -> BatchRows]
        /\ \A c \in Batches : batch'[c].status = "queued" => batch[c].status = "queued"
    BY <1>1 DEF IInv, Types, BatchRows
  <1>3. Types' /\ Writable
    BY <1>2 DEF JobsEnd, Refresh, IInv, Types, history
  <1> QED
    BY <1>2, <1>3 DEF JobsEnd, Refresh, IInv, Locked, Frozen, Writable, Exclusive, Ended, Shared, Busy

LEMMA StrandsStep == ASSUME IInv, NEW b \in Batches, Strands(b) PROVE IInv' /\ Frozen
  BY DEF Strands, IInv, Types, Locked, Frozen, Exclusive, Ended, Shared, Busy, Closes, BatchRows

LEMMA CommitsStep == ASSUME IInv, NEW t \in Ticks, Commits(t) PROVE IInv' /\ Frozen
  <1>1. ~Ended /\ ~Exclusive
    BY DEF Commits, IInv, Locked, Shared
  <1>2. batch' \in [Batches -> BatchRows]
    BY DEF Commits, IInv, Types, BatchRows, TickRows
  <1>3. tick' \in [Ticks -> TickRows]
    BY TickMoves DEF Commits, IInv
  <1> QED
    BY <1>1, <1>2, <1>3 DEF Commits, IInv, Types, Locked, Frozen, Exclusive, Ended, history

LEMMA WritePlanStep == ASSUME IInv, NEW t \in Ticks, WritePlan(t) PROVE IInv' /\ Frozen
  <1>1. plan' \in Plans
    BY DEF WritePlan, Moved, IInv, Types, Plans
  <1>2. tick' \in [Ticks -> TickRows] /\ owed' \in Nat
    <2>1. tick' \in [Ticks -> TickRows]
      BY TickMoves DEF WritePlan, IInv
    <2> QED
      BY <2>1 DEF WritePlan, IInv, Types
  <1>3. ~Ended' /\ ~Exclusive'
    BY DEF WritePlan, Writable, Ended, Exclusive
  <1> QED
    BY <1>1, <1>2, <1>3 DEF WritePlan, IInv, Types, Locked, Frozen, Exclusive

(* The steps of a tick that only move it. *)
LEMMA TickOnly ==
    ASSUME IInv, tick' \in [Ticks -> TickRows],
           Shared' => Shared \/ Writable,
           UNCHANGED <<project, plan, batch, ending, owed>>
    PROVE  IInv' /\ Frozen
  BY DEF IInv, Types, Locked, Frozen, Writable, Exclusive, Ended, Busy

LEMMA TickSteps ==
    ASSUME IInv, NEW t \in Ticks, TickStep(t) \/ WriteFails(t) \/ Crash(t)
    PROVE  IInv' /\ Frozen
  <1>1. CASE Commits(t)
    BY <1>1, CommitsStep
  <1>2. CASE WritePlan(t)
    BY <1>2, WritePlanStep
  <1>3. CASE TickStarts(t)
    <2>1. tick' \in [Ticks -> TickRows] /\ (Shared' => Shared)
      BY <1>3 DEF TickStarts, IInv, Types, TickRows, Shared
    <2> QED
      BY <1>3, <2>1, TickOnly DEF TickStarts
  <1>4. CASE Looks(t)
    <2>1. tick' \in [Ticks -> TickRows]
      BY <1>4, TickMoves DEF Looks, IInv
    <2>2. Shared' => Shared
      BY <1>4 DEF Looks, Writes, IInv, Types, TickRows, Shared
    <2> QED
      BY <1>4, <2>1, <2>2, TickOnly DEF Looks, history
  <1>5. CASE Builds(t)
    <2>1. tick' \in [Ticks -> TickRows]
      BY <1>5, TickMoves DEF Builds, IInv
    <2>2. Shared' => Shared \/ Writable
      BY <1>5 DEF Builds, Writes, IInv, Types, TickRows, Shared
    <2> QED
      BY <1>5, <2>1, <2>2, TickOnly DEF Builds, history
  <1>6. CASE WriteWaits(t)
    <2>1. tick' \in [Ticks -> TickRows] /\ (Shared' => Shared)
      BY <1>6 DEF WriteWaits, IInv, Types, Shared
    <2> QED
      BY <1>6, <2>1, TickOnly DEF WriteWaits, history
  <1>7. CASE Refused(t) /\ UNCHANGED ending
    <2>1. tick' \in [Ticks -> TickRows] /\ (Shared' => Shared)
      BY <1>7, RefusedTypes DEF IInv
    <2> QED
      BY <1>7, <2>1, TickOnly DEF Refused
  <1>8. CASE Crash(t)
    <2>1. tick' \in [Ticks -> TickRows] /\ (Shared' => Shared)
      BY <1>8, TickMoves DEF Crash, IInv, Shared
    <2> QED
      BY <1>8, <2>1, TickOnly DEF Crash
  <1> QED
    BY <1>1, <1>2, <1>3, <1>4, <1>5, <1>6, <1>7, <1>8
    DEF TickStep, WriteFails, WriteRefused, AbortTick

LEMMA EndSteps == ASSUME IInv, EndLocks \/ EndStep PROVE IInv' /\ Frozen
  <1>1. CASE EndLocks
    BY <1>1 DEF EndLocks, Lockable, IInv, Types, Locked, Frozen, Exclusive, Ended, Shared, Busy,
       history
  <1>2. CASE EndChecks
    BY <1>2 DEF EndChecks, IInv, Types, Locked, Frozen, Exclusive, Ended, Shared, Busy, history
  <1>3. CASE EndCommits
    <2>1. ~Shared /\ ~Busy
      BY <1>3 DEF EndCommits, IInv, Locked, Exclusive
    <2>2. ~Shared' /\ ~Busy'
      BY <1>3, <2>1 DEF EndCommits, Shared, Busy
    <2>3. plan' \in Plans /\ ~plan'.enabled /\ (Ended => plan' = plan)
          /\ project' \in {"archived", "deleted"}
      BY <1>3 DEF EndCommits, IInv, Types, Plans, Locked, Ended
    <2>4. Types'
      BY <1>3, <2>3 DEF EndCommits, IInv, Types, history
    <2> QED
      BY <1>3, <2>2, <2>3, <2>4 DEF EndCommits, IInv, Locked, Frozen, Ended, Busy
  <1>4. CASE AbortEnd
    BY <1>4 DEF AbortEnd, Deadlocked, IInv, Types, Locked, Frozen, Exclusive, Ended, Shared, Busy,
       history
  <1> QED
    BY <1>1, <1>2, <1>3, <1>4 DEF EndStep

-----------------------------------------------------------------------------
LEMMA Step == IInv /\ [Next]_vars => IInv' /\ (Next => Frozen)
  <1> SUFFICES ASSUME IInv, [Next]_vars PROVE IInv' /\ (Next => Frozen)
    OBVIOUS
  <1>1. CASE Next
    BY <1>1, MemberSteps, BatchSteps, StrandsStep, TickSteps, EndSteps DEF Next
  <1>2. CASE UNCHANGED vars
    BY <1>2 DEF vars, IInv, Types, Locked, Frozen, Exclusive, Ended, Shared, Busy
  <1> QED
    BY <1>1, <1>2

LEMMA Inductive == Spec => []IInv
  <1>1. IInv /\ [Next]_vars => IInv'
    BY Step
  <1> QED
    BY Initial, <1>1, PTL DEF Spec

(* project-lifecycle.ts: a project that has ended has no open job and no   *)
(* plan, and no tick that was under way changes its batches or its plan.   *)
THEOREM EndedSafe == Spec => EndedIsFrozen
  <1> DEFINE Kept == Ended' => /\ \A b \in Batches : batch'[b].status # "queued"
                               /\ ~plan'.enabled
                               /\ Ended => UNCHANGED batch /\ plan'.failed = plan.failed
  <1>1. IInv /\ [Next]_vars => [Kept]_vars
    BY Step DEF Frozen
  <1>2. Spec => [][Kept]_vars
    BY <1>1, Inductive, PTL DEF Spec
  <1> QED
    BY <1>2 DEF EndedIsFrozen
-----------------------------------------------------------------------------
(* One run, one batch.  Among the runs nobody interfered with, a run is    *)
(* looked after by one tick; once its batch is there that tick carries the *)
(* write that ends the run, and no other write takes the run further.      *)
Busily(t, r) == tick[t].pc # "idle" /\ tick[t].run = r
Carries(t) == tick[t].pc = "writing" /\ tick[t].write = "success"

OneTick == \A r \in Nat \ cut, t, u \in Ticks : Busily(t, r) /\ Busily(u, r) => t = u
Carried == \A r \in Nat \ cut, t \in Ticks, b \in Batches :
    r # ByHand /\ Busily(t, r) /\ batch[b].run = r => Carries(t)
Unfinished == \A b \in Batches :
    batch[b].run = owed /\ owed \notin cut => \E t \in Ticks : Busily(t, owed)
OneBatch == \A r \in Nat \ cut, b, c \in Batches :
    r # ByHand /\ batch[b].run = r /\ batch[c].run = r => b = c
Started ==
    /\ owed # ByHand
    /\ \A b \in Batches : batch[b].run <= owed
    /\ \A t \in Ticks : tick[t].pc # "idle" => tick[t].run # ByHand /\ tick[t].run <= owed

Single == OneTick /\ Carried /\ Unfinished /\ OneBatch /\ Started

LEMMA InitSingle == Init => Single
  BY DEF Init, Single, OneTick, Carried, Unfinished, OneBatch, Started, Busily, IdleTick, ByHand

(* Steps that neither start a run nor touch a tick. *)
LEMMA SingleElsewhere ==
    ASSUME Types, Single, UNCHANGED <<tick, owed, cut>>,
           \A b \in Batches : batch'[b].run \in {batch[b].run, ByHand}
    PROVE  Single'
  <1>1. owed \in Nat /\ \A b \in Batches : batch[b].run \in Nat
    BY DEF Types, BatchRows
  <1>2. (OneTick /\ Carried)'
    BY DEF Single, OneTick, Carried, Busily, Carries, ByHand
  <1>3. Started'
    BY <1>1 DEF Single, Started, ByHand
  <1>4. (Unfinished /\ OneBatch)'
    BY DEF Single, Started, Unfinished, OneBatch, Busily, ByHand
  <1> QED
    BY <1>2, <1>3, <1>4 DEF Single

(* A tick that goes on with the run it has, before its batch is there. *)
LEMMA SingleGoesOn ==
    ASSUME Types, Single, NEW t \in Ticks, tick' \in [Ticks -> TickRows],
           tick[t].pc # "idle", tick'[t].pc # "idle", tick'[t].run = tick[t].run,
           \A u \in Ticks \ {t} : tick'[u] = tick[u],
           UNCHANGED <<batch, owed>>, cut \subseteq cut',
           Carries(t) => Carries(t)' \/ tick[t].run \in cut'
    PROVE  Single'
  <1>1. \A u \in Ticks, r \in Nat : Busily(u, r)' <=> Busily(u, r)
    BY DEF Busily
  <1>2. OneTick' /\ OneBatch' /\ Started'
    BY <1>1 DEF Single, OneTick, OneBatch, Started
  <1>3. Carried'
    BY <1>1 DEF Single, Carried, Busily, Carries
  <1>4. Unfinished'
    BY <1>1 DEF Single, Unfinished, Types
  <1> QED
    BY <1>2, <1>3, <1>4 DEF Single

(* A tick that ends without the write that ends its run. *)
LEMMA SingleEnds ==
    ASSUME Types, Single, NEW t \in Ticks, tick' = [tick EXCEPT ![t] = IdleTick],
           UNCHANGED <<batch, owed>>, cut \subseteq cut',
           tick[t].pc # "idle", Carries(t) => tick[t].run \in cut'
    PROVE  Single'
  <1>1. tick'[t].pc = "idle" /\ \A u \in Ticks \ {t} : tick'[u] = tick[u]
    BY DEF IdleTick, Types
  <1>2. \A u \in Ticks, r \in Nat : Busily(u, r)' => Busily(u, r)
    BY <1>1 DEF Busily
  <1>3. OneTick' /\ OneBatch' /\ Started'
    BY <1>1, <1>2 DEF Single, OneTick, OneBatch, Started
  <1>4. Carried'
    BY <1>1, <1>2 DEF Single, Carried, Busily, Carries
  <1>5. Unfinished'
    <2> SUFFICES ASSUME NEW b \in Batches, batch[b].run = owed, owed \notin cut'
                 PROVE  \E u \in Ticks : Busily(u, owed)'
      BY DEF Unfinished, Busily
    <2>1. PICK u \in Ticks : Busily(u, owed)
      BY DEF Single, Unfinished
    <2>2. Carries(u)
      BY <2>1 DEF Single, Carried, Started, Types
    <2>3. u # t
      BY <2>1, <2>2 DEF Busily
    <2> QED
      BY <1>1, <2>1, <2>3 DEF Busily
  <1> QED
    BY <1>3, <1>4, <1>5 DEF Single

LEMMA SingleStarts == ASSUME Types, Single, NEW t \in Ticks, TickStarts(t) PROVE Single'
  <1>1. /\ tick'[t].pc = "looking" /\ tick'[t].run = owed
        /\ \A u \in Ticks \ {t} : tick'[u] = tick[u]
        /\ tick[t].pc = "idle" /\ cut \subseteq cut' /\ UNCHANGED <<batch, owed>>
    BY DEF TickStarts, Types, Interfered
  <1>2. owed \notin cut' => ~\E u \in Ticks : Busily(u, owed)
    BY DEF TickStarts, Busily, Interfered
  <1>3. OneTick'
    BY <1>1, <1>2 DEF Single, OneTick, Busily
  <1>4. Carried'
    <2> SUFFICES ASSUME NEW r \in Nat \ cut', NEW u \in Ticks, NEW b \in Batches,
                        r # ByHand, Busily(u, r)', batch[b].run = r
                 PROVE  Carries(u)'
      BY <1>1 DEF Carried
    <2>1. CASE u = t
      BY <1>1, <1>2, <2>1 DEF Single, Unfinished, Busily
    <2>2. CASE u # t
      BY <1>1, <2>2 DEF Single, Carried, Busily, Carries
    <2> QED
      BY <2>1, <2>2
  <1>5. Unfinished' /\ OneBatch'
    BY <1>1 DEF Single, Unfinished, OneBatch, Busily
  <1>6. Started'
    BY <1>1 DEF Single, Started, Types
  <1> QED
    BY <1>3, <1>4, <1>5, <1>6 DEF Single

LEMMA SingleCommits == ASSUME Types, Single, NEW t \in Ticks, Commits(t) PROVE Single'
  <1> DEFINE run == tick[t].run
  <1>1. /\ tick' \in [Ticks -> TickRows] /\ Carries(t)' /\ tick'[t].run = run
        /\ \A u \in Ticks \ {t} : tick'[u] = tick[u]
    <2>1. tick' \in [Ticks -> TickRows] /\ \A u \in Ticks \ {t} : tick'[u] = tick[u]
      BY TickMoves DEF Commits
    <2>2. Carries(t)' /\ tick'[t].run = run
      BY DEF Commits, Writes, Types, TickRows, Carries
    <2> QED
      BY <2>1, <2>2
  <1>2. run \in Nat /\ run # ByHand /\ run <= owed /\ Busily(t, run) /\ ~Carries(t)
    BY DEF Commits, Types, TickRows, Single, Started, Busily, Carries
  <1>3. UNCHANGED <<owed, cut>> /\ owed \in Nat
    BY DEF Commits, history, Types
  <1>4. \A u \in Ticks, r \in Nat : Busily(u, r)' <=> Busily(u, r)
    BY <1>1, <1>2 DEF Busily, Carries
  <1>5. \A b \in Batches : /\ b = NewBatch => batch'[b].run = run
                           /\ b # NewBatch => batch'[b] = batch[b]
    BY DEF Commits, Types
  <1>6. run \notin cut => \A b \in Batches : batch[b].run # run
    BY <1>2 DEF Single, Carried
  <1>7. OneTick'
    BY <1>3, <1>4 DEF Single, OneTick
  <1>8. Carried'
    <2> SUFFICES ASSUME NEW r \in Nat \ cut, NEW u \in Ticks, NEW b \in Batches,
                        r # ByHand, Busily(u, r)', batch'[b].run = r
                 PROVE  Carries(u)'
      BY <1>3 DEF Carried
    <2>1. CASE u = t
      BY <1>1, <2>1
    <2>2. CASE u # t
      <3>1. r # run
        BY <1>2, <1>4, <2>2 DEF Single, OneTick
      <3>2. batch[b].run = r
        BY <1>5, <3>1
      <3> QED
        BY <1>1, <1>4, <2>2, <3>2 DEF Single, Carried, Carries
    <2> QED
      BY <2>1, <2>2
  <1>9. Unfinished'
    BY <1>2, <1>3, <1>4, <1>5 DEF Single, Unfinished
  <1>10. OneBatch'
    BY <1>3, <1>5, <1>6 DEF Single, OneBatch
  <1>11. Started'
    <2>1. \A b \in Batches : batch'[b].run <= owed
      BY <1>2, <1>5 DEF Single, Started
    <2>2. \A u \in Ticks : tick'[u].pc # "idle" => tick'[u].run # ByHand /\ tick'[u].run <= owed
      BY <1>1, <1>2 DEF Single, Started
    <2> QED
      BY <1>3, <2>1, <2>2 DEF Single, Started
  <1> QED
    BY <1>7, <1>8, <1>9, <1>10, <1>11 DEF Single

LEMMA SingleWrites == ASSUME Types, Single, NEW t \in Ticks, WritePlan(t) PROVE Single'
  <1>1. CASE tick[t].write # "success"
    <2>1. ~Carries(t) /\ UNCHANGED <<batch, owed, cut>> /\ tick[t].pc # "idle"
      BY <1>1 DEF WritePlan, Carries
    <2> QED
      BY <2>1, SingleEnds DEF WritePlan
  <1>2. CASE tick[t].write = "success"
    <2>1. owed' = owed + 1 /\ owed \in Nat /\ UNCHANGED <<batch, cut>>
      BY <1>2 DEF WritePlan, Moved, Types, Plans
    <2>2. tick'[t].pc = "idle" /\ \A u \in Ticks \ {t} : tick'[u] = tick[u]
      BY DEF WritePlan, IdleTick, Types
    <2>3. \A u \in Ticks, r \in Nat : Busily(u, r)' => Busily(u, r)
      BY <2>2 DEF Busily
    <2>4. OneTick' /\ OneBatch'
      BY <2>1, <2>3 DEF Single, OneTick, OneBatch
    <2>5. Carried'
      BY <2>1, <2>2, <2>3 DEF Single, Carried, Busily, Carries
    <2>6. \A b \in Batches : batch[b].run \in Nat /\ batch[b].run <= owed
      BY DEF Single, Started, Types, BatchRows
    <2>7. Unfinished'
      BY <2>1, <2>6 DEF Unfinished
    <2>8. \A u \in Ticks : tick[u].run \in Nat
      BY DEF Types, TickRows
    <2>9. Started'
      BY <2>1, <2>2, <2>6, <2>8 DEF Single, Started, ByHand
    <2> QED
      BY <2>4, <2>5, <2>7, <2>9 DEF Single
  <1> QED
    BY <1>1, <1>2

LEMMA SingleRefused == ASSUME Types, Single, NEW t \in Ticks, Refused(t), tick[t].pc = "writing"
                       PROVE  Single'
  <1>1. CASE tick[t].write = "success"
    <2>1. tick' \in [Ticks -> TickRows] /\ tick'[t].pc = "writing"
          /\ \A u \in Ticks \ {t} : tick'[u] = tick[u]
      BY <1>1, TickMoves DEF Refused
    <2>2. tick'[t].run = tick[t].run
      BY <1>1 DEF Refused, Writes, Types, TickRows
    <2> QED
      BY <1>1, <2>1, <2>2, SingleGoesOn DEF Refused, Interfered
  <1>2. CASE tick[t].write # "success"
    BY <1>2, SingleEnds DEF Refused, Carries
  <1> QED
    BY <1>1, <1>2

(* Who holds the row of the plan is at the write of it. *)
Holder == \A t \in Ticks : row = t => tick[t].pc = "writing"

LEMMA HolderNext == ASSUME Types, Holder, [Next]_vars PROVE Holder'
  <1>1. CASE UNCHANGED <<row, tick>>
    BY <1>1 DEF Holder
  <1>2. ASSUME NEW t \in Ticks, row' = row, tick[t].pc # "writing",
               \A u \in Ticks \ {t} : tick'[u] = tick[u]
        PROVE  Holder'
    BY <1>2 DEF Holder
  <1>3. ASSUME NEW t \in Ticks, Released(t), \A u \in Ticks \ {t} : tick'[u] = tick[u]
        PROVE  Holder'
    BY <1>3, MonitoringAssumption DEF Holder, Released
  <1>4. ASSUME NEW t \in Ticks, TickStep(t) \/ WriteFails(t) \/ Crash(t) PROVE Holder'
    <2>1. CASE TickStarts(t) \/ Looks(t) \/ Builds(t) \/ Commits(t)
      BY <1>2, <2>1 DEF TickStarts, Looks, Builds, Commits, Writes, Types
    <2>2. CASE WriteWaits(t)
      BY <2>2 DEF WriteWaits, Holder
    <2>3. CASE WritePlan(t) \/ Crash(t)
      BY <1>3, <2>3 DEF WritePlan, Crash, Types
    <2>4. CASE Refused(t)
      BY <1>3, <2>4 DEF Refused, Writes, Types
    <2> QED
      BY <1>4, <2>1, <2>2, <2>3, <2>4 DEF TickStep, WriteFails, WriteRefused, AbortTick
  <1> QED
    BY <1>1, <1>4 DEF Next, Save, StartByHand, DateComes, JobsEnd, Refresh, Strands,
                      EndLocks, EndStep, EndChecks, EndCommits, AbortEnd, vars

LEMMA SingleTick ==
    ASSUME Types, Single, Holder, NEW t \in Ticks, TickStep(t) \/ WriteFails(t) \/ Crash(t)
    PROVE  Single'
  <1>1. CASE TickStarts(t)
    BY <1>1, SingleStarts
  <1>2. CASE Commits(t)
    BY <1>2, SingleCommits
  <1>3. CASE WritePlan(t)
    BY <1>3, SingleWrites
  <1>4. CASE Refused(t) /\ tick[t].pc = "writing"
    BY <1>4, SingleRefused
  <1>5. ASSUME NEW pc \in {"building", "committing"}, tick' = [tick EXCEPT ![t].pc = pc],
               tick[t].pc \in {"looking", "building"}, UNCHANGED <<batch, owed, cut>>
        PROVE  Single'
    <2>1. tick' \in [Ticks -> TickRows]
      BY <1>5, TickMoves
    <2>2. /\ tick[t].pc # "idle" /\ tick'[t].pc # "idle" /\ tick'[t].run = tick[t].run
          /\ ~Carries(t) /\ \A u \in Ticks \ {t} : tick'[u] = tick[u]
      BY <1>5 DEF Types, TickRows, Carries
    <2> QED
      BY <1>5, <2>1, <2>2, SingleGoesOn
  <1>6. ASSUME NEW w \in {"postpone", "failure"}, Writes(t, w),
               tick[t].pc \in {"looking", "building"}, UNCHANGED <<batch, owed, cut>>
        PROVE  Single'
    <2>1. tick' \in [Ticks -> TickRows] /\ tick'[t].pc = "writing"
          /\ \A u \in Ticks \ {t} : tick'[u] = tick[u]
      BY <1>6, TickMoves
    <2>2. tick'[t].run = tick[t].run /\ ~Carries(t) /\ tick[t].pc # "idle"
      BY <1>6 DEF Writes, Types, TickRows, Carries
    <2> QED
      BY <1>6, <2>1, <2>2, SingleGoesOn
  <1>7. CASE Looks(t)
    BY <1>5, <1>6, <1>7 DEF Looks, history
  <1>8. CASE Builds(t)
    BY <1>5, <1>6, <1>8 DEF Builds, history
  <1>9. CASE WriteWaits(t)
    BY <1>9, SingleElsewhere DEF WriteWaits, history
  <1>10. CASE Crash(t)
    BY <1>10, SingleEnds DEF Crash, Interfered, Carries
  <1>11. CASE AbortTick(t)
    BY <1>11, SingleRefused DEF AbortTick, Holder
  <1> QED
    BY <1>1, <1>2, <1>3, <1>4, <1>7, <1>8, <1>9, <1>10, <1>11 DEF TickStep, WriteFails, WriteRefused

LEMMA SingleNext == ASSUME Types, Single, Holder, [Next]_vars PROVE Single'
  <1>1. CASE Save \/ DateComes \/ EndLocks \/ EndStep
    BY <1>1, SingleElsewhere
    DEF Save, DateComes, EndLocks, EndStep, EndChecks, EndCommits, AbortEnd, history
  <1>2. CASE StartByHand
    BY <1>2, SingleElsewhere DEF StartByHand, history, Types
  <1>3. ASSUME NEW b \in Batches, JobsEnd(b) \/ Refresh(b) PROVE Single'
    <2>1. PICK s \in {"drained", "closed"} : batch' = [batch EXCEPT ![b].status = s]
      BY <1>3 DEF JobsEnd, Refresh
    <2>2. \A c \in Batches : batch'[c].run = batch[c].run
      BY <2>1 DEF Types, BatchRows
    <2> QED
      BY <1>3, <2>2, SingleElsewhere DEF JobsEnd, Refresh, history
  <1>4. CASE UNCHANGED vars
    BY <1>4, SingleElsewhere DEF vars
  <1>6. ASSUME NEW b \in Batches, Strands(b) PROVE Single'
    BY <1>6, SingleElsewhere DEF Strands
  <1>5. CASE \E t \in Ticks : TickStep(t) \/ WriteFails(t) \/ Crash(t)
    BY <1>5, SingleTick
  <1> QED
    BY <1>1, <1>2, <1>3, <1>4, <1>5, <1>6 DEF Next

(* service.ts:1037-1060: a run of the plan that no second tick took up and *)
(* whose UPDATE was not lost has started at most one batch.                *)
THEOREM OneBatchSafe == Spec => []OneBatchPerRun
  <1> DEFINE Inv == Single /\ Holder
  <1>1. Inv /\ IInv /\ [Next]_vars => Inv'
    BY SingleNext, HolderNext DEF IInv
  <1>2. Inv => OneBatchPerRun
    <2> SUFFICES ASSUME Single, NEW r \in Runs \ cut
                 PROVE  Cardinality({b \in Batches : batch[b].run = r}) <= 1
      BY DEF OneBatchPerRun
    <2> DEFINE S == {b \in Batches : batch[b].run = r}
    <2>1. r \in Nat \ cut /\ r # ByHand
      BY MonitoringAssumption, FS_CardinalityType DEF Runs, ByHand
    <2>2. \A b, c \in S : b = c
      BY <2>1 DEF Single, OneBatch
    <2>3. CASE S = {}
      BY <2>3, FS_EmptySet
    <2>4. CASE S # {}
      <3>1. PICK b \in S : TRUE
        BY <2>4
      <3>2. S = {b}
        BY <2>2
      <3>3. Cardinality(S) = 1
        BY <3>2, FS_Singleton
      <3> QED
        BY <3>3
    <2> QED
      BY <2>3, <2>4
  <1>3. Init => Inv
    BY InitSingle, MonitoringAssumption DEF Init, Holder
  <1> HIDE DEF Inv
  <1> QED
    BY <1>1, <1>2, <1>3, Inductive, PTL DEF Spec

-----------------------------------------------------------------------------
(***************************************************************************)
(* Types.  The run that is owed is a number of Runs because it moves on    *)
(* only with a batch: each batch a tick has committed is counted once, by  *)
(* the tick that carries its write or by the run that was written.         *)
(***************************************************************************)
Carriers == {t \in Ticks : Carries(t)}
Used == {b \in Batches : ~Free(b)}

Counted ==
    /\ owed \in Nat /\ owed # 0
    /\ IsFiniteSet(Carriers)
    /\ owed + Cardinality(Carriers) <= Cardinality(Used) + 1
PlanRanged == plan.enabled => plan.date # "none"
BatchesRanged == \A b \in Batches : batch[b].run \in Runs \cup {ByHand}
TicksRanged == \A t \in Ticks : /\ tick[t].run \in Runs \cup {0}
                                /\ tick[t].pc # "idle" => tick[t].run \in Runs
CutRanged == cut \subseteq Runs
BoundsRanged == /\ edits \in 0..MaxEdits /\ upsets \in 0..MaxUpsets
                /\ row \in Ticks \cup {None} /\ stranded \subseteq Batches

Ranged == /\ Counted /\ PlanRanged /\ BatchesRanged /\ TicksRanged
          /\ CutRanged /\ BoundsRanged

LEMMA UsedFinite ==
    /\ IsFiniteSet(Used) /\ Cardinality(Used) \in Nat
    /\ Cardinality(Batches) \in Nat /\ Cardinality(Used) <= Cardinality(Batches)
  <1>1. Used \in SUBSET Batches
    BY DEF Used
  <1> QED
    BY <1>1, MonitoringAssumption, FS_Subset, FS_CardinalityType

LEMMA OwedIsRun == Counted => owed \in Runs
  <1> SUFFICES ASSUME Counted PROVE owed \in Runs
    OBVIOUS
  <1>1. Cardinality(Carriers) \in Nat
    BY FS_CardinalityType DEF Counted
  <1> QED
    BY <1>1, UsedFinite DEF Counted, Runs

LEMMA RangedInitial == Init => Ranged
  <1> SUFFICES ASSUME Init PROVE Ranged
    OBVIOUS
  <1>1. Counted
    <2>1. Carriers = {}
      BY DEF Init, Carriers, Carries, IdleTick
    <2>2. IsFiniteSet(Carriers) /\ Cardinality(Carriers) = 0
      BY <2>1, FS_EmptySet
    <2> QED
      BY <2>2, UsedFinite DEF Init, Counted
  <1>2. PlanRanged
    BY DEF Init, PlanRanged
  <1>3. BatchesRanged
    BY DEF Init, BatchesRanged, ByHand
  <1>4. TicksRanged
    BY DEF Init, TicksRanged, IdleTick
  <1>5. CutRanged
    BY DEF Init, CutRanged
  <1>6. BoundsRanged
    BY MonitoringAssumption DEF Init, BoundsRanged
  <1> QED
    BY <1>1, <1>2, <1>3, <1>4, <1>5, <1>6 DEF Ranged

(* Batches stay in use, and nobody new carries a write. *)
LEMMA CountedStays ==
    ASSUME Counted, owed' = owed, Carriers' \subseteq Carriers, Used \subseteq Used'
    PROVE  Counted'
  <1>1. IsFiniteSet(Carriers') /\ Cardinality(Carriers') <= Cardinality(Carriers)
    BY FS_Subset DEF Counted
  <1>2. Cardinality(Carriers') \in Nat /\ Cardinality(Carriers) \in Nat
    BY <1>1, FS_CardinalityType DEF Counted
  <1>3. IsFiniteSet(Used')
    <2>1. Used' \in SUBSET Batches
      BY DEF Used
    <2> QED
      BY <2>1, MonitoringAssumption, FS_Subset
  <1>4. Cardinality(Used) <= Cardinality(Used') /\ Cardinality(Used') \in Nat
    BY <1>3, FS_Subset, FS_CardinalityType
  <1> QED
    BY <1>1, <1>2, <1>4, UsedFinite DEF Counted

LEMMA UsedWritten ==
    ASSUME Types, \E b \in Batches : Free(b), NEW run,
           batch' = [batch EXCEPT ![NewBatch] = [status |-> "queued", run |-> run]]
    PROVE  NewBatch \in Batches /\ NewBatch \notin Used /\ Used' = Used \cup {NewBatch}
  <1>1. NewBatch \in Batches /\ Free(NewBatch)
    BY DEF NewBatch
  <1>2. \A b \in Batches : batch'[b].status = IF b = NewBatch THEN "queued" ELSE batch[b].status
    BY DEF Types
  <1> HIDE DEF NewBatch
  <1> QED
    BY <1>1, <1>2, MonitoringAssumption DEF Used, Free

LEMMA CountedCommits == ASSUME Types, Counted, NEW t \in Ticks, Commits(t) PROVE Counted'
  <1>1. /\ NewBatch \in Batches /\ NewBatch \notin Used
        /\ Used' = Used \cup {NewBatch}
    BY UsedWritten DEF Commits
  <1>2. Carries(t)' /\ ~Carries(t) /\ \A u \in Ticks \ {t} : tick'[u] = tick[u]
    BY DEF Commits, Writes, Types, TickRows, Carries
  <1>3. Carriers' = Carriers \cup {t} /\ t \notin Carriers
    BY <1>2 DEF Carriers, Carries
  <1>4. IsFiniteSet(Carriers') /\ Cardinality(Carriers') = Cardinality(Carriers) + 1
    BY <1>3, FS_AddElement DEF Counted
  <1>5. Cardinality(Used') = Cardinality(Used) + 1
    BY <1>1, UsedFinite, FS_AddElement
  <1>6. Cardinality(Carriers) \in Nat /\ owed' = owed
    BY FS_CardinalityType DEF Counted, Commits, history
  <1> QED
    BY <1>4, <1>5, <1>6, UsedFinite DEF Counted

LEMMA CountedWrites == ASSUME Types, Counted, NEW t \in Ticks, WritePlan(t) PROVE Counted'
  <1>1. ~Carries(t)' /\ Used' = Used /\ \A u \in Ticks \ {t} : tick'[u] = tick[u]
    BY DEF WritePlan, IdleTick, Types, Carries, Used, Free
  <1>2. CASE owed' = owed
    <2>1. Carriers' \subseteq Carriers
      BY <1>1 DEF Carriers, Carries
    <2> QED
      BY <1>1, <1>2, <2>1, CountedStays
  <1>3. CASE tick[t].write = "success" /\ owed' = owed + 1
    <2>1. t \in Carriers /\ Carriers' = Carriers \ {t}
      BY <1>1, <1>3 DEF WritePlan, Carriers, Carries
    <2>2. /\ IsFiniteSet(Carriers') /\ Cardinality(Carriers') = Cardinality(Carriers) - 1
          /\ Cardinality(Carriers) \in Nat
      BY <2>1, FS_RemoveElement, FS_CardinalityType DEF Counted
    <2> QED
      BY <1>1, <1>3, <2>2, UsedFinite DEF Counted
  <1> QED
    BY <1>2, <1>3 DEF WritePlan

LEMMA CountedRefused ==
    ASSUME Types, Counted, NEW t \in Ticks, Refused(t) PROVE Counted'
  <1>1. Used' = Used /\ owed' = owed
    BY DEF Refused, Used, Free
  <1>2. ~Carries(t)' /\ \A u \in Ticks \ {t} : tick'[u] = tick[u]
    BY DEF Refused, Writes, Types, TickRows, IdleTick, Carries
  <1>3. Carriers' \subseteq Carriers
    BY <1>2 DEF Carriers, Carries
  <1> QED
    BY <1>1, <1>3, CountedStays

LEMMA CountedStep == ASSUME Types, Counted, [Next]_vars PROVE Counted'
  <1>1. ASSUME UNCHANGED <<tick, owed>>, Used \subseteq Used' PROVE Counted'
    BY <1>1, CountedStays DEF Carriers, Carries
  <1>2. ASSUME UNCHANGED <<tick, owed, batch>> PROVE Counted'
    BY <1>1, <1>2 DEF Used, Free
  <1>3. CASE StartByHand
    BY <1>1, <1>3, UsedWritten DEF StartByHand, history
  <1>4. ASSUME NEW b \in Batches, JobsEnd(b) \/ Refresh(b) PROVE Counted'
    <2>1. PICK s \in {"drained", "closed"} : batch' = [batch EXCEPT ![b].status = s]
      BY <1>4 DEF JobsEnd, Refresh
    <2>2. \A c \in Batches : batch'[c].status \in {batch[c].status, "drained", "closed"}
      BY <2>1 DEF Types, BatchRows
    <2>3. Used \subseteq Used'
      BY <2>2, MonitoringAssumption DEF Used, Free
    <2> QED
      BY <1>1, <1>4, <2>3 DEF JobsEnd, Refresh, history
  <1>5. ASSUME NEW t \in Ticks, ~Carries(t)', \A u \in Ticks \ {t} : tick'[u] = tick[u],
               UNCHANGED <<batch, owed>>
        PROVE  Counted'
    <2>1. Carriers' \subseteq Carriers /\ Used' = Used
      BY <1>5 DEF Carriers, Carries, Used, Free
    <2> QED
      BY <1>5, <2>1, CountedStays
  <1>6. ASSUME NEW t \in Ticks, TickStarts(t) \/ Looks(t) \/ Builds(t) \/ Crash(t) PROVE Counted'
    <2>1. ~Carries(t)' /\ \A u \in Ticks \ {t} : tick'[u] = tick[u]
      BY <1>6 DEF TickStarts, Looks, Builds, Crash, Writes, Types, TickRows, IdleTick, Carries
    <2> QED
      BY <1>5, <1>6, <2>1 DEF TickStarts, Looks, Builds, Crash, history
  <1>7. ASSUME NEW t \in Ticks, WriteWaits(t) PROVE Counted'
    BY <1>2, <1>7 DEF WriteWaits, history
  <1>8. CASE Save \/ DateComes \/ EndLocks \/ EndStep
    BY <1>2, <1>8 DEF Save, DateComes, EndLocks, EndStep, EndChecks, EndCommits, AbortEnd, history
  <1>9. CASE UNCHANGED vars
    BY <1>2, <1>9 DEF vars
  <1>10. ASSUME NEW b \in Batches, Strands(b) PROVE Counted'
    BY <1>2, <1>10 DEF Strands
  <1> QED
    BY <1>3, <1>4, <1>6, <1>7, <1>8, <1>9, <1>10, CountedCommits, CountedWrites, CountedRefused
    DEF Next, TickStep, WriteRefused, AbortTick, WriteFails

LEMMA PlanRangedStep == ASSUME Types, PlanRanged, [Next]_vars PROVE PlanRanged'
  <1>1. CASE Save
    <2>1. PICK enabled \in BOOLEAN, changed \in BOOLEAN : \E date \in NextDate(enabled, changed) :
            plan' = [plan EXCEPT !.enabled = enabled, !.date = date, !.failed = FALSE]
      BY <1>1 DEF Save
    <2>2. PICK date \in NextDate(enabled, changed) :
            plan' = [plan EXCEPT !.enabled = enabled, !.date = date, !.failed = FALSE]
      BY <2>1
    <2>3. enabled => date # "none"
      BY <2>2 DEF NextDate, Recomputed, PlanRanged
    <2>4. plan'.enabled = enabled /\ plan'.date = date
      BY <2>2 DEF Types, Plans
    <2> QED
      BY <2>3, <2>4 DEF PlanRanged
  <1>2. CASE DateComes
    BY <1>2 DEF DateComes, Types, Plans, PlanRanged
  <1>3. ASSUME NEW t \in Ticks, WritePlan(t) PROVE PlanRanged'
    BY <1>3 DEF WritePlan, Moved, Types, Plans, PlanRanged
  <1>4. CASE EndStep
    BY <1>4 DEF EndStep, EndChecks, EndCommits, AbortEnd, Types, Plans, PlanRanged
  <1>5. CASE plan' = plan
    BY <1>5 DEF PlanRanged
  <1> QED
    BY <1>1, <1>2, <1>3, <1>4, <1>5 DEF Next, StartByHand, JobsEnd, Refresh, Strands, TickStep,
       TickStarts, Looks, Builds, Commits, WriteWaits, WriteRefused, AbortTick, WriteFails, Crash,
       Refused, EndLocks, vars

LEMMA BatchesRangedStep ==
    ASSUME Types, TicksRanged, BatchesRanged, [Next]_vars PROVE BatchesRanged'
  <1>1. ASSUME NEW run \in Runs \cup {ByHand},
               batch' = [batch EXCEPT ![NewBatch] = [status |-> "queued", run |-> run]]
        PROVE  BatchesRanged'
    BY <1>1 DEF Types, BatchesRanged
  <1>2. CASE StartByHand
    BY <1>1, <1>2 DEF StartByHand
  <1>3. ASSUME NEW t \in Ticks, Commits(t) PROVE BatchesRanged'
    BY <1>1, <1>3 DEF Commits, TicksRanged
  <1>4. ASSUME NEW b \in Batches, JobsEnd(b) \/ Refresh(b) PROVE BatchesRanged'
    <2>1. PICK s \in {"drained", "closed"} : batch' = [batch EXCEPT ![b].status = s]
      BY <1>4 DEF JobsEnd, Refresh
    <2> QED
      BY <2>1 DEF Types, BatchRows, BatchesRanged
  <1>5. CASE batch' = batch
    BY <1>5 DEF BatchesRanged
  <1> QED
    BY <1>2, <1>3, <1>4, <1>5 DEF Next, Save, DateComes, Strands, TickStep, TickStarts,
       Looks, Builds, WritePlan, WriteWaits, WriteRefused, AbortTick, WriteFails, Crash, Refused,
       EndLocks, EndStep, EndChecks, EndCommits, AbortEnd, vars

LEMMA TicksRangedStep ==
    ASSUME Types, Counted, TicksRanged, Holder, [Next]_vars PROVE TicksRanged'
  <1>1. ASSUME NEW t \in Ticks, tick[t].pc # "idle",
               \/ \E what \in {"postpone", "failure", "success"} : Writes(t, what)
               \/ \E pc \in {"building", "committing"} : tick' = [tick EXCEPT ![t].pc = pc]
               \/ tick' = [tick EXCEPT ![t] = IdleTick]
        PROVE  TicksRanged'
    <2>1. tick[t] \in TickRows /\ tick \in [Ticks -> TickRows]
      BY DEF Types
    <2>2. /\ \A u \in Ticks \ {t} : tick'[u] = tick[u]
          /\ tick'[t].run = tick[t].run \/ tick'[t] = IdleTick
      <3>1. CASE tick' = [tick EXCEPT ![t] = IdleTick]
        BY <2>1, <3>1
      <3>2. ASSUME NEW pc \in {"building", "committing"}, tick' = [tick EXCEPT ![t].pc = pc]
            PROVE  <2>2!1 /\ tick'[t].run = tick[t].run
        BY <2>1, <3>2 DEF TickRows
      <3>3. ASSUME NEW what \in {"postpone", "failure", "success"}, Writes(t, what)
            PROVE  <2>2!1 /\ tick'[t].run = tick[t].run
        BY <2>1, <3>3 DEF TickRows, Writes
      <3> QED
        BY <1>1, <3>1, <3>2, <3>3
    <2> QED
      BY <1>1, <2>2 DEF TicksRanged, IdleTick
  <1>2. ASSUME NEW t \in Ticks, TickStarts(t) PROVE TicksRanged'
    BY <1>2, OwedIsRun DEF TickStarts, Types, TicksRanged
  <1>3. ASSUME NEW t \in Ticks, Refused(t), tick[t].pc # "idle" PROVE TicksRanged'
    BY <1>1, <1>3 DEF Refused
  <1>4. ASSUME NEW t \in Ticks,
               WriteRefused(t) \/ AbortTick(t) \/ WriteFails(t)
        PROVE  TicksRanged'
    BY <1>3, <1>4 DEF WriteRefused, AbortTick, WriteFails, Holder
  <1>5. ASSUME NEW t \in Ticks, Looks(t) \/ Builds(t) \/ Commits(t) \/ WritePlan(t) \/ Crash(t)
        PROVE  TicksRanged'
    BY <1>1, <1>5 DEF Looks, Builds, Commits, WritePlan, Crash
  <1>6. CASE tick' = tick
    BY <1>6 DEF TicksRanged
  <1> QED
    BY <1>2, <1>4, <1>5, <1>6 DEF Next, Save, StartByHand, DateComes, JobsEnd, Refresh, Strands,
       TickStep, WriteWaits, EndLocks, EndStep, EndChecks, EndCommits, AbortEnd, vars

LEMMA CutRangedStep ==
    ASSUME Counted, TicksRanged, CutRanged, Holder, [Next]_vars PROVE CutRanged'
  <1>1. ASSUME NEW r \in Runs, Interfered(r) \/ cut' = cut PROVE CutRanged'
    BY <1>1 DEF CutRanged, Interfered
  <1>2. ASSUME NEW t \in Ticks, TickStarts(t) PROVE CutRanged'
    BY <1>1, <1>2, OwedIsRun DEF TickStarts
  <1>3. ASSUME NEW t \in Ticks,
               WriteRefused(t) \/ AbortTick(t) \/ WriteFails(t) \/ Crash(t)
        PROVE  CutRanged'
    <2>1. tick[t].run \in Runs
      BY <1>3 DEF WriteRefused, AbortTick, WriteFails, Crash, Holder, TicksRanged
    <2> QED
      BY <1>1, <1>3, <2>1 DEF WriteRefused, AbortTick, WriteFails, Crash, Refused
  <1>4. CASE cut' = cut
    BY <1>4 DEF CutRanged
  <1> QED
    BY <1>2, <1>3, <1>4 DEF Next, Save, StartByHand, DateComes, JobsEnd, Refresh, Strands,
       TickStep, Looks, Builds, Commits, WritePlan, WriteWaits, EndLocks, EndStep, EndChecks,
       EndCommits, AbortEnd, history, vars

LEMMA BoundsRangedStep == ASSUME BoundsRanged, [Next]_vars PROVE BoundsRanged'
  <1>1. edits' \in 0..MaxEdits
    <2>1. CASE edits' = edits \/ Edit
      BY <2>1, MonitoringAssumption DEF BoundsRanged, Edit
    <2> QED
      BY <2>1 DEF Next, Save, StartByHand, DateComes, JobsEnd, Refresh, Strands, TickStep,
         TickStarts, Looks, Builds, Commits, WritePlan, WriteWaits, WriteRefused, AbortTick,
         WriteFails, Crash, Refused, EndLocks, EndStep, EndChecks, EndCommits, AbortEnd, counts,
         vars
  <1>2. upsets' \in 0..MaxUpsets
    <2>1. CASE upsets' = upsets \/ Upset
      BY <2>1, MonitoringAssumption DEF BoundsRanged, Upset
    <2> QED
      BY <2>1 DEF Next, Save, StartByHand, DateComes, JobsEnd, Refresh, Strands, TickStep,
         TickStarts, Looks, Builds, Commits, WritePlan, WriteWaits, WriteRefused, AbortTick,
         WriteFails, Crash, Refused, EndLocks, EndStep, EndChecks, EndCommits, AbortEnd, counts,
         vars
  <1>3. row' \in Ticks \cup {None}
    BY DEF BoundsRanged, Next, Save, StartByHand, DateComes, JobsEnd, Refresh, Strands, TickStep,
       TickStarts, Looks, Builds, Commits, WritePlan, WriteWaits, WriteRefused, AbortTick,
       WriteFails, Crash, Refused, Released, EndLocks, EndStep, EndChecks, EndCommits, AbortEnd,
       vars
  <1>4. stranded' \subseteq Batches
    BY DEF BoundsRanged, Next, Save, StartByHand, DateComes, JobsEnd, Refresh, Strands, TickStep,
       TickStarts, Looks, Builds, Commits, WritePlan, WriteWaits, WriteRefused, AbortTick, WriteFails,
       Crash, Refused, EndLocks, EndStep, EndChecks, EndCommits, AbortEnd, history, vars
  <1> QED
    BY <1>1, <1>2, <1>3, <1>4 DEF BoundsRanged

LEMMA RangedStep == ASSUME Types, Holder, Ranged, [Next]_vars PROVE Ranged'
  BY CountedStep, PlanRangedStep, BatchesRangedStep, TicksRangedStep, CutRangedStep,
     BoundsRangedStep DEF Ranged

LEMMA RangedTypes == Types /\ Ranged => TypeOK
  <1> SUFFICES ASSUME Types, Ranged PROVE TypeOK
    OBVIOUS
  <1>1. owed \in Runs
    BY OwedIsRun DEF Ranged
  <1>2. batch \in [Batches -> [status : {None, "queued", "drained", "closed"},
                               run : Runs \cup {ByHand}]]
    BY DEF Types, BatchRows, Ranged, BatchesRanged
  <1>3. tick \in [Ticks -> [pc : {"idle", "looking", "building", "committing", "writing"},
                            write : {None, "postpone", "failure", "success"}, run : Runs \cup {0}]]
    BY DEF Types, TickRows, Ranged, TicksRanged
  <1> QED
    BY <1>1, <1>2, <1>3
    DEF Types, Plans, Ranged, PlanRanged, CutRanged, BoundsRanged, TypeOK

(* Every variable stays in its type, and a plan that is switched on has a  *)
(* date, whatever was saved between the statements of a tick               *)
(* (saveMonitoringSchedule, processDueSchedules).                          *)
THEOREM TypeCorrect == Spec => []TypeOK
  <1> DEFINE Inv == Ranged /\ Holder
  <1>1. Inv /\ IInv /\ [Next]_vars => Inv'
    BY RangedStep, HolderNext DEF IInv
  <1>2. IInv /\ Inv => TypeOK
    BY RangedTypes DEF IInv
  <1>3. Init => Inv
    BY RangedInitial, MonitoringAssumption DEF Init, Holder
  <1> HIDE DEF Inv
  <1> QED
    BY <1>1, <1>2, <1>3, Inductive, PTL DEF Spec
=============================================================================
