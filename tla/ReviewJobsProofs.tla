-------------------------- MODULE ReviewJobsProofs --------------------------
(***************************************************************************)
(* Proofs about the review queues, for any number of runs and processes,   *)
(* any retry budget and any number of upsets.                              *)
(*                                                                         *)
(* A result stands because a job that has ended is left alone, and a run   *)
(* with a result, or an analysis that has ended, has such a job.  What a   *)
(* late worker still remembers of a lost lease is in its slot: SlotsGood   *)
(* says what may be there.                                                 *)
(***************************************************************************)
EXTENDS ReviewJobs, TLAPS

RunRow == [status : Open \cup Ended \cup {None}, input : Inputs \cup {0}, selected : 0..MaxAttempts]
JobRow == [status : {None, "pending", "leased", "complete", "failed"},
           owner : Procs \cup {None}, live : BOOLEAN, attempts : 0..MaxAttempts]
SlotState == [pc : SlotPc, run : Runs \cup {None}, attempt : 0..MaxAttempts]

RunsGood == run \in [Runs -> RunRow]
JobsGood == job \in [Runs -> JobRow]
SlotsGood ==
    /\ slot \in [Procs -> SlotState]
    /\ \A p \in Procs :
        /\ slot[p].pc # "idle" => 
             slot[p].run \in Runs /\ slot[p].attempt # 0 /\ job[slot[p].run].status # None
        /\ slot[p].pc = "committing" => <<slot[p].run, slot[p].attempt>> \in recorded
SweepsGood == sweep \in [Procs -> SUBSET Runs]
RestGood ==
    /\ kind \in {"quality", "analysis"} /\ input \in Inputs
    /\ recorded \subseteq Runs \X (1..MaxAttempts)
    /\ up \subseteq Procs /\ cut \subseteq Runs /\ revived \subseteq Runs
    /\ upsets \in 0..MaxUpsets

(* What the rows of a run and of its job say together.                     *)
RowsAgree == \A r \in Runs :
    /\ run[r].status = None => job[r].status = None /\ run[r].selected = 0
    /\ run[r].selected # 0 => job[r].status = "complete" /\ <<r, run[r].selected>> \in recorded
    /\ kind = "analysis" /\ run[r].status \in Ended => job[r].status \in {"complete", "failed"}
    /\ \A p \in Procs : r \in sweep[p] => job[r].status = "failed"

IInv == RunsGood /\ JobsGood /\ SlotsGood /\ SweepsGood /\ RestGood /\ RowsAgree

-----------------------------------------------------------------------------
LEMMA ConstantFacts ==
    /\ None \notin Procs /\ None \notin Runs
    /\ None \notin {"queued", "running", "done", "pending", "leased", "complete", "failed"}
    /\ MaxInput \in Nat /\ MaxInput # 0 /\ MaxAttempts \in Nat /\ MaxAttempts # 0 /\ MaxUpsets \in Nat
  BY ReviewAssumption

(* The rows the statements write. *)
LEMMA Rows ==
    ASSUME NEW j \in JobRow, NEW r \in RunRow
    PROVE  /\ \A st \in {None, "pending", "leased", "complete", "failed"} :
                [j EXCEPT !.status = st] \in JobRow
                /\ [j EXCEPT !.status = st, !.owner = None, !.live = FALSE] \in JobRow
           /\ [j EXCEPT !.live = FALSE] \in JobRow
           /\ \A st \in Open \cup Ended \cup {None} : [r EXCEPT !.status = st] \in RunRow
           /\ \A st \in Open \cup Ended \cup {None}, k \in 0..MaxAttempts :
                [r EXCEPT !.status = st, !.selected = k] \in RunRow
  BY DEF JobRow, RunRow

LEMMA ClaimedRow ==
    ASSUME NEW j \in JobRow, NEW p \in Procs, j.attempts < MaxAttempts
    PROVE  /\ [j EXCEPT !.status = "leased", !.owner = p, !.live = TRUE,
                     !.attempts = j.attempts + 1] \in JobRow
           /\ j.attempts + 1 \in 1..MaxAttempts
  <1>1. j.attempts + 1 \in 1..MaxAttempts /\ 1..MaxAttempts \subseteq 0..MaxAttempts
    BY ConstantFacts DEF JobRow
  <1> QED
    BY <1>1 DEF JobRow

LEMMA SlotMoves ==
    ASSUME NEW s \in SlotState, NEW pc \in SlotPc
    PROVE  [s EXCEPT !.pc = pc] \in SlotState /\ IdleSlot \in SlotState
  BY ConstantFacts DEF SlotState, IdleSlot, SlotPc

LEMMA Initial == Init => IInv
  <1> SUFFICES ASSUME Init PROVE IInv
    OBVIOUS
  <1>1. [status |-> None, input |-> 0, selected |-> 0] \in RunRow
    BY ConstantFacts DEF RunRow
  <1>2. [status |-> None, owner |-> None, live |-> FALSE, attempts |-> 0] \in JobRow
    BY ConstantFacts DEF JobRow
  <1>3. RunsGood /\ JobsGood /\ SweepsGood
    BY <1>1, <1>2 DEF Init, RunsGood, JobsGood, SweepsGood
  <1>4. SlotsGood
    BY ConstantFacts DEF Init, SlotsGood, SlotState, IdleSlot, SlotPc
  <1>5. RestGood
    BY ConstantFacts DEF Init, RestGood, Inputs
  <1>6. RowsAgree
    BY ConstantFacts DEF Init, RowsAgree, Ended
  <1> QED
    BY <1>3, <1>4, <1>5, <1>6 DEF IInv

(* One lemma for each operation. *)
LEMMA EnqueueStep == ASSUME IInv, NEW r \in Runs, Enqueue(r) PROVE IInv'
  <1>1. /\ run[r].status = None /\ job[r].status = None
        /\ run' = [run EXCEPT ![r] = [status |-> "queued", input |-> input, selected |-> 0]]
        /\ job' = [job EXCEPT ![r] = [job[r] EXCEPT !.status = "pending"]]
        /\ job[r] \in JobRow /\ run[r] \in RunRow
    BY DEF Enqueue, IInv, RowsAgree, JobsGood, RunsGood
  <1>2. [status |-> "queued", input |-> input, selected |-> 0] \in RunRow
    BY ConstantFacts DEF IInv, RestGood, RunRow, Open
  <1>3. [job[r] EXCEPT !.status = "pending"] \in JobRow
    BY <1>1, Rows
  <1>4. job[r] \in [status : {None, "pending", "leased", "complete", "failed"},
           owner : Procs \cup {None}, live : BOOLEAN, attempts : 0..MaxAttempts]
    BY <1>1 DEF JobRow
  <1>11. RunsGood'
    BY <1>1, <1>2 DEF IInv, RunsGood
  <1>12. JobsGood'
    BY <1>1, <1>3 DEF IInv, JobsGood
  <1>13. SlotsGood'
    BY <1>1, <1>4, ConstantFacts DEF Enqueue, IInv, SlotsGood, JobsGood
  <1>14. SweepsGood'
    BY ConstantFacts DEF Enqueue, fixed, IInv, SweepsGood
  <1>15. RestGood'
    BY ConstantFacts DEF Enqueue, fixed, IInv, RestGood
  <1>16. RowsAgree'
    BY <1>1, <1>4, ConstantFacts DEF Enqueue, fixed, IInv, RowsAgree, JobsGood, RunsGood, Ended
  <1> QED
    BY <1>11, <1>12, <1>13, <1>14, <1>15, <1>16 DEF IInv

LEMMA InputStep == ASSUME IInv, InputChanges PROVE IInv'
  <1>11. RunsGood'
    BY ConstantFacts DEF InputChanges, fixed, IInv, RunsGood
  <1>12. JobsGood'
    BY ConstantFacts DEF InputChanges, fixed, IInv, JobsGood
  <1>13. SlotsGood'
    BY ConstantFacts DEF InputChanges, fixed, IInv, RunsGood, JobsGood, SlotsGood, SweepsGood, RestGood, RowsAgree
  <1>14. SweepsGood'
    BY ConstantFacts DEF InputChanges, fixed, IInv, SweepsGood
  <1>15. RestGood'
    BY ConstantFacts DEF InputChanges, fixed, IInv, RestGood
  <1>16. RowsAgree'
    BY ConstantFacts DEF InputChanges, fixed, IInv, RunsGood, JobsGood, SlotsGood, SweepsGood, RestGood, RowsAgree
  <1> QED
    BY <1>11, <1>12, <1>13, <1>14, <1>15, <1>16 DEF IInv

LEMMA ClaimStep == ASSUME IInv, NEW p \in Procs, Claim(p) PROVE IInv'
  <1>1. PICK r \in Runs :
          /\ job[r].attempts < MaxAttempts /\ job[r].status \in {"pending", "leased"}
          /\ job' = [job EXCEPT ![r] = [job[r] EXCEPT !.status = "leased", !.owner = p,
                                          !.live = TRUE, !.attempts = job[r].attempts + 1]]
          /\ slot' = [slot EXCEPT ![p] =
                       [pc |-> "checking", run |-> r, attempt |-> job[r].attempts + 1]]
    BY DEF Claim, Claimable, Expired, SlotTo
  <1>2. job[r] \in JobRow /\ job[r].attempts + 1 \in 1..MaxAttempts
    BY <1>1, ClaimedRow DEF IInv, JobsGood
  <1>3. [job[r] EXCEPT !.status = "leased", !.owner = p, !.live = TRUE,
                       !.attempts = job[r].attempts + 1] \in JobRow
    BY <1>1, <1>2, ClaimedRow
  <1>4. [pc |-> "checking", run |-> r, attempt |-> job[r].attempts + 1] \in SlotState
    BY <1>2, ConstantFacts DEF SlotState, SlotPc
  <1>5. job'[r].status = "leased" /\ \A q \in Runs \ {r} : job'[q] = job[q]
    BY <1>1, <1>2 DEF IInv, JobsGood, JobRow
  <1>6. job[r].status # None /\ None # "leased"
    BY <1>1, ConstantFacts
  <1>11. RunsGood'
    BY ConstantFacts DEF Claim, fixed, IInv, RunsGood
  <1>12. JobsGood'
    BY <1>1, <1>3 DEF IInv, JobsGood
  <1>13. SlotsGood'
    BY <1>1, <1>2, <1>4, <1>5, <1>6, ConstantFacts DEF Claim, IInv, SlotsGood
  <1>14. SweepsGood'
    BY ConstantFacts DEF Claim, fixed, IInv, SweepsGood
  <1>15. RestGood'
    BY ConstantFacts DEF Claim, fixed, IInv, RestGood
  <1>16. RowsAgree'
    BY <1>1, <1>5, <1>6, ConstantFacts, ZenonT(40) DEF Claim, fixed, IInv, RowsAgree
  <1> QED
    BY <1>11, <1>12, <1>13, <1>14, <1>15, <1>16 DEF IInv

(* What a result and an ended analysis promise about one step. *)
Stands == \A r \in Runs :
    /\ run[r].selected # 0 => run'[r].selected = run[r].selected
    /\ run'[r].selected # 0 => <<r, run'[r].selected>> \in recorded'
    /\ kind = "analysis" /\ run[r].status \in Ended => run'[r] = run[r]

(* It follows from the invariant wherever the runs are left alone. *)
LEMMA RunsLeftAlone == ASSUME IInv, run' = run, recorded \subseteq recorded' PROVE Stands
  BY DEF IInv, RowsAgree, Stands

(* A slot goes on with its run and attempt, or is given up. *)
LEMMA SlotGoesOn ==
    ASSUME IInv, NEW p \in Procs, NEW s \in SlotState, slot' = [slot EXCEPT ![p] = s],
           s.pc # "idle" => slot[p].pc # "idle" /\ s.run = slot[p].run /\ s.attempt = slot[p].attempt,
           s.pc = "committing" => <<s.run, s.attempt>> \in recorded',
           recorded \subseteq recorded',
           \A r \in Runs : job'[r].status = None => job[r].status = None
    PROVE  SlotsGood'
  <1>1. slot' \in [Procs -> SlotState]
    BY DEF IInv, SlotsGood
  <1>2. slot'[p] = s /\ \A q \in Procs \ {p} : slot'[q] = slot[q]
    BY DEF IInv, SlotsGood
  <1>3. ASSUME NEW q \in Procs, slot'[q].pc # "idle"
        PROVE  slot'[q].run \in Runs /\ slot'[q].attempt # 0 /\ job'[slot'[q].run].status # None
    BY <1>2, <1>3 DEF IInv, SlotsGood
  <1>4. ASSUME NEW q \in Procs, slot'[q].pc = "committing"
        PROVE  <<slot'[q].run, slot'[q].attempt>> \in recorded'
    BY <1>2, <1>4 DEF IInv, SlotsGood
  <1> QED
    BY <1>1, <1>3, <1>4 DEF SlotsGood

(* SlotAt and IdleSlot make such a step. *)
LEMMA SlotMoved ==
    ASSUME IInv, NEW p \in Procs, NEW pc \in SlotPc
    PROVE  LET s == [slot[p] EXCEPT !.pc = pc] IN
           /\ s \in SlotState /\ s.pc = pc /\ s.run = slot[p].run /\ s.attempt = slot[p].attempt
           /\ IdleSlot \in SlotState /\ IdleSlot.pc = "idle"
  <1>1. slot[p] \in SlotState
    BY DEF IInv, SlotsGood
  <1>2. IdleSlot.pc = "idle"
    BY DEF IdleSlot
  <1> QED
    BY <1>1, <1>2, SlotMoves DEF SlotState

(* The pc of a slot changes and nothing else. *)
LEMMA OnlyThePc ==
    ASSUME IInv, NEW p \in Procs, NEW pc \in SlotPc \ {"committing", "idle"},
           slot[p].pc # "idle", SlotAt(p, pc),
           UNCHANGED <<fixed, run, job, recorded, sweep, up, cut, revived>>,
           upsets' \in 0..MaxUpsets
    PROVE  IInv' /\ Stands
  <1>1. SlotsGood'
    BY SlotMoved, SlotGoesOn DEF SlotAt, SlotTo
  <1>2. Stands
    BY RunsLeftAlone
  <1> QED
    BY <1>1, <1>2 DEF fixed, IInv, RunsGood, JobsGood, SweepsGood, RestGood, RowsAgree, Inputs

LEMMA CheckStep == ASSUME IInv, NEW p \in Procs, Check(p) PROVE IInv' /\ Stands
  <1>1. upsets' \in 0..MaxUpsets /\ slot[p].pc # "idle"
    BY DEF Check, IInv, RestGood
  <1>2. PICK pc \in {"marking", "recording"} : SlotAt(p, pc)
    BY DEF Check
  <1> QED
    BY <1>1, <1>2, OnlyThePc DEF Check, SlotPc

LEMMA CallStep == ASSUME IInv, NEW p \in Procs, Call(p) PROVE IInv' /\ Stands
  <1>1. upsets' \in 0..MaxUpsets /\ slot[p].pc # "idle"
    BY DEF Call, IInv, RestGood
  <1>2. PICK pc \in {"saving", "recording"} : SlotAt(p, pc)
    BY DEF Call
  <1> QED
    BY <1>1, <1>2, OnlyThePc DEF Call, SlotPc

(* The row of a run whose status is written. *)
LEMMA Written ==
    ASSUME IInv, NEW r \in Runs, NEW st \in Open \cup Ended, WriteRun(r, st)
    PROVE  /\ RunsGood'
           /\ run'[r].status = st /\ run'[r].selected = run[r].selected /\ st # None
           /\ \A q \in Runs \ {r} : run'[q] = run[q]
  <1>1. run[r] \in RunRow /\ [run[r] EXCEPT !.status = st] \in RunRow
    BY Rows DEF IInv, RunsGood, RunRow
  <1>2. [run[r] EXCEPT !.status = st].status = st
        /\ [run[r] EXCEPT !.status = st].selected = run[r].selected
    BY <1>1 DEF RunRow
  <1>3. st # None
    BY ConstantFacts DEF Open, Ended
  <1> QED
    BY <1>1, <1>2, <1>3 DEF WriteRun, IInv, RunsGood

LEMMA MarkStep == ASSUME IInv, NEW p \in Procs, Mark(p) PROVE IInv' /\ Stands
  <1> DEFINE r == slot[p].run
  <1>1. r \in Runs /\ job[r].status # None /\ slot[p].pc # "idle"
    BY DEF Mark, IInv, SlotsGood
  <1>2. SlotsGood'
    BY <1>1, SlotMoved, SlotGoesOn DEF Mark, SlotAt, SlotTo, SlotPc
  <1>3. revived' \subseteq Runs
    BY <1>1 DEF Mark, IInv, RestGood
  <1>4. RestGood' /\ JobsGood' /\ SweepsGood'
    BY <1>3 DEF Mark, fixed, IInv, RestGood, JobsGood, SweepsGood, Inputs
  <1>5. CASE ~Marks(r)
    <2>1. run' = run
      BY <1>5 DEF Mark
    <2>2. Stands
      BY <2>1, RunsLeftAlone DEF Mark
    <2> QED
      BY <1>2, <1>4, <2>1, <2>2 DEF Mark, fixed, IInv, RunsGood, RowsAgree
  <1>6. CASE Marks(r)
    <2>1. WriteRun(r, "running")
      BY <1>6 DEF Mark
    <2>2. "running" \in Open \cup Ended /\ "running" \notin Ended /\ "running" # None
          /\ Open \cap Ended = {}
      BY ConstantFacts DEF Open, Ended
    <2>3. /\ RunsGood' /\ run'[r].status = "running" /\ run'[r].selected = run[r].selected
          /\ \A q \in Runs \ {r} : run'[q] = run[q]
      BY <1>1, <2>1, <2>2, Written
    <2>4. kind = "analysis" => run[r].status \notin Ended
      BY <1>6, <2>2 DEF Marks
    <2>5. RowsAgree'
      BY <1>1, <2>2, <2>3 DEF Mark, fixed, IInv, RowsAgree
    <2>6. Stands
      BY <1>1, <2>3, <2>4 DEF Mark, IInv, RowsAgree, Stands
    <2> QED
      BY <1>2, <1>4, <2>3, <2>5, <2>6 DEF IInv
  <1> QED
    BY <1>5, <1>6

LEMMA RecordStep ==
    ASSUME IInv, NEW p \in Procs, slot[p].pc # "idle", RecordAttempt(p),
           NEW pc \in {"committing", "ending"}, SlotAt(p, pc),
           UNCHANGED <<fixed, run, job, sweep, up, cut, revived, upsets>>
    PROVE  IInv' /\ Stands
  <1>1. <<slot[p].run, slot[p].attempt>> \in Runs \X (1..MaxAttempts)
    BY ConstantFacts DEF IInv, SlotsGood, SlotState
  <1>2. recorded' = recorded \cup {<<slot[p].run, slot[p].attempt>>}
    BY DEF RecordAttempt
  <1>3. SlotsGood'
    <2> DEFINE s == [slot[p] EXCEPT !.pc = pc]
    <2>1. pc \in SlotPc
      BY DEF SlotPc
    <2>2. s \in SlotState /\ s.pc = pc /\ s.run = slot[p].run /\ s.attempt = slot[p].attempt
      BY <2>1, SlotMoved
    <2>3. slot' = [slot EXCEPT ![p] = s]
      BY DEF SlotAt, SlotTo
    <2> HIDE DEF s
    <2> QED
      BY <1>2, <2>2, <2>3, SlotGoesOn
  <1>4. Stands
    BY <1>2, RunsLeftAlone
  <1>5. RestGood'
    BY <1>1, <1>2 DEF fixed, IInv, RestGood, Inputs
  <1>6. RowsAgree'
    BY <1>2 DEF fixed, IInv, RowsAgree
  <1> QED
    BY <1>3, <1>4, <1>5, <1>6 DEF fixed, IInv, RunsGood, JobsGood, SweepsGood, Inputs

(* The row of a job that ends or is put back. *)
LEMMA JobEnded ==
    ASSUME IInv, NEW r \in Runs, NEW st \in {"pending", "complete", "failed"}, EndJob(r, st)
    PROVE  /\ JobsGood' /\ job'[r].status = st /\ st # None
           /\ \A q \in Runs \ {r} : job'[q] = job[q]
           /\ \A q \in Runs : job'[q].status = None => job[q].status = None
  <1>1. job[r] \in JobRow /\ run[r] \in RunRow
    BY DEF IInv, JobsGood, RunsGood
  <1>2. [job[r] EXCEPT !.status = st, !.owner = None, !.live = FALSE] \in JobRow
    BY <1>1, Rows
  <1>3. [job[r] EXCEPT !.status = st, !.owner = None, !.live = FALSE].status = st
    BY <1>1 DEF JobRow
  <1>4. st # None
    BY ConstantFacts
  <1> QED
    BY <1>2, <1>3, <1>4 DEF EndJob, IInv, JobsGood

LEMMA CommitStep == ASSUME IInv, NEW p \in Procs, Commit(p) PROVE IInv' /\ Stands
  <1> DEFINE r == slot[p].run
             k == slot[p].attempt
  <1>1. /\ r \in Runs /\ k \in 0..MaxAttempts /\ k # 0 /\ <<r, k>> \in recorded
        /\ slot[p].pc = "committing"
    BY DEF Commit, IInv, SlotsGood, SlotState
  <1>2. RestGood' /\ SweepsGood'
    BY DEF Commit, fixed, IInv, RestGood, SweepsGood, Inputs
  <1>3. CASE /\ Holds(p)
             /\ EndJob(r, "complete")
             /\ run' = [run EXCEPT ![r] = [run[r] EXCEPT !.status = "done", !.selected = k]]
             /\ SlotTo(p, IdleSlot)
    <2>1. /\ JobsGood' /\ job'[r].status = "complete"
          /\ \A q \in Runs \ {r} : job'[q] = job[q]
          /\ \A q \in Runs : job'[q].status = None => job[q].status = None
      BY <1>1, <1>3, JobEnded
    <2>2. SlotsGood'
      BY <1>3, <2>1, SlotMoved, SlotGoesOn DEF Commit, SlotTo, SlotPc
    <2>3. run[r] \in RunRow /\ "done" \in Open \cup Ended /\ "done" # None
      BY <1>1, ConstantFacts DEF IInv, RunsGood, Ended
    <2>4. [run[r] EXCEPT !.status = "done", !.selected = k] \in RunRow
      BY <1>1, <2>3, Rows DEF IInv, JobsGood, RunRow
    <2>5. [run[r] EXCEPT !.status = "done", !.selected = k].status = "done"
          /\ [run[r] EXCEPT !.status = "done", !.selected = k].selected = k
      BY <2>3 DEF RunRow
    <2>6. /\ RunsGood' /\ run'[r].status = "done" /\ run'[r].selected = k
          /\ \A q \in Runs \ {r} : run'[q] = run[q]
      BY <1>1, <1>3, <2>4, <2>5 DEF IInv, RunsGood
    <2>7. /\ run[r].selected = 0
          /\ kind = "analysis" => run[r].status \notin Ended
          /\ \A q \in Procs : r \notin sweep[q]
      BY <1>1, <1>3 DEF Holds, IInv, RowsAgree
    <2>8. RowsAgree'
      BY <1>1, <2>1, <2>3, <2>6, <2>7 DEF Commit, fixed, IInv, RowsAgree
    <2>9. Stands
      BY <1>1, <2>6, <2>7 DEF Commit, IInv, RowsAgree, Stands
    <2> QED
      BY <1>2, <2>1, <2>2, <2>6, <2>8, <2>9 DEF IInv
  <1>4. CASE SlotAt(p, "ending") /\ UNCHANGED <<run, job>>
    <2>1. upsets' \in 0..MaxUpsets /\ "ending" \in SlotPc \ {"committing", "idle"}
      BY DEF Commit, IInv, RestGood, SlotPc
    <2> QED
      BY <1>1, <1>4, <2>1, OnlyThePc DEF Commit
  <1> QED
    BY <1>3, <1>4 DEF Commit

(* A run that its slot gives up, or its sweep: failed or queued with its job. *)
LEMMA EndStep == ASSUME IInv, NEW p \in Procs, End(p) PROVE IInv' /\ Stands
  <1> DEFINE r == slot[p].run
  <1>1. r \in Runs /\ slot[p].pc = "ending"
    BY DEF End, IInv, SlotsGood
  <1>2. RestGood' /\ SweepsGood'
    BY DEF End, fixed, IInv, RestGood, SweepsGood, Inputs
  <1>3. CASE ~Holds(p) /\ UNCHANGED <<run, job>>
    <2>1. SlotsGood'
      BY <1>3, SlotMoved, SlotGoesOn DEF End, SlotTo, SlotPc
    <2>2. Stands
      BY <1>3, RunsLeftAlone DEF End
    <2> QED
      BY <1>2, <1>3, <2>1, <2>2 DEF End, fixed, IInv, RunsGood, JobsGood, RowsAgree
  <1>4. CASE Holds(p)
    <2>1. PICK st \in {"failed", "queued"} :
            EndJob(r, IF st = "failed" THEN "failed" ELSE "pending") /\ WriteRun(r, st)
      BY <1>4 DEF End, Statuses
    <2>2. PICK j \in {"failed", "pending"} : EndJob(r, j) /\ (st = "failed" => j = "failed")
      BY <2>1
    <2>3. /\ JobsGood' /\ job'[r].status = j /\ j # None
          /\ \A q \in Runs \ {r} : job'[q] = job[q]
          /\ \A q \in Runs : job'[q].status = None => job[q].status = None
      BY <1>1, <2>2, JobEnded
    <2>4. SlotsGood'
      BY <2>3, SlotMoved, SlotGoesOn DEF End, SlotTo, SlotPc
    <2>5. st \in Open \cup Ended /\ (st \in Ended => st = "failed") /\ st # None
      BY ConstantFacts DEF Open, Ended
    <2>6. /\ RunsGood' /\ run'[r].status = st /\ run'[r].selected = run[r].selected
          /\ \A q \in Runs \ {r} : run'[q] = run[q]
      BY <1>1, <2>1, <2>5, Written
    <2>7. /\ run[r].selected = 0
          /\ kind = "analysis" => run[r].status \notin Ended
          /\ \A q \in Procs : r \notin sweep[q]
      BY <1>1, <1>4 DEF Holds, IInv, RowsAgree
    <2>8. RowsAgree'
      BY <1>1, <2>2, <2>3, <2>5, <2>6, <2>7 DEF End, fixed, IInv, RowsAgree
    <2>9. Stands
      BY <1>1, <2>6, <2>7 DEF End, IInv, RowsAgree, Stands
    <2> QED
      BY <1>2, <2>3, <2>4, <2>6, <2>8, <2>9 DEF IInv
  <1> QED
    BY <1>3, <1>4 DEF End

LEMMA FaultStep == ASSUME IInv, NEW p \in Procs, Fault(p) PROVE IInv' /\ Stands
  <1>1. upsets' \in 0..MaxUpsets
    BY ConstantFacts DEF Fault, Upset, IInv, RestGood
  <1>2. CASE \E pc \in {"recording", "ending"} : slot[p].pc # "idle" /\ SlotAt(p, pc)
    BY <1>1, <1>2, OnlyThePc DEF Fault, SlotPc
  <1>3. CASE SlotTo(p, IdleSlot)
    <2>1. SlotsGood'
      BY <1>3, SlotMoved, SlotGoesOn DEF Fault, SlotTo, SlotPc
    <2>2. Stands
      BY RunsLeftAlone DEF Fault
    <2> QED
      BY <1>1, <2>1, <2>2 DEF Fault, fixed, IInv, RunsGood, JobsGood, SweepsGood, RestGood, RowsAgree, Inputs
  <1> QED
    BY <1>2, <1>3 DEF Fault

(* The sweep, crashes and time. *)
LEMMA SweepJobsStep == ASSUME IInv, NEW p \in Procs, SweepJobs(p) PROVE IInv' /\ Stands
  <1> DEFINE failed(r) == [job[r] EXCEPT !.status = "failed", !.owner = None, !.live = FALSE]
  <1>1. \A r \in Runs : failed(r) \in JobRow /\ failed(r).status = "failed" /\ job[r] \in JobRow
    <2> SUFFICES ASSUME NEW r \in Runs
                 PROVE  failed(r) \in JobRow /\ failed(r).status = "failed" /\ job[r] \in JobRow
      OBVIOUS
    <2>1. job[r] \in JobRow /\ run[r] \in RunRow
      BY DEF IInv, JobsGood, RunsGood
    <2>2. failed(r) \in JobRow
      BY <2>1, Rows
    <2> QED
      BY <2>1, <2>2 DEF JobRow
  <1>2. job' = [r \in Runs |-> IF r \in Exhausted THEN failed(r) ELSE job[r]]
    BY DEF SweepJobs
  <1> HIDE DEF failed
  <1>3. JobsGood'
    BY <1>1, <1>2 DEF JobsGood
  <1>4. \A r \in Runs :
          /\ r \in Exhausted => job[r].status = "leased" /\ job'[r].status = "failed"
          /\ r \notin Exhausted => job'[r] = job[r]
    BY <1>1, <1>2 DEF Exhausted, Expired
  <1>5. "failed" # None /\ "leased" # None
    BY ConstantFacts
  <1>6. SlotsGood'
    <2>1. \A r \in Runs : job'[r].status = None => job[r].status = None
      <3> SUFFICES ASSUME NEW r \in Runs, job'[r].status = None PROVE job[r].status = None
        OBVIOUS
      <3>1. r \notin Exhausted
        BY <1>4, <1>5
      <3> QED
        BY <1>4, <3>1
    <2> QED
      BY <2>1 DEF SweepJobs, IInv, SlotsGood
  <1>7. Exhausted \subseteq Runs
    BY DEF Exhausted
  <1>8. SweepsGood' /\ \A q \in Procs : sweep'[q] = IF q = p THEN Exhausted ELSE sweep[q]
    BY <1>7 DEF SweepJobs, IInv, SweepsGood
  <1>9. RowsAgree'
    <2> SUFFICES ASSUME NEW r \in Runs
                 PROVE  /\ run[r].status = None => job'[r].status = None /\ run[r].selected = 0
                        /\ run[r].selected # 0 => job'[r].status = "complete"
                        /\ kind = "analysis" /\ run[r].status \in Ended
                             => job'[r].status \in {"complete", "failed"}
                        /\ \A q \in Procs : r \in sweep'[q] => job'[r].status = "failed"
      BY DEF SweepJobs, fixed, IInv, RowsAgree
    <2>1. CASE r \in Exhausted
      <3>1. job[r].status = "leased" /\ job'[r].status = "failed"
        BY <1>4, <2>1
      <3>2. run[r].status # None /\ run[r].selected = 0
            /\ ~(kind = "analysis" /\ run[r].status \in Ended)
        BY <1>5, <3>1 DEF IInv, RowsAgree
      <3> QED
        BY <3>1, <3>2
    <2>2. CASE r \notin Exhausted
      <3>1. job'[r] = job[r] /\ \A q \in Procs : r \in sweep'[q] => r \in sweep[q]
        BY <1>4, <1>8, <2>2
      <3> QED
        BY <3>1 DEF IInv, RowsAgree
    <2> QED
      BY <2>1, <2>2
  <1>10. Stands
    BY RunsLeftAlone DEF SweepJobs
  <1> QED
    BY <1>3, <1>6, <1>8, <1>9, <1>10 DEF SweepJobs, fixed, IInv, RunsGood, RestGood, Inputs

LEMMA SweepRunStep == ASSUME IInv, NEW p \in Procs, SweepRun(p) PROVE IInv' /\ Stands
  <1>1. PICK r \in sweep[p] :
          /\ IF run[r].status \in Open THEN WriteRun(r, "failed") ELSE UNCHANGED run
          /\ sweep' = [sweep EXCEPT ![p] = sweep[p] \ {r}]
    BY DEF SweepRun
  <1>2. r \in Runs /\ job[r].status = "failed" /\ run[r].selected = 0
    BY <1>1 DEF IInv, SweepsGood, RowsAgree
  <1>3. SweepsGood' /\ \A q \in Procs : sweep'[q] \subseteq sweep[q]
    BY <1>1 DEF IInv, SweepsGood
  <1>4. JobsGood' /\ SlotsGood' /\ RestGood'
    BY DEF SweepRun, fixed, IInv, JobsGood, SlotsGood, RestGood, Inputs
  <1>5. CASE run[r].status \notin Open
    <2>1. run' = run
      BY <1>1, <1>5
    <2>2. Stands
      BY <2>1, RunsLeftAlone DEF SweepRun
    <2> QED
      BY <1>3, <1>4, <2>1, <2>2 DEF SweepRun, fixed, IInv, RunsGood, RowsAgree
  <1>6. CASE run[r].status \in Open
    <2>1. WriteRun(r, "failed") /\ "failed" \in Open \cup Ended /\ run[r].status \notin Ended
          /\ "failed" # None
      BY <1>1, <1>6, ConstantFacts DEF Open, Ended
    <2>2. /\ RunsGood' /\ run'[r].status = "failed" /\ run'[r].selected = run[r].selected
          /\ \A q \in Runs \ {r} : run'[q] = run[q]
      BY <1>2, <2>1, Written
    <2>3. RowsAgree'
      BY <1>2, <1>3, <2>1, <2>2 DEF SweepRun, fixed, IInv, RowsAgree
    <2>4. Stands
      BY <1>2, <2>1, <2>2 DEF SweepRun, IInv, RowsAgree, Stands
    <2> QED
      BY <1>3, <1>4, <2>2, <2>3, <2>4 DEF IInv
  <1> QED
    BY <1>5, <1>6

LEMMA SweepLost ==
    ASSUME IInv, NEW p \in Procs,
           sweep' = [sweep EXCEPT ![p] = {}], cut' = cut \cup sweep[p],
           up' \subseteq Procs, upsets' \in 0..MaxUpsets, SlotsGood',
           UNCHANGED <<fixed, run, job, recorded, revived>>
    PROVE  IInv' /\ Stands
  <1>1. SweepsGood' /\ \A q \in Procs : sweep'[q] \subseteq sweep[q]
    BY DEF IInv, SweepsGood
  <1>2. RestGood'
    BY DEF fixed, IInv, SweepsGood, RestGood, Inputs
  <1>3. RowsAgree'
    BY <1>1 DEF fixed, IInv, RowsAgree
  <1>4. Stands
    BY RunsLeftAlone
  <1> QED
    BY <1>1, <1>2, <1>3, <1>4 DEF IInv, RunsGood, JobsGood

LEMMA SweepFaultStep == ASSUME IInv, NEW p \in Procs, SweepFault(p) PROVE IInv' /\ Stands
  <1>1. up' \subseteq Procs /\ upsets' \in 0..MaxUpsets /\ SlotsGood'
    BY ConstantFacts DEF SweepFault, Upset, IInv, RestGood, SlotsGood
  <1> QED
    BY <1>1, SweepLost DEF SweepFault

LEMMA CrashStep == ASSUME IInv, NEW p \in Procs, Crash(p) PROVE IInv' /\ Stands
  <1>1. up' \subseteq Procs /\ upsets' \in 0..MaxUpsets
    BY ConstantFacts DEF Crash, Upset, IInv, RestGood
  <1>2. SlotsGood'
    BY SlotMoved, SlotGoesOn DEF Crash, SlotTo, SlotPc
  <1> QED
    BY <1>1, <1>2, SweepLost DEF Crash

LEMMA StartStep == ASSUME IInv, NEW p \in Procs, Start(p) PROVE IInv' /\ Stands
  <1>1. RestGood'
    BY DEF Start, fixed, IInv, RestGood, Inputs
  <1>2. Stands
    BY RunsLeftAlone DEF Start
  <1> QED
    BY <1>1, <1>2 DEF Start, fixed, IInv, RunsGood, JobsGood, SlotsGood, SweepsGood, RowsAgree

LEMMA LeaseLost ==
    ASSUME IInv, NEW r \in Runs,
           job' = [job EXCEPT ![r] = [job[r] EXCEPT !.live = FALSE]],
           upsets' \in 0..MaxUpsets,
           UNCHANGED <<fixed, run, recorded, slot, sweep, up, cut, revived>>
    PROVE  IInv' /\ Stands
  <1>1. job[r] \in JobRow /\ run[r] \in RunRow
    BY DEF IInv, JobsGood, RunsGood
  <1>2. [job[r] EXCEPT !.live = FALSE] \in JobRow
        /\ [job[r] EXCEPT !.live = FALSE].status = job[r].status
    BY <1>1, Rows, ZenonT(40) DEF JobRow
  <1>3. JobsGood' /\ \A q \in Runs : job'[q].status = job[q].status
    BY <1>2 DEF IInv, JobsGood
  <1>4. SlotsGood' /\ RowsAgree'
    BY <1>3 DEF fixed, IInv, SlotsGood, RowsAgree
  <1>5. Stands
    BY RunsLeftAlone
  <1> QED
    BY <1>3, <1>4, <1>5 DEF fixed, IInv, RunsGood, SweepsGood, RestGood, Inputs

LEMMA LeaseExpiresStep == ASSUME IInv, NEW r \in Runs, LeaseExpires(r) PROVE IInv' /\ Stands
  BY LeaseLost DEF LeaseExpires, IInv, RestGood

LEMMA StallStep == ASSUME IInv, NEW r \in Runs, Stall(r) PROVE IInv' /\ Stands
  <1>1. upsets' \in 0..MaxUpsets
    BY ConstantFacts DEF Stall, Upset, IInv, RestGood
  <1> QED
    BY <1>1, LeaseLost DEF Stall

-----------------------------------------------------------------------------
LEMMA Step == IInv /\ [Next]_vars => IInv' /\ (Next => Stands)
  <1> SUFFICES ASSUME IInv, [Next]_vars PROVE IInv' /\ (Next => Stands)
    OBVIOUS
  <1>1. ASSUME NEW r \in Runs, Enqueue(r) PROVE IInv' /\ Stands
    <2>1. run[r].selected = 0 /\ run[r].status = None /\ None \notin Ended
      BY <1>1, ConstantFacts DEF Enqueue, IInv, RowsAgree, Ended
    <2>2. \A q \in Runs \ {r} : run'[q] = run[q]
      BY <1>1 DEF Enqueue, IInv, RunsGood
    <2>3. run'[r].selected = 0
      BY <1>1 DEF Enqueue, IInv, RunsGood
    <2> QED
      BY <1>1, <2>1, <2>2, <2>3, EnqueueStep DEF Enqueue, IInv, RowsAgree, Stands
  <1>2. ASSUME InputChanges PROVE IInv' /\ Stands
    BY <1>2, InputStep, RunsLeftAlone DEF InputChanges
  <1>3. ASSUME NEW p \in Procs, Claim(p) PROVE IInv' /\ Stands
    BY <1>3, ClaimStep, RunsLeftAlone DEF Claim
  <1>4. ASSUME NEW p \in Procs, SlotStep(p) PROVE IInv' /\ Stands
    <2>1. CASE Save(p) \/ RecordFailure(p)
      BY <2>1, RecordStep DEF Save, RecordFailure
    <2> QED
      BY <1>3, <1>4, <2>1, CheckStep, MarkStep, CallStep, CommitStep, EndStep DEF SlotStep
  <1>5. ASSUME NEW p \in Procs,
               SweepStep(p) \/ SweepFault(p) \/ Fault(p) \/ Crash(p) \/ Start(p)
        PROVE  IInv' /\ Stands
    BY <1>5, SweepJobsStep, SweepRunStep, SweepFaultStep, FaultStep, CrashStep, StartStep DEF SweepStep
  <1>6. ASSUME NEW r \in Runs, LeaseExpires(r) \/ Stall(r) PROVE IInv' /\ Stands
    BY <1>6, LeaseExpiresStep, StallStep
  <1>7. CASE UNCHANGED vars
    <2>1. IInv'
      BY <1>7 DEF vars, IInv, RunsGood, JobsGood, SlotsGood, SweepsGood, RestGood, RowsAgree, Inputs
    <2>2. Stands
      BY <1>7, RunsLeftAlone DEF vars
    <2> QED
      BY <2>1, <2>2
  <1> QED
    BY <1>1, <1>2, <1>4, <1>5, <1>6, <1>7 DEF Next

LEMMA Inductive == Spec => []IInv
  <1>1. IInv /\ [Next]_vars => IInv'
    BY Step
  <1> QED
    BY Initial, <1>1, PTL DEF Spec

(* Types, in every state of either queue: above all, no job is attempted   *)
(* more than max_attempts times, whoever takes it over.                    *)
THEOREM TypeCorrect == Spec => []TypeOK
  <1>1. IInv => TypeOK
    BY DEF IInv, RunsGood, JobsGood, SlotsGood, SweepsGood, RestGood, RunRow, JobRow, SlotState, TypeOK
  <1> QED
    BY <1>1, Inductive, PTL

(* article-quality.ts, answer-analysis.ts: the result a person reviews is  *)
(* on record and no late worker replaces it; an analysis that has ended    *)
(* never changes again.                                                    *)
THEOREM ResultSafe == Spec => ResultStands
  <1> DEFINE Kept == \A r \in Runs :
        /\ run[r].selected # 0 => run'[r].selected = run[r].selected
        /\ run'[r].selected # 0 => <<r, run'[r].selected>> \in recorded'
        /\ kind = "analysis" /\ run[r].status \in Ended => run'[r] = run[r]
  <1>1. IInv /\ [Next]_vars => [Kept]_vars
    BY Step DEF Stands
  <1>2. Spec => [][Kept]_vars
    BY <1>1, Inductive, PTL DEF Spec
  <1> QED
    BY <1>2 DEF ResultStands

-----------------------------------------------------------------------------
(* One open run: only a request opens a run, and only the late mark of a   *)
(* quality run opens one again, because a run that has ended has no lease  *)
(* with which it could be given back.                                      *)
EndedHasJob == \A r \in Runs : run[r].status \in Ended => job[r].status \in {"complete", "failed"}

(* Runs stay closed, and jobs of closed runs ended. *)
LEMMA NothingOpens ==
    ASSUME IInv, EndedHasJob, OneOpenRun, UNCHANGED kind, revived \subseteq revived',
           \A r \in Runs :
              /\ run'[r].input = run[r].input
              /\ run'[r].status \in Open => run[r].status \in Open \/ (kind = "quality" /\ r \in revived')
              /\ run'[r].status \in Ended => job'[r].status \in {"complete", "failed"}
    PROVE  EndedHasJob' /\ OneOpenRun'
  <1>1. EndedHasJob'
    BY DEF EndedHasJob, Ended
  <1>2. OneOpenRun'
    <2> SUFFICES ASSUME NEW r \in Runs, NEW s \in Runs, r # s,
                        run'[r].status \in Open, run'[s].status \in Open,
                        kind = "quality" => run'[r].input = run'[s].input
                 PROVE  kind = "quality" /\ (r \in revived' \/ s \in revived')
      BY DEF OneOpenRun, Open
    <2>1. CASE run[r].status \in Open /\ run[s].status \in Open
      <3>1. kind = "quality" /\ {r, s} \cap revived # {}
        BY <2>1 DEF OneOpenRun
      <3> QED
        BY <3>1
    <2> QED
      BY <2>1
  <1> QED
    BY <1>1, <1>2

LEMMA EnqueueOpens ==
    ASSUME IInv, EndedHasJob, OneOpenRun, NEW r \in Runs, Enqueue(r)
    PROVE  EndedHasJob' /\ OneOpenRun'
  <1>1. /\ run'[r].status = "queued" /\ run'[r].input = input
        /\ \A s \in Runs \ {r} : run'[s] = run[s] /\ job'[s] = job[s]
        /\ UNCHANGED <<kind, revived>>
    BY DEF Enqueue, IInv, RunsGood, JobsGood, fixed
  <1>2. EndedHasJob'
    BY <1>1 DEF EndedHasJob, Ended
  <1>3. \A s \in Runs : ~(run[s].status \in Open /\ (kind = "quality" => run[s].input = input))
    BY DEF Enqueue, Unreviewed
  <1>4. OneOpenRun'
    <2> SUFFICES ASSUME NEW q \in Runs, NEW s \in Runs, q # s,
                        run'[q].status \in Open, run'[s].status \in Open,
                        kind = "quality" => run'[q].input = run'[s].input
                 PROVE  kind = "quality" /\ {q, s} \cap revived # {}
      BY <1>1 DEF OneOpenRun, Open
    <2>1. q # r /\ s # r
      BY <1>1, <1>3
    <2> QED
      BY <1>1, <2>1 DEF OneOpenRun
  <1> QED
    BY <1>2, <1>4

(* What one slot writes. *)
LEMMA SlotOpens ==
    ASSUME IInv, EndedHasJob, OneOpenRun, NEW p \in Procs, SlotStep(p)
    PROVE  EndedHasJob' /\ OneOpenRun'
  <1> DEFINE r == slot[p].run
  <1>1. slot[p].pc # "idle" => r \in Runs /\ job[r].status # None /\ run[r].status # None
    BY DEF IInv, SlotsGood, RowsAgree
  <1>2. CASE Claim(p)
    <2>1. PICK q \in Runs : Claimable(q) /\ \A s \in Runs \ {q} : job'[s] = job[s]
      BY <1>2 DEF Claim, IInv, JobsGood
    <2>2. run[q].status \notin Ended
      BY <2>1 DEF Claimable, Expired, EndedHasJob
    <2> QED
      BY <1>2, <2>1, <2>2, NothingOpens DEF Claim, fixed, EndedHasJob
  <1>3. CASE Check(p) \/ Call(p) \/ Save(p) \/ RecordFailure(p)
    BY <1>3, NothingOpens DEF Check, Call, Save, RecordFailure, fixed, EndedHasJob
  <1>4. CASE Mark(p)
    <2>1. r \in Runs /\ run[r].status \in Open \cup Ended
      BY <1>1, <1>4 DEF Mark, IInv, RunsGood, RunRow
    <2>2. UNCHANGED <<kind, job>> /\ revived \subseteq revived'
      BY <1>4 DEF Mark, fixed
    <2>3. CASE UNCHANGED run
      BY <2>2, <2>3, NothingOpens DEF EndedHasJob
    <2>4. CASE run' = [run EXCEPT ![r] = [run[r] EXCEPT !.status = "running"]] /\ Marks(r)
      <3>1. run'[r].status = "running" /\ run'[r].input = run[r].input
            /\ \A s \in Runs \ {r} : run'[s] = run[s]
        BY <2>1, <2>4 DEF IInv, RunsGood, RunRow
      <3>2. run[r].status \in Open \/ (kind = "quality" /\ r \in revived')
        BY <1>4, <2>1, <2>4 DEF Mark, Marks
      <3>3. run'[r].status \notin Ended
        BY <3>1 DEF Ended
      <3> QED
        BY <2>2, <3>1, <3>2, <3>3, NothingOpens DEF EndedHasJob
    <2> QED
      BY <1>4, <2>3, <2>4 DEF Mark, WriteRun
  <1>5. ASSUME NEW status \in {"done", "failed", "queued"}, NEW done,
               Holds(p), slot[p].pc # "idle", EndJob(r, done),
               status # "queued" => done \in {"complete", "failed"},
               run'[r].status = status /\ run'[r].input = run[r].input,
               \A s \in Runs \ {r} : run'[s] = run[s],
               UNCHANGED <<kind, revived>>
        PROVE  EndedHasJob' /\ OneOpenRun'
    <2>1. r \in Runs /\ run[r].status \in Open
      BY <1>1, <1>5 DEF Holds, EndedHasJob, IInv, RunsGood, RunRow
    <2>2. job'[r].status = done /\ \A s \in Runs \ {r} : job'[s] = job[s]
      BY <1>5, <2>1 DEF EndJob, IInv, JobsGood, JobRow
    <2> HIDE DEF r
    <2> QED
      BY <1>5, <2>1, <2>2, NothingOpens DEF EndedHasJob, Ended
  <1>6. CASE Commit(p)
    <2>1. slot[p].pc # "idle" /\ UNCHANGED <<kind, revived>>
      BY <1>6 DEF Commit, fixed
    <2>2. CASE UNCHANGED <<run, job>>
      BY <2>1, <2>2, NothingOpens DEF EndedHasJob
    <2>3. CASE /\ Holds(p) /\ EndJob(r, "complete")
               /\ run' = [run EXCEPT ![r] = [run[r] EXCEPT !.status = "done", !.selected = slot[p].attempt]]
      <3>1. run'[r].status = "done" /\ run'[r].input = run[r].input /\ \A s \in Runs \ {r} : run'[s] = run[s]
        BY <1>1, <2>1, <2>3 DEF IInv, RunsGood, RunRow
      <3> QED
        BY <1>5, <2>1, <2>3, <3>1
    <2> QED
      BY <1>6, <2>2, <2>3 DEF Commit
  <1>7. CASE End(p)
    <2>1. slot[p].pc # "idle" /\ UNCHANGED <<kind, revived>>
      BY <1>7 DEF End, fixed
    <2>2. CASE UNCHANGED <<run, job>>
      BY <2>1, <2>2, NothingOpens DEF EndedHasJob
    <2>3. ASSUME NEW status \in {"failed", "queued"}, Holds(p),
                 EndJob(r, IF status = "failed" THEN "failed" ELSE "pending"), WriteRun(r, status)
          PROVE  EndedHasJob' /\ OneOpenRun'
      <3>1. run'[r].status = status /\ run'[r].input = run[r].input /\ \A s \in Runs \ {r} : run'[s] = run[s]
        BY <1>1, <2>1, <2>3 DEF WriteRun, IInv, RunsGood, RunRow
      <3>2. CASE status = "failed"
        BY <1>5, <2>1, <2>3, <3>1, <3>2
      <3>3. CASE status = "queued"
        BY <1>5, <2>1, <2>3, <3>1, <3>3
      <3> QED
        BY <3>2, <3>3
    <2> QED
      BY <1>7, <2>2, <2>3 DEF End, Statuses
  <1> QED
    BY <1>2, <1>3, <1>4, <1>6, <1>7 DEF SlotStep

LEMMA SweepOpens ==
    ASSUME IInv, EndedHasJob, OneOpenRun, NEW p \in Procs, SweepStep(p)
    PROVE  EndedHasJob' /\ OneOpenRun'
  <1>1. CASE SweepJobs(p)
    <2>1. \A r \in Runs : job'[r].status = IF r \in Exhausted THEN "failed" ELSE job[r].status
      <3>1. \A r \in Runs : job[r] \in JobRow
        BY DEF IInv, JobsGood
      <3> QED
        BY <1>1, <3>1 DEF SweepJobs, JobRow
    <2> QED
      BY <1>1, <2>1, NothingOpens DEF SweepJobs, fixed, EndedHasJob
  <1>2. CASE SweepRun(p)
    <2>1. PICK r \in sweep[p] : UNCHANGED run \/ WriteRun(r, "failed")
      BY <1>2 DEF SweepRun
    <2>2. r \in Runs /\ job[r].status = "failed" /\ UNCHANGED <<kind, job, revived>>
      BY <1>2, <2>1 DEF SweepRun, fixed, IInv, SweepsGood, RowsAgree
    <2>3. CASE UNCHANGED run
      BY <2>2, <2>3, NothingOpens DEF EndedHasJob
    <2>4. CASE WriteRun(r, "failed")
      <3>1. run'[r].status = "failed" /\ run'[r].input = run[r].input /\ \A s \in Runs \ {r} : run'[s] = run[s]
        BY <2>2, <2>4 DEF WriteRun, IInv, RunsGood, RunRow
      <3>2. run'[r].status \notin Open
        BY <3>1 DEF Open
      <3> QED
        BY <2>2, <3>1, <3>2, NothingOpens DEF EndedHasJob
    <2> QED
      BY <2>1, <2>3, <2>4
  <1> QED
    BY <1>1, <1>2 DEF SweepStep

LEMMA OpenStep == IInv /\ EndedHasJob /\ OneOpenRun /\ [Next]_vars => EndedHasJob' /\ OneOpenRun'
  <1> SUFFICES ASSUME IInv, EndedHasJob, OneOpenRun, [Next]_vars PROVE EndedHasJob' /\ OneOpenRun'
    OBVIOUS
  <1>1. CASE UNCHANGED <<kind, run, revived>> /\ \A r \in Runs : job'[r].status = job[r].status
    BY <1>1, NothingOpens DEF EndedHasJob
  <1>2. ASSUME NEW r \in Runs, LeaseExpires(r) \/ Stall(r)
        PROVE  UNCHANGED <<kind, run, revived>> /\ \A q \in Runs : job'[q].status = job[q].status
    <2>1. job' = [job EXCEPT ![r] = [job[r] EXCEPT !.live = FALSE]] /\ UNCHANGED <<kind, run, revived>>
      BY <1>2 DEF LeaseExpires, Stall, fixed
    <2>2. job[r] \in JobRow
      BY DEF IInv, JobsGood
    <2> QED
      BY <2>1, <2>2 DEF IInv, JobsGood, JobRow
  <1>3. ASSUME NEW p \in Procs, Fault(p) \/ SweepFault(p) \/ Crash(p) \/ Start(p)
        PROVE  UNCHANGED <<kind, run, revived, job>>
    BY <1>3 DEF Fault, SweepFault, Crash, Start, fixed
  <1>4. CASE InputChanges \/ UNCHANGED vars
    BY <1>1, <1>4 DEF InputChanges, vars
  <1>5. ASSUME NEW p \in Procs, SlotStep(p) \/ SweepStep(p) PROVE EndedHasJob' /\ OneOpenRun'
    BY <1>5, SlotOpens, SweepOpens
  <1> QED
    BY <1>1, <1>2, <1>3, <1>4, <1>5, EnqueueOpens DEF Next

(* answer-analysis.ts:76, article-quality.ts:244: at most one open run,    *)
(* however often runs are given back, taken over, swept and requested.     *)
THEOREM OneOpenSafe == Spec => []OneOpenRun
  <1>1. Init => EndedHasJob /\ OneOpenRun
    BY ConstantFacts DEF Init, EndedHasJob, OneOpenRun, Ended, Open
  <1> QED
    BY <1>1, Inductive, OpenStep, PTL DEF Spec

-----------------------------------------------------------------------------
(* An open run is moving.  What is given back has an attempt left, because *)
(* a slot that still holds a lease carries the number of the last attempt. *)
Attempted ==
    /\ \A r \in Runs : job[r].status = None => job[r].attempts = 0
    /\ \A p \in Procs : slot[p].pc # "idle" /\ job[slot[p].run].owner = p
                            => slot[p].attempt = job[slot[p].run].attempts

(* What all steps but a claim do to jobs and slots. *)
JobsKeep == \A r \in Runs :
    /\ job'[r].attempts = job[r].attempts
    /\ job'[r].status = None => job[r].status = None
    /\ job'[r].owner \in {job[r].owner, None}
SlotsKeep == \A p \in Procs :
    \/ slot'[p].pc = "idle"
    \/ slot[p].pc # "idle" /\ slot'[p].run = slot[p].run /\ slot'[p].attempt = slot[p].attempt

LEMMA KeptAttempts ==
    ASSUME IInv, Attempted, JobsKeep, SlotsKeep
    PROVE  Attempted'
  <1>1. \A r \in Runs : job'[r].status = None => job'[r].attempts = 0
    BY DEF JobsKeep, Attempted
  <1>2. ASSUME NEW p \in Procs, slot'[p].pc # "idle", job'[slot'[p].run].owner = p
        PROVE  slot'[p].attempt = job'[slot'[p].run].attempts
    <2>1. slot[p].pc # "idle" /\ slot'[p].run = slot[p].run /\ slot'[p].attempt = slot[p].attempt
      BY <1>2 DEF SlotsKeep
    <2>2. slot[p].run \in Runs
      BY <2>1 DEF IInv, SlotsGood
    <2>3. job[slot[p].run].owner = p
      BY <1>2, <2>1, <2>2, ConstantFacts DEF JobsKeep
    <2> QED
      BY <2>1, <2>2, <2>3 DEF JobsKeep, Attempted
  <1> QED
    BY <1>1, <1>2 DEF Attempted

LEMMA SlotsKept ==
    ASSUME IInv, NEW p \in Procs,
           SlotTo(p, IdleSlot) \/ (slot[p].pc # "idle" /\ \E pc \in SlotPc : SlotAt(p, pc))
    PROVE  SlotsKeep
  <1>1. slot \in [Procs -> SlotState]
    BY DEF IInv, SlotsGood
  <1>2. CASE SlotTo(p, IdleSlot)
    BY <1>1, <1>2 DEF SlotTo, IdleSlot, SlotsKeep
  <1>3. ASSUME NEW pc \in SlotPc, slot[p].pc # "idle", SlotAt(p, pc) PROVE SlotsKeep
    BY <1>1, <1>3 DEF SlotAt, SlotTo, SlotState, SlotsKeep
  <1> QED
    BY <1>2, <1>3

LEMMA JobsKept ==
    ASSUME IInv, NEW r \in Runs, NEW st \in {"pending", "complete", "failed"},
           job' \in [Runs -> JobRow], \A q \in Runs \ {r} : job'[q] = job[q],
           job'[r] = [job[r] EXCEPT !.status = st, !.owner = None, !.live = FALSE]
    PROVE  JobsKeep
  <1>1. job[r] \in JobRow
    BY DEF IInv, JobsGood
  <1>2. job'[r].attempts = job[r].attempts /\ job'[r].status = st /\ job'[r].owner = None
    BY <1>1 DEF JobRow
  <1> QED
    BY <1>2, ConstantFacts DEF JobsKeep

LEMMA EndedKeeps ==
    ASSUME IInv, NEW r \in Runs, NEW st \in {"pending", "complete", "failed"}, EndJob(r, st)
    PROVE  JobsKeep
  <1>1. job' \in [Runs -> JobRow] /\ \A q \in Runs \ {r} : job'[q] = job[q]
    BY JobEnded DEF JobsGood
  <1>2. job'[r] = [job[r] EXCEPT !.status = st, !.owner = None, !.live = FALSE]
    BY DEF EndJob, IInv, JobsGood
  <1> QED
    BY <1>1, <1>2, JobsKept

LEMMA AttemptedStep == IInv /\ Attempted /\ [Next]_vars => Attempted'
  <1> SUFFICES ASSUME IInv, Attempted, [Next]_vars PROVE Attempted'
    OBVIOUS
  <1>1. CASE UNCHANGED job
    <2>1. JobsKeep
      BY <1>1 DEF JobsKeep
    <2>2. ASSUME UNCHANGED slot PROVE SlotsKeep
      BY <2>2 DEF SlotsKeep
    <2>3. ASSUME NEW p \in Procs, Check(p) \/ Mark(p) \/ Call(p) \/ Save(p) \/ RecordFailure(p)
          PROVE  SlotsKeep
      BY <2>3, SlotsKept DEF Check, Mark, Call, Save, RecordFailure, SlotPc
    <2>4. ASSUME NEW p \in Procs, Commit(p) \/ End(p) \/ Fault(p) \/ Crash(p) PROVE SlotsKeep
      BY <2>4, SlotsKept DEF Commit, End, Fault, Crash, SlotPc
    <2>5. ASSUME NEW p \in Procs, Claim(p) PROVE Attempted'
      <3>1. PICK q \in Runs : /\ job' = [job EXCEPT ![q] = [job[q] EXCEPT !.status = "leased", !.owner = p,
                                           !.live = TRUE, !.attempts = job[q].attempts + 1]]
                              /\ Claimable(q)
        BY <2>5 DEF Claim
      <3>2. job[q].attempts \in Nat /\ job'[q].attempts = job[q].attempts + 1
        BY <3>1, ConstantFacts DEF IInv, JobsGood, JobRow
      <3> QED
        BY <1>1, <3>2
    <2>6. CASE UNCHANGED slot \/ \E p \in Procs : SlotStep(p) \/ Fault(p) \/ Crash(p)
      BY <2>1, <2>2, <2>3, <2>4, <2>5, <2>6, KeptAttempts DEF SlotStep
    <2> QED
      BY <2>6 DEF Next, Enqueue, LeaseExpires, Stall, InputChanges, SweepStep, SweepJobs, SweepRun,
                  SweepFault, Start, vars
  <1>2. ASSUME NEW p \in Procs, Claim(p) PROVE Attempted'
    <2>1. PICK q \in Runs :
            /\ Claimable(q)
            /\ job' = [job EXCEPT ![q] = [job[q] EXCEPT !.status = "leased", !.owner = p,
                                           !.live = TRUE, !.attempts = job[q].attempts + 1]]
            /\ SlotTo(p, [pc |-> "checking", run |-> q, attempt |-> job[q].attempts + 1])
      BY <1>2 DEF Claim
    <2>2. job[q] \in JobRow
      BY DEF IInv, JobsGood
    <2>3. /\ job'[q].status = "leased" /\ job'[q].owner = p /\ job'[q].attempts = job[q].attempts + 1
          /\ \A r \in Runs \ {q} : job'[r] = job[r]
      BY <2>1, <2>2 DEF IInv, JobsGood, JobRow
    <2>4. /\ slot'[p].run = q /\ slot'[p].attempt = job[q].attempts + 1
          /\ \A u \in Procs \ {p} : slot'[u] = slot[u]
      BY <2>1 DEF SlotTo, IInv, SlotsGood
    <2>5. ASSUME NEW u \in Procs, slot'[u].pc # "idle", job'[slot'[u].run].owner = u
          PROVE  slot'[u].attempt = job'[slot'[u].run].attempts
      <3>1. CASE u = p
        BY <2>3, <2>4, <3>1
      <3>2. CASE u # p
        <4>1. slot'[u] = slot[u] /\ slot[u].run \in Runs
          BY <2>4, <2>5, <3>2 DEF IInv, SlotsGood
        <4>2. slot[u].run # q
          BY <2>3, <2>5, <3>2, <4>1
        <4> QED
          BY <2>3, <2>5, <4>1, <4>2 DEF Attempted
      <3> QED
        BY <3>1, <3>2
    <2>6. ASSUME NEW r \in Runs, job'[r].status = None PROVE job'[r].attempts = 0
      BY <2>3, <2>6, ConstantFacts DEF Attempted
    <2> QED
      BY <2>5, <2>6 DEF Attempted
  <1>3. ASSUME NEW p \in Procs, Commit(p) PROVE Attempted'
    <2>1. CASE EndJob(slot[p].run, "complete") /\ SlotTo(p, IdleSlot)
      <3>1. slot[p].run \in Runs
        BY <1>3 DEF Commit, IInv, SlotsGood
      <3> QED
        BY <2>1, <3>1, EndedKeeps, SlotsKept, KeptAttempts
    <2> QED
      BY <1>1, <1>3, <2>1 DEF Commit
  <1>4. ASSUME NEW p \in Procs, End(p) PROVE Attempted'
    <2>1. SlotsKeep
      BY <1>4, SlotsKept DEF End
    <2>2. slot[p].run \in Runs
      BY <1>4 DEF End, IInv, SlotsGood
    <2>3. ASSUME NEW st \in {"failed", "pending"}, EndJob(slot[p].run, st) PROVE Attempted'
      BY <2>1, <2>2, <2>3, EndedKeeps, KeptAttempts
    <2> QED
      BY <1>1, <1>4, <2>3 DEF End
  <1>5. ASSUME UNCHANGED slot, JobsKeep PROVE Attempted'
    BY <1>5, KeptAttempts DEF SlotsKeep
  <1>6. ASSUME NEW r \in Runs, Enqueue(r) PROVE Attempted'
    <2>1. /\ job' = [job EXCEPT ![r] = [job[r] EXCEPT !.status = "pending"]] /\ UNCHANGED slot
          /\ job[r] \in JobRow
      BY <1>6 DEF Enqueue, IInv, JobsGood
    <2>2. JobsKeep
      BY <2>1, ConstantFacts DEF JobsKeep, JobRow, IInv, JobsGood
    <2> QED
      BY <1>5, <2>1, <2>2
  <1>7. ASSUME NEW r \in Runs, LeaseExpires(r) \/ Stall(r) PROVE Attempted'
    <2>1. /\ job' = [job EXCEPT ![r] = [job[r] EXCEPT !.live = FALSE]] /\ UNCHANGED slot
          /\ job[r] \in JobRow
      BY <1>7 DEF LeaseExpires, Stall, IInv, JobsGood
    <2>2. JobsKeep
      BY <2>1 DEF JobsKeep, JobRow, IInv, JobsGood
    <2> QED
      BY <1>5, <2>1, <2>2
  <1>8. ASSUME NEW p \in Procs, SweepJobs(p) PROVE Attempted'
    <2>1. \A r \in Runs : job[r] \in JobRow
      BY DEF IInv, JobsGood
    <2>2. JobsKeep
      BY <1>8, <2>1, ConstantFacts DEF SweepJobs, JobsKeep, JobRow
    <2> QED
      BY <1>5, <1>8, <2>2 DEF SweepJobs
  <1> QED
    BY <1>1, <1>2, <1>3, <1>4, <1>6, <1>7, <1>8
       DEF Next, InputChanges, SlotStep, SweepStep, Check, Mark, Call, Save, RecordFailure, Fault,
           SweepRun, SweepFault, Crash, Start, vars

Moving(r) ==
    run[r].status \in Open =>
        \/ job[r].status = "pending" /\ job[r].attempts < MaxAttempts
        \/ job[r].status = "leased"
        \/ \E p \in Procs : r \in sweep[p]
        \/ r \in cut \cup revived

(* A step that opens no run, ends no job and takes nothing from a sweep.   *)
LEMMA StillMoving ==
    ASSUME OpenRunIsMoving, cut \subseteq cut', revived \subseteq revived',
           \A p \in Procs : sweep[p] \subseteq sweep'[p] \cup cut',
           NEW r \in Runs, run'[r].status \in Open => run[r].status \in Open \/ r \in revived',
           job'[r].status = job[r].status, job'[r].attempts = job[r].attempts
    PROVE  Moving(r)'
  BY DEF OpenRunIsMoving, Moving

LEMMA SlotMoving ==
    ASSUME IInv, Attempted, OpenRunIsMoving, NEW p \in Procs, SlotStep(p),
           NEW r, r = slot[p].run
    PROVE  \A q \in Runs : Moving(q)'
  <1>0. UNCHANGED <<sweep, cut>> /\ revived \subseteq revived'
    BY DEF SlotStep, Claim, Check, Mark, Call, Save, Commit, RecordFailure, End
  <1>1. ASSUME NEW q \in Runs, run'[q].status \in Open => run[q].status \in Open \/ q \in revived',
               job'[q].status = job[q].status, job'[q].attempts = job[q].attempts
        PROVE  Moving(q)'
    BY <1>0, <1>1, StillMoving
  <1>2. CASE UNCHANGED <<run, job>>
    BY <1>1, <1>2
  <1>3. CASE Claim(p)
    <2>1. PICK i \in Runs :
            job' = [job EXCEPT ![i] = [job[i] EXCEPT !.status = "leased", !.owner = p,
                                           !.live = TRUE, !.attempts = job[i].attempts + 1]]
      BY <1>3 DEF Claim
    <2>2. job[i] \in JobRow
      BY DEF IInv, JobsGood
    <2>3. job'[i].status = "leased" /\ \A q \in Runs \ {i} : job'[q] = job[q]
      BY <2>1, <2>2 DEF IInv, JobsGood, JobRow
    <2>4. Moving(i)'
      BY <2>3 DEF Moving
    <2> QED
      BY <1>1, <1>3, <2>3, <2>4 DEF Claim
  <1>4. CASE Mark(p)
    <2>1. r \in Runs /\ UNCHANGED job
      BY <1>4 DEF Mark, IInv, SlotsGood
    <2>2. CASE UNCHANGED run
      BY <1>2, <2>1, <2>2
    <2>3. CASE WriteRun(r, "running") /\ Marks(r)
      <3>1. \A q \in Runs \ {r} : run'[q] = run[q]
        BY <2>3 DEF WriteRun, IInv, RunsGood
      <3>2. run[r].status \in Open \cup Ended
        <4>1. run[r].status # None /\ run[r] \in RunRow
          BY <1>4, <2>1 DEF Mark, IInv, SlotsGood, RowsAgree, RunsGood
        <4> QED
          BY <4>1 DEF RunRow
      <3>3. run[r].status \in Open \/ r \in revived'
        BY <1>4, <2>3, <3>2 DEF Mark
      <3> QED
        BY <1>1, <2>1, <3>1, <3>3
    <2> QED
      BY <1>4, <2>2, <2>3 DEF Mark
  <1>5. CASE Commit(p)
    <2>1. r \in Runs
      BY <1>5 DEF Commit, IInv, SlotsGood
    <2>2. CASE EndJob(r, "complete")
               /\ run' = [run EXCEPT ![r] = [run[r] EXCEPT !.status = "done", !.selected = slot[p].attempt]]
      <3>1. \A q \in Runs \ {r} : run'[q] = run[q] /\ job'[q] = job[q]
        BY <2>2 DEF EndJob, IInv, RunsGood, JobsGood
      <3>2. run[r] \in RunRow /\ run'[r] = [run[r] EXCEPT !.status = "done", !.selected = slot[p].attempt]
        BY <2>1, <2>2 DEF IInv, RunsGood
      <3>3. run'[r].status = "done"
        BY <3>2 DEF RunRow
      <3>4. Moving(r)'
        BY <3>3 DEF Moving, Open
      <3> QED
        BY <1>1, <3>1, <3>4
    <2> QED
      BY <1>2, <1>5, <2>2 DEF Commit
  <1>6. CASE End(p)
    <2>1. r \in Runs /\ slot[p].pc # "idle" /\ slot[p].attempt \in 0..MaxAttempts
      BY <1>6 DEF End, IInv, SlotsGood, SlotState
    <2>2. ASSUME NEW st \in Statuses(p), Holds(p), WriteRun(r, st),
                 EndJob(r, IF st = "failed" THEN "failed" ELSE "pending")
          PROVE  \A q \in Runs : Moving(q)'
      <3>1. run[r] \in RunRow /\ job[r] \in JobRow
        BY <2>1 DEF IInv, RunsGood, JobsGood
      <3>2. \A q \in Runs \ {r} : run'[q] = run[q] /\ job'[q] = job[q]
        BY <2>2 DEF WriteRun, EndJob, IInv, RunsGood, JobsGood
      <3>3. CASE st = "failed"
        <4>1. run'[r].status = "failed"
          BY <2>1, <2>2, <3>1, <3>3 DEF WriteRun, RunRow, IInv, RunsGood
        <4> QED
          BY <1>1, <3>2, <4>1 DEF Moving, Open
      <3>4. CASE st = "queued" /\ slot[p].attempt < MaxAttempts
        <4>1. EndJob(r, "pending")
          BY <2>2, <3>4
        <4>2. job'[r].status = "pending" /\ job'[r].attempts = job[r].attempts
          BY <2>1, <3>1, <4>1 DEF EndJob, JobRow, IInv, JobsGood
        <4>3. job[r].attempts = slot[p].attempt
          BY <2>1, <2>2 DEF Attempted, Holds
        <4>4. Moving(r)'
          BY <3>4, <4>2, <4>3 DEF Moving
        <4> QED
          BY <1>1, <3>2, <4>4
      <3> QED
        BY <2>1, <3>3, <3>4, ConstantFacts DEF Statuses
    <2> QED
      BY <1>2, <1>6, <2>2 DEF End
  <1> QED
    BY <1>2, <1>3, <1>4, <1>5, <1>6 DEF SlotStep, Check, Call, Save, RecordFailure

LEMMA MovingStep == IInv /\ Attempted /\ OpenRunIsMoving /\ [Next]_vars => OpenRunIsMoving'
  <1> SUFFICES ASSUME IInv, Attempted, OpenRunIsMoving, [Next]_vars PROVE \A q \in Runs : Moving(q)'
    BY DEF OpenRunIsMoving, Moving
  <1>1. ASSUME NEW r \in Runs, Enqueue(r) PROVE \A q \in Runs : Moving(q)'
    <2>1. /\ run[r].status = None /\ job[r].status = None
          /\ job' = [job EXCEPT ![r] = [job[r] EXCEPT !.status = "pending"]]
          /\ job[r] \in JobRow
      BY <1>1 DEF Enqueue, IInv, RowsAgree, JobsGood
    <2>2. /\ job'[r].status = "pending" /\ job'[r].attempts = job[r].attempts
          /\ \A q \in Runs \ {r} : run'[q] = run[q] /\ job'[q] = job[q]
      BY <1>1, <2>1 DEF Enqueue, JobRow, IInv, JobsGood, RunsGood
    <2>3. job[r].attempts < MaxAttempts
      BY <2>1, ConstantFacts DEF Attempted
    <2>4. Moving(r)'
      BY <2>2, <2>3 DEF Moving
    <2> QED
      BY <1>1, <2>2, <2>4, StillMoving DEF Enqueue
  <1>2. ASSUME NEW r \in Runs, LeaseExpires(r) \/ Stall(r) PROVE \A q \in Runs : Moving(q)'
    <2>1. job' = [job EXCEPT ![r] = [job[r] EXCEPT !.live = FALSE]] /\ job[r] \in JobRow
      BY <1>2 DEF LeaseExpires, Stall, IInv, JobsGood
    <2>2. \A q \in Runs : job'[q].status = job[q].status /\ job'[q].attempts = job[q].attempts
      BY <2>1 DEF JobRow, IInv, JobsGood
    <2> QED
      BY <1>2, <2>2, StillMoving DEF LeaseExpires, Stall
  <1>3. ASSUME NEW p \in Procs, SweepJobs(p) PROVE \A q \in Runs : Moving(q)'
    <2>1. \A q \in Procs : sweep[q] \subseteq sweep'[q]
      BY <1>3 DEF SweepJobs, IInv, SweepsGood
    <2>2. ASSUME NEW q \in Exhausted PROVE Moving(q)'
      BY <1>3 DEF SweepJobs, Moving, IInv, SweepsGood
    <2>3. ASSUME NEW q \in Runs, q \notin Exhausted PROVE Moving(q)'
      BY <1>3, <2>1, <2>3, StillMoving DEF SweepJobs
    <2> QED
      BY <2>2, <2>3
  <1>4. ASSUME NEW p \in Procs, SweepRun(p) PROVE \A q \in Runs : Moving(q)'
    <2>1. PICK r \in sweep[p] :
            /\ IF run[r].status \in Open THEN WriteRun(r, "failed") ELSE UNCHANGED run
            /\ sweep' = [sweep EXCEPT ![p] = sweep[p] \ {r}]
      BY <1>4 DEF SweepRun
    <2>2. r \in Runs
      BY <2>1 DEF IInv, SweepsGood
    <2>3. run'[r].status \notin Open
      <3>1. run[r] \in RunRow
        BY <2>2 DEF IInv, RunsGood
      <3> QED
        BY <2>1, <2>2, <3>1 DEF WriteRun, IInv, RunsGood, RunRow, Open
    <2>4. \A q \in Runs \ {r} : run'[q] = run[q]
      BY <2>1 DEF WriteRun, IInv, RunsGood
    <2>5. \A u \in Procs, q \in Runs \ {r} : q \in sweep[u] => q \in sweep'[u]
      BY <2>1 DEF IInv, SweepsGood
    <2>6. UNCHANGED <<job, cut, revived>>
      BY <1>4 DEF SweepRun
    <2>7. Moving(r)'
      BY <2>3 DEF Moving
    <2>8. ASSUME NEW q \in Runs \ {r} PROVE Moving(q)'
      BY <2>4, <2>5, <2>6 DEF OpenRunIsMoving, Moving
    <2> QED
      BY <2>7, <2>8
  <1>5. ASSUME NEW p \in Procs, SweepFault(p) \/ Crash(p) PROVE \A q \in Runs : Moving(q)'
    <2>1. \A u \in Procs : sweep[u] \subseteq sweep'[u] \cup cut'
      BY <1>5 DEF SweepFault, Crash, IInv, SweepsGood
    <2> QED
      BY <1>5, <2>1, StillMoving DEF SweepFault, Crash
  <1>6. CASE UNCHANGED <<run, job, sweep, cut, revived>>
    BY <1>6, StillMoving
  <1>7. ASSUME NEW p \in Procs, SlotStep(p) PROVE \A q \in Runs : Moving(q)'
    BY <1>7, SlotMoving
  <1> QED
    BY <1>1, <1>2, <1>3, <1>4, <1>5, <1>6, <1>7
       DEF Next, InputChanges, Fault, Start, SweepStep, vars

(* queue-recovery.ts:5, article-quality.ts:521: no open run is left without*)
(* a job to claim, a lease to run out or a sweep to fail it, however often *)
(* slots, faults, late workers and sweeps take it from each other.         *)
THEOREM MovingSafe == Spec => []OpenRunIsMoving
  <1>1. Init => Attempted /\ OpenRunIsMoving
    BY ConstantFacts DEF Init, Attempted, OpenRunIsMoving, IdleSlot, Open
  <1> QED
    BY <1>1, Inductive, AttemptedStep, MovingStep, PTL DEF Spec
=============================================================================
