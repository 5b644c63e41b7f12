------------------------- MODULE MeasurementProofs -------------------------
(***************************************************************************)
(* Proofs about measurement, for any number of answers, slots, runs,       *)
(* reviews, attempts and failures: for snapshots with one semantic         *)
(* worker, as the documentation deploys it, whatever its slots do.         *)
(*                                                                         *)
(* Freezing reads three times before it writes, and holds only the lock of *)
(* the run's row.  FreezeSafe says that what each read found stays true    *)
(* until the write: an ended job stays as it is, a closed batch gets no    *)
(* answers, a selection needs a leased job or the lock, and the only one   *)
(* who queues jobs is the coordinator itself.                              *)
(*                                                                         *)
(* The types come last.  A parse selects its observation only where none   *)
(* is selected yet, so there are no more observations than human reviews   *)
(* and answers with a selection together (SelectionsTyped).                *)
(***************************************************************************)
EXTENDS Measurement, FiniteSetTheorems, TLAPS

JobRow == [status : {"absent", "pending", "leased", "complete", "failed"},
           owner : Procs \cup {None}, live : BOOLEAN, attempts : Nat]
SlotRow == [pc : {"idle", "starting", "parsing", "committing", "failing"}, run : Runs,
            capture : Captures \cup {None}, found : BOOLEAN]
CoordRow == [pc : {"idle", "queueing", "listing", "freezing", "counting", "checking",
                   "reading", "writing", "giving up"},
             todo : SUBSET Runs, run : Runs \cup {None}, read : [Captures -> Nat \cup {None}]]

(* The part of the types the argument needs. *)
Types ==
    /\ sample \in [Captures -> {"open", "answered", "lost"}] /\ closed \in BOOLEAN
    /\ runs \in Runs
    /\ job \in [Runs -> [Captures -> JobRow]]
    /\ selected \in [Runs -> [Captures -> Nat]] /\ made \in Nat
    /\ snapshot \in [Runs -> [Captures -> Nat \cup {None}]]
    /\ slot \in [Workers -> SlotRow]
    /\ \A w \in Workers : slot[w].pc # "idle" => slot[w].capture \in Captures
    /\ coord \in [Procs -> CoordRow]
    /\ reviews \in Nat

(* Only answers have jobs, and only leased jobs have an owner. *)
JobsGood == \A r \in Runs, c \in Captures :
    /\ job[r][c].status # "absent" => sample[c] = "answered"
    /\ job[r][c].owner # None <=> job[r][c].status = "leased"
    /\ job[r][c].live => job[r][c].status = "leased"

Over(r, c) == job[r][c].status \in {"complete", "failed"}
AllOver(r) == \A c \in Captures : sample[c] = "answered" => Over(r, c)

ClosedGood == closed => \A c \in Captures : sample[c] # "open"

Working == {"counting", "checking", "reading", "writing"}

(* What a transaction that freezes a run knows at each of its statements.  *)
FreezeSafe(s) ==
    /\ s.todo # {} => closed
    /\ s.pc \in Working => s.run \in Runs /\ closed
    /\ s.pc = "checking" => NothingOpen(s.run)
    /\ s.pc \in {"reading", "writing"} => AllOver(s.run)
    /\ s.pc = "writing" => s.read = selected[s.run]

SnapshotsGood == \A r \in Runs : snapshot[r] # NoSnapshot =>
    /\ closed /\ snapshot[r] = selected[r] /\ AllOver(r)

IInv == /\ Types /\ JobsGood /\ ClosedGood
        /\ \A p \in Procs : FreezeSafe(coord[p])
        /\ SnapshotsGood

OneWorker == \A p, q \in Procs : p = q

-----------------------------------------------------------------------------
LEMMA Initial == Init => IInv
  <1> SUFFICES ASSUME Init PROVE IInv
    OBVIOUS
  <1> USE MeasurementAssumption
  <1>1. Types
    <2>1. NoJob \in JobRow /\ IdleSlot \in SlotRow /\ IdleSlot.pc = "idle" /\ 1 \in Runs
      BY DEF NoJob, JobRow, IdleSlot, SlotRow, Runs
    <2>2. IdleCoord \in CoordRow
      BY DEF IdleCoord, CoordRow, NoSnapshot
    <2>3. job \in [Runs -> [Captures -> JobRow]] /\ slot \in [Workers -> SlotRow] /\ coord \in [Procs -> CoordRow]
      BY <2>1, <2>2 DEF Init
    <2>4. \A w \in Workers : slot[w].pc # "idle" => slot[w].capture \in Captures
      BY <2>1 DEF Init
    <2>5. /\ selected \in [Runs -> [Captures -> Nat]]
          /\ snapshot \in [Runs -> [Captures -> Nat \cup {None}]]
      BY DEF Init, NoSnapshot
    <2> QED
      BY <2>1, <2>3, <2>4, <2>5 DEF Init, Types
  <1>2. JobsGood /\ ClosedGood
    BY DEF Init, JobsGood, ClosedGood, NoJob
  <1>3. \A p \in Procs : FreezeSafe(coord[p])
    BY DEF Init, FreezeSafe, IdleCoord, Working
  <1>4. SnapshotsGood
    BY DEF Init, SnapshotsGood
  <1> QED
    BY <1>1, <1>2, <1>3, <1>4 DEF IInv

-----------------------------------------------------------------------------
(* A step that changes jobs: what has ended stays, nothing is queued for a *)
(* run that is being frozen, and selections change under a lease only.     *)
Kept == \A r \in Runs, c \in Captures :
    /\ Over(r, c) => Over(r, c)'
    /\ JobOpen(r, c)' => JobOpen(r, c) \/ job[r][c].status = "absent"

LEMMA OverStays ==
    ASSUME IInv, Kept, UNCHANGED sample, NEW r \in Runs, AllOver(r)
    PROVE  AllOver(r)'
  BY DEF Kept, AllOver

LEMMA JobWritten ==
    ASSUME IInv, NEW r \in Runs, NEW c \in Captures, NEW row \in JobRow, JobTo(r, c, row),
           UNCHANGED sample,
           JobOpen(r, c),
           row.owner # None <=> row.status = "leased", row.live => row.status = "leased",
           row.status # "absent"
    PROVE  /\ job' \in [Runs -> [Captures -> JobRow]]
           /\ JobsGood' /\ Kept
           /\ \A q \in Runs : NothingOpen(q) => NothingOpen(q)'
  <1>1. /\ job' \in [Runs -> [Captures -> JobRow]]
        /\ \A q \in Runs, d \in Captures : job'[q][d] = IF q = r /\ d = c THEN row ELSE job[q][d]
    <2>1. job \in [Runs -> [Captures -> JobRow]]
      BY DEF IInv, Types
    <2>2. job' = [job EXCEPT ![r] = [job[r] EXCEPT ![c] = row]]
      BY DEF JobTo
    <2>3. [job[r] EXCEPT ![c] = row] \in [Captures -> JobRow]
          /\ \A d \in Captures : [job[r] EXCEPT ![c] = row][d] = IF d = c THEN row ELSE job[r][d]
      BY <2>1
    <2> QED
      BY <2>1, <2>2, <2>3
  <1>2. JobsGood'
    BY <1>1 DEF IInv, JobsGood, JobOpen
  <1>3. Kept
    BY <1>1 DEF Kept, Over, JobOpen
  <1>4. \A q \in Runs : NothingOpen(q) => NothingOpen(q)'
    BY <1>1 DEF NothingOpen, JobOpen
  <1> QED
    BY <1>1, <1>2, <1>3, <1>4

(* The steps that leave selections, snapshots, runs and coordinators alone. *)
LEMMA JobsOnly ==
    ASSUME IInv, job' \in [Runs -> [Captures -> JobRow]], JobsGood', Kept,
           \A q \in Runs : NothingOpen(q) => NothingOpen(q)',
           slot' \in [Workers -> SlotRow],
           \A w \in Workers : slot'[w].pc # "idle" => slot'[w].capture \in Captures,
           UNCHANGED <<sample, closed, runs, selected, made, snapshot, coord, reviews>>
    PROVE  IInv'
  <1>1. Types' /\ ClosedGood'
    BY DEF IInv, Types, ClosedGood
  <1>2. \A p \in Procs : FreezeSafe(coord[p])'
    BY OverStays DEF IInv, FreezeSafe, Working
  <1>3. SnapshotsGood'
    BY OverStays DEF IInv, SnapshotsGood
  <1> QED
    BY <1>1, <1>2, <1>3 DEF IInv

LEMMA SameJobs ==
    ASSUME IInv, UNCHANGED <<sample, job>>
    PROVE  /\ job' \in [Runs -> [Captures -> JobRow]] /\ JobsGood' /\ Kept
           /\ \A q \in Runs : NothingOpen(q) => NothingOpen(q)'
  <1>1. job' \in [Runs -> [Captures -> JobRow]] /\ JobsGood'
    BY DEF IInv, Types, JobsGood
  <1>2. Kept
    BY DEF Kept, Over, JobOpen
  <1>3. \A q \in Runs : NothingOpen(q) => NothingOpen(q)'
    BY DEF NothingOpen, JobOpen
  <1> QED
    BY <1>1, <1>2, <1>3

LEMMA SlotMoved ==
    ASSUME IInv, NEW w \in Workers, NEW s \in SlotRow, SlotTo(w, s),
           s.pc # "idle" => s.capture \in Captures
    PROVE  /\ slot' \in [Workers -> SlotRow]
           /\ \A v \in Workers : slot'[v].pc # "idle" => slot'[v].capture \in Captures
  <1>1. slot \in [Workers -> SlotRow] /\ slot' = [slot EXCEPT ![w] = s]
    BY DEF IInv, Types, SlotTo
  <1>2. slot' \in [Workers -> SlotRow] /\ \A v \in Workers : slot'[v] = IF v = w THEN s ELSE slot[v]
    BY <1>1
  <1> QED
    BY <1>2 DEF IInv, Types

(* What a busy slot refers to. *)
LEMMA SlotFacts ==
    ASSUME IInv, NEW w \in Workers
    PROVE  /\ slot[w] \in SlotRow /\ slot[w].run \in Runs /\ OwnerOf(w) \in Procs
           /\ OwnerOf(w) # None
           /\ IdleSlot \in SlotRow /\ IdleSlot.pc = "idle"
           /\ slot[w].pc # "idle" =>
                /\ slot[w].capture \in Captures
                /\ job[slot[w].run][slot[w].capture] \in JobRow
  <1>1. slot[w] \in SlotRow /\ slot[w].run \in Runs
    BY DEF IInv, Types, SlotRow
  <1>2. OwnerOf(w) \in Procs /\ OwnerOf(w) # None
    BY MeasurementAssumption DEF Workers, OwnerOf
  <1>3. IdleSlot \in SlotRow /\ IdleSlot.pc = "idle"
    BY MeasurementAssumption DEF IdleSlot, SlotRow, Runs
  <1>4. slot[w].pc # "idle" => slot[w].capture \in Captures
    BY DEF IInv, Types
  <1>5. slot[w].pc # "idle" => job[slot[w].run][slot[w].capture] \in JobRow
    BY <1>1, <1>4 DEF IInv, Types
  <1> QED
    BY <1>1, <1>2, <1>3, <1>4, <1>5

-----------------------------------------------------------------------------
(* The slots. *)
LEMMA ClaimStep == ASSUME IInv, NEW w \in Workers, Claim(w) PROVE IInv'
  <1>1. PICK r \in 1..runs, c \in Captures :
          /\ Claimable(r, c)
          /\ JobTo(r, c, [status |-> "leased", owner |-> OwnerOf(w), live |-> TRUE,
                          attempts |-> job[r][c].attempts + 1])
          /\ SlotTo(w, [IdleSlot EXCEPT !.pc = "starting", !.run = r, !.capture = c])
    BY DEF Claim
  <1> DEFINE row == [status |-> "leased", owner |-> OwnerOf(w), live |-> TRUE,
                     attempts |-> job[r][c].attempts + 1]
             s == [IdleSlot EXCEPT !.pc = "starting", !.run = r, !.capture = c]
  <1>2. r \in Runs
    BY MeasurementAssumption DEF IInv, Types, Runs
  <1>3. row \in JobRow /\ row.status = "leased" /\ row.owner # None
    <2>1. job[r][c].attempts \in Nat
      BY <1>2 DEF IInv, Types, JobRow
    <2> QED
      BY <2>1, SlotFacts DEF JobRow
  <1>4. JobOpen(r, c)
    BY <1>1 DEF Claimable, Expired, JobOpen
  <1>5. s \in SlotRow /\ s.capture \in Captures
    BY <1>2, SlotFacts DEF SlotRow, IdleSlot
  <1>6. UNCHANGED <<sample, closed, runs, selected, made, snapshot, coord, reviews>>
    BY DEF Claim, batchVars, results, bounds
  <1>7. JobTo(r, c, row) /\ SlotTo(w, s)
    BY <1>1
  <1> HIDE DEF row, s
  <1> QED
    BY <1>2, <1>3, <1>4, <1>5, <1>6, <1>7, JobWritten, SlotMoved, JobsOnly

(* A slot that goes on without touching its job. *)
LEMMA MoveSteps ==
    ASSUME IInv, NEW w \in Workers, Start(w) \/ Parse(w) \/ FailFault(w) PROVE IInv'
  <1>1. UNCHANGED <<sample, closed, runs, selected, made, snapshot, coord, reviews, job>>
    BY DEF Start, Parse, FailFault, batchVars, results, bounds
  <1>2. PICK s \in SlotRow : SlotTo(w, s) /\ (s.pc # "idle" => s.capture \in Captures)
    <2>1. CASE FailFault(w)
      BY <2>1, SlotFacts DEF FailFault
    <2>2. ASSUME NEW pc \in {"parsing", "failing"}, slot[w].pc # "idle"
          PROVE  /\ [slot[w] EXCEPT !.pc = pc] \in SlotRow
                 /\ [slot[w] EXCEPT !.pc = pc].capture \in Captures
      BY <2>2, SlotFacts DEF SlotRow
    <2>3. ASSUME NEW found \in BOOLEAN, slot[w].pc # "idle"
          PROVE  /\ [slot[w] EXCEPT !.pc = "committing", !.found = found] \in SlotRow
                 /\ [slot[w] EXCEPT !.pc = "committing", !.found = found].capture \in Captures
      BY <2>3, SlotFacts DEF SlotRow
    <2>4. CASE Start(w)
      BY <2>2, <2>4 DEF Start
    <2>5. CASE Parse(w)
      BY <2>2, <2>3, <2>5 DEF Parse
    <2> QED
      BY <2>1, <2>4, <2>5
  <1> QED
    BY <1>1, <1>2, SameJobs, SlotMoved, JobsOnly

(* The catch block gives the job back or ends it. *)
LEMMA FailStep == ASSUME IInv, NEW w \in Workers, Fail(w) PROVE IInv'
  <1> DEFINE r == slot[w].run
             c == slot[w].capture
             j == job[r][c]
             row == [j EXCEPT !.status = IF j.attempts >= MaxAttempts THEN "failed" ELSE "pending",
                              !.owner = None, !.live = FALSE]
  <1>1. /\ slot[w].pc = "failing" /\ SlotTo(w, IdleSlot)
        /\ UNCHANGED job \/ (j.owner = OwnerOf(w) /\ JobTo(r, c, row))
        /\ UNCHANGED <<sample, closed, runs, selected, made, snapshot, coord, reviews>>
    BY DEF Fail, batchVars, results, bounds
  <1>2. r \in Runs /\ c \in Captures /\ j \in JobRow /\ OwnerOf(w) # None
    BY <1>1, SlotFacts
  <1>3. CASE UNCHANGED job
    BY <1>1, <1>3, SlotFacts, SameJobs, SlotMoved, JobsOnly
  <1>4. CASE j.owner = OwnerOf(w) /\ JobTo(r, c, row)
    <2>1. JobOpen(r, c)
      BY <1>2, <1>4 DEF IInv, JobsGood, JobOpen
    <2>2. row \in JobRow /\ row.owner = None /\ ~row.live /\ row.status \in {"failed", "pending"}
      BY <1>2 DEF JobRow
    <2> HIDE DEF r, c, row
    <2>3. /\ job' \in [Runs -> [Captures -> JobRow]] /\ JobsGood' /\ Kept
          /\ \A q \in Runs : NothingOpen(q) => NothingOpen(q)'
      BY <1>1, <1>2, <1>4, <2>1, <2>2, JobWritten
    <2> QED
      BY <1>1, <2>3, SlotFacts, SlotMoved, JobsOnly
  <1> QED
    BY <1>1, <1>3, <1>4

LEMMA RenewStep == ASSUME IInv, NEW w \in Workers, Renew(w) PROVE IInv'
  <1> DEFINE r == slot[w].run
             c == slot[w].capture
             row == [job[r][c] EXCEPT !.live = TRUE]
  <1>1. /\ slot[w].pc # "idle" /\ job[r][c].status = "leased" /\ JobTo(r, c, row)
        /\ UNCHANGED <<sample, closed, runs, selected, made, snapshot, slot, coord, reviews>>
    BY DEF Renew, batchVars, results, bounds
  <1>2. r \in Runs /\ c \in Captures /\ job[r][c] \in JobRow
    BY <1>1, SlotFacts
  <1>3. JobOpen(r, c) /\ job[r][c].owner # None
    BY <1>1, <1>2 DEF IInv, JobsGood, JobOpen
  <1>4. row \in JobRow /\ row.owner # None /\ row.status = "leased"
    BY <1>1, <1>2, <1>3 DEF JobRow
  <1>5. slot' \in [Workers -> SlotRow] /\ \A v \in Workers : slot'[v].pc # "idle" => slot'[v].capture \in Captures
    BY <1>1 DEF IInv, Types
  <1> HIDE DEF r, c, row
  <1>6. /\ job' \in [Runs -> [Captures -> JobRow]] /\ JobsGood' /\ Kept
        /\ \A q \in Runs : NothingOpen(q) => NothingOpen(q)'
    BY <1>1, <1>2, <1>3, <1>4, JobWritten
  <1> QED
    BY <1>1, <1>5, <1>6, JobsOnly

LEMMA LeaseStep ==
    ASSUME IInv, NEW r \in Runs, NEW c \in Captures, LeaseExpires(r, c) PROVE IInv'
  <1> DEFINE row == [job[r][c] EXCEPT !.live = FALSE]
  <1>1. /\ job[r][c].live /\ JobTo(r, c, row)
        /\ UNCHANGED <<sample, closed, runs, selected, made, snapshot, slot, coord, reviews>>
    BY DEF LeaseExpires, batchVars, results, bounds
  <1>2. job[r][c] \in JobRow
    BY DEF IInv, Types
  <1>3. JobOpen(r, c) /\ job[r][c].owner # None /\ job[r][c].status = "leased"
    BY <1>1 DEF IInv, JobsGood, JobOpen
  <1>4. row \in JobRow /\ row.owner # None /\ row.status = "leased"
    BY <1>2, <1>3 DEF JobRow
  <1>5. slot' \in [Workers -> SlotRow] /\ \A v \in Workers : slot'[v].pc # "idle" => slot'[v].capture \in Captures
    BY <1>1 DEF IInv, Types
  <1> HIDE DEF row
  <1>6. /\ job' \in [Runs -> [Captures -> JobRow]] /\ JobsGood' /\ Kept
        /\ \A q \in Runs : NothingOpen(q) => NothingOpen(q)'
    BY <1>1, <1>3, <1>4, JobWritten
  <1> QED
    BY <1>1, <1>5, <1>6, JobsOnly

(* A commit holds the lease, so its run is not over: no snapshot points to *)
(* the selection it adds, and no transaction has read it.                  *)
LEMMA CommitStep == ASSUME IInv, NEW w \in Workers, Commit(w) PROVE IInv'
  <1> DEFINE r == slot[w].run
             c == slot[w].capture
             row == [job[r][c] EXCEPT !.status = "complete", !.owner = None, !.live = FALSE]
             s == [slot[w] EXCEPT !.pc = "failing"]
  <1>1. /\ slot[w].pc = "committing"
        /\ UNCHANGED <<sample, closed, runs, snapshot, coord, reviews>>
        /\ \/ Holds(w) /\ JobTo(r, c, row) /\ Adopt(w) /\ SlotTo(w, IdleSlot)
           \/ SlotTo(w, s) /\ UNCHANGED <<job, selected, made>>
    BY DEF Commit, batchVars, bounds
  <1>2. /\ r \in Runs /\ c \in Captures /\ job[r][c] \in JobRow
        /\ s \in SlotRow /\ s.capture \in Captures
    BY <1>1, SlotFacts DEF SlotRow
  <1>3. CASE SlotTo(w, s) /\ UNCHANGED <<job, selected, made>>
    <2> HIDE DEF s
    <2> QED
      BY <1>1, <1>2, <1>3, SameJobs, SlotMoved, JobsOnly
  <1>4. CASE Holds(w) /\ JobTo(r, c, row) /\ Adopt(w) /\ SlotTo(w, IdleSlot)
    <2>1. job[r][c].status = "leased" /\ JobOpen(r, c)
      BY <1>4 DEF Holds, JobOpen
    <2>2. row \in JobRow /\ row.owner = None /\ ~row.live /\ row.status = "complete"
      BY <1>2 DEF JobRow
    <2>3. ~AllOver(r)
      BY <1>2, <2>1 DEF AllOver, Over, IInv, JobsGood
    <2>4. /\ selected' \in [Runs -> [Captures -> Nat]] /\ made' \in Nat
          /\ \A q \in Runs \ {r} : selected'[q] = selected[q]
      <3>1. CASE selected' = [selected EXCEPT ![r] = [selected[r] EXCEPT ![c] = made + 1]] /\ made' = made + 1
        <4>1. [selected[r] EXCEPT ![c] = made + 1] \in [Captures -> Nat]
          BY <1>2 DEF IInv, Types
        <4> QED
          BY <1>2, <3>1, <4>1 DEF IInv, Types
      <3>2. CASE UNCHANGED <<selected, made>>
        BY <3>2 DEF IInv, Types
      <3> QED
        BY <1>4, <3>1, <3>2 DEF Adopt, Select
    <2> HIDE DEF r, c, row
    <2>5. /\ job' \in [Runs -> [Captures -> JobRow]] /\ JobsGood' /\ Kept
          /\ \A q \in Runs : NothingOpen(q) => NothingOpen(q)'
      BY <1>1, <1>2, <1>4, <2>1, <2>2, JobWritten
    <2>6. Types'
      BY <1>1, <1>4, <2>4, <2>5, SlotFacts, SlotMoved DEF IInv, Types
    <2>7. ClosedGood'
      BY <1>1 DEF IInv, ClosedGood
    <2>8. \A p \in Procs : FreezeSafe(coord[p])'
      BY <1>1, <2>3, <2>4, <2>5, OverStays DEF IInv, FreezeSafe, Working
    <2>9. SnapshotsGood'
      BY <1>1, <2>3, <2>4, <2>5, OverStays DEF IInv, SnapshotsGood
    <2> QED
      BY <2>5, <2>6, <2>7, <2>8, <2>9 DEF IInv
  <1> QED
    BY <1>1, <1>3, <1>4

-----------------------------------------------------------------------------
(* The coordinator: a step that only takes it on.                          *)
LEMMA CoordOnly ==
    ASSUME IInv, NEW p \in Procs, NEW s \in CoordRow, CoordTo(p, s), FreezeSafe(s),
           UNCHANGED <<sample, closed, runs, job, selected, made, snapshot, slot, reviews>>
    PROVE  IInv'
  <1>1. coord' \in [Procs -> CoordRow] /\ \A q \in Procs : coord'[q] = IF q = p THEN s ELSE coord[q]
    BY DEF IInv, Types, CoordTo
  <1>2. Types' /\ JobsGood' /\ ClosedGood'
    BY <1>1 DEF IInv, Types, JobsGood, ClosedGood
  <1>3. \A q \in Procs : FreezeSafe(coord[q])'
    BY <1>1 DEF IInv, FreezeSafe, NothingOpen, JobOpen, AllOver, Over
  <1>4. SnapshotsGood'
    BY DEF IInv, SnapshotsGood, AllOver, Over
  <1> QED
    BY <1>2, <1>3, <1>4 DEF IInv

LEMMA CoordFacts ==
    ASSUME IInv, NEW p \in Procs
    PROVE  /\ coord[p] \in CoordRow /\ FreezeSafe(coord[p])
           /\ \A pc \in {"idle", "queueing", "listing"} :
                 [IdleCoord EXCEPT !.pc = pc] \in CoordRow /\ FreezeSafe([IdleCoord EXCEPT !.pc = pc])
           /\ [IdleCoord EXCEPT !.pc = "freezing", !.todo = coord[p].todo] \in CoordRow
           /\ FreezeSafe([IdleCoord EXCEPT !.pc = "freezing", !.todo = coord[p].todo])
           /\ IdleCoord \in CoordRow /\ FreezeSafe(IdleCoord)
  <1>1. coord[p] \in CoordRow /\ FreezeSafe(coord[p])
    BY DEF IInv, Types
  <1>2. IdleCoord \in CoordRow /\ FreezeSafe(IdleCoord)
    BY DEF IdleCoord, CoordRow, NoSnapshot, FreezeSafe, Working
  <1>3. ASSUME NEW pc \in {"idle", "queueing", "listing"}
        PROVE  [IdleCoord EXCEPT !.pc = pc] \in CoordRow /\ FreezeSafe([IdleCoord EXCEPT !.pc = pc])
    BY DEF IdleCoord, CoordRow, NoSnapshot, FreezeSafe, Working
  <1>4. /\ [IdleCoord EXCEPT !.pc = "freezing", !.todo = coord[p].todo] \in CoordRow
        /\ FreezeSafe([IdleCoord EXCEPT !.pc = "freezing", !.todo = coord[p].todo])
    BY <1>1 DEF IdleCoord, CoordRow, NoSnapshot, FreezeSafe, Working
  <1> QED
    BY <1>1, <1>2, <1>3, <1>4

(* The rest of one freezing transaction, up to its write. *)
LEMMA ReadSteps ==
    ASSUME IInv, NEW p \in Procs,
           List(p) \/ Lock(p) \/ FreezeDone(p) \/ CountOpen(p) \/ CheckMissing(p) \/ ReadSelections(p)
           \/ FreezeFault(p) \/ GiveUp(p) \/ TickFault(p)
    PROVE  IInv'
  <1> DEFINE s == coord[p]
  <1>1. s \in CoordRow /\ FreezeSafe(s)
    BY CoordFacts
  <1>2. UNCHANGED <<sample, closed, runs, job, selected, made, snapshot, slot, reviews>>
    BY DEF List, Lock, FreezeDone, CountOpen, CheckMissing, ReadSelections, FreezeFault, GiveUp, TickFault,
           batchVars, results, bounds
  <1> SUFFICES \E t \in CoordRow : CoordTo(p, t) /\ FreezeSafe(t)
    BY <1>2, CoordOnly
  <1>3. CASE List(p)
    <2> DEFINE t == [IdleCoord EXCEPT !.pc = "freezing",
                        !.todo = {r \in 1..runs : closed /\ status[r] \in Active}]
    <2>1. t \in CoordRow /\ FreezeSafe(t)
      <3>1. {r \in 1..runs : closed /\ status[r] \in Active} \subseteq Runs
        BY MeasurementAssumption DEF IInv, Types, Runs
      <3> QED
        BY <3>1 DEF IdleCoord, CoordRow, NoSnapshot, FreezeSafe, Working
    <2> QED
      BY <1>3, <2>1 DEF List
  <1>4. CASE Lock(p)
    <2>1. PICK r \in s.todo : CoordTo(p, [s EXCEPT
                       !.pc = IF status[r] \in Active THEN "counting" ELSE "freezing",
                       !.todo = s.todo \ {r},
                       !.run = IF status[r] \in Active THEN r ELSE None])
      BY <1>4 DEF Lock
    <2> DEFINE t == [s EXCEPT !.pc = IF status[r] \in Active THEN "counting" ELSE "freezing",
                              !.todo = s.todo \ {r},
                              !.run = IF status[r] \in Active THEN r ELSE None]
    <2>2. r \in Runs /\ closed
      BY <1>1 DEF CoordRow, FreezeSafe
    <2>3. t \in CoordRow /\ FreezeSafe(t)
      BY <1>1, <2>2 DEF CoordRow, FreezeSafe, Working
    <2> QED
      BY <2>1, <2>3
  <1>5. CASE FreezeDone(p) \/ TickFault(p)
    BY <1>5, CoordFacts DEF FreezeDone, TickFault
  <1>6. CASE CountOpen(p)
    <2> DEFINE t == [s EXCEPT !.pc = "checking"]
    <2>1. NothingOpen(s.run) => t \in CoordRow /\ FreezeSafe(t)
      BY <1>1, <1>6 DEF CountOpen, CoordRow, FreezeSafe, Working
    <2> QED
      BY <1>6, <2>1, CoordFacts DEF CountOpen, NextRun
  <1>7. CASE CheckMissing(p)
    <2> DEFINE t == [s EXCEPT !.pc = "reading"]
    <2>1. s.run \in Runs /\ NothingOpen(s.run)
      BY <1>1, <1>7 DEF CheckMissing, FreezeSafe, Working
    <2>2. NothingMissing(s.run) => AllOver(s.run)
      BY <2>1 DEF NothingMissing, NothingOpen, Answered, AllOver, Over, JobOpen, IInv, Types, JobRow
    <2>3. NothingMissing(s.run) => t \in CoordRow /\ FreezeSafe(t)
      BY <1>1, <1>7, <2>2 DEF CheckMissing, CoordRow, FreezeSafe, Working
    <2> QED
      BY <1>7, <2>3, CoordFacts DEF CheckMissing, NextRun
  <1>8. CASE ReadSelections(p)
    <2> DEFINE t == [s EXCEPT !.pc = "writing", !.read = selected[s.run]]
    <2>1. s.run \in Runs /\ AllOver(s.run) /\ closed /\ (s.todo # {} => closed)
      BY <1>1, <1>8 DEF ReadSelections, FreezeSafe, Working
    <2>2. selected[s.run] \in [Captures -> Nat \cup {None}]
      <3>1. selected[s.run] \in [Captures -> Nat]
        BY <2>1 DEF IInv, Types
      <3> QED
        BY <3>1
    <2>3. t \in CoordRow
      BY <1>1, <2>2 DEF CoordRow
    <2>4. FreezeSafe(t)
      BY <1>1, <2>1 DEF CoordRow, FreezeSafe, Working
    <2> QED
      BY <1>8, <2>3, <2>4 DEF ReadSelections
  <1>9. CASE FreezeFault(p)
    <2> DEFINE t == [s EXCEPT !.pc = "giving up", !.read = NoSnapshot]
    <2>1. t \in CoordRow /\ FreezeSafe(t)
      BY <1>1 DEF CoordRow, NoSnapshot, FreezeSafe, Working
    <2> QED
      BY <1>9, <2>1 DEF FreezeFault
  <1>10. CASE GiveUp(p)
    BY <1>10, CoordFacts DEF GiveUp, NextRun
  <1> QED
    BY <1>3, <1>4, <1>5, <1>6, <1>7, <1>8, <1>9, <1>10

LEMMA FreezeStep == ASSUME IInv, NEW p \in Procs, Freeze(p) PROVE IInv'
  <1> DEFINE r == coord[p].run
             t == [IdleCoord EXCEPT !.pc = "freezing", !.todo = coord[p].todo]
  <1>1. /\ coord[p].pc = "writing" /\ snapshot' = [snapshot EXCEPT ![r] = coord[p].read] /\ CoordTo(p, t)
        /\ UNCHANGED <<sample, closed, runs, selected, made, job, slot, reviews>>
    BY DEF Freeze, NextRun, batchVars, bounds
  <1>2. r \in Runs /\ closed /\ AllOver(r) /\ coord[p].read = selected[r]
    BY <1>1, CoordFacts DEF FreezeSafe, Working
  <1>3. t \in CoordRow /\ FreezeSafe(t)
    BY CoordFacts
  <1>4. coord[p].read \in [Captures -> Nat \cup {None}]
    BY CoordFacts, ZenonT(40) DEF CoordRow
  <1> HIDE DEF r, t
  <1>5. coord' \in [Procs -> CoordRow] /\ \A q \in Procs : coord'[q] = IF q = p THEN t ELSE coord[q]
    BY <1>1, <1>3 DEF IInv, Types, CoordTo
  <1>6. /\ snapshot' \in [Runs -> [Captures -> Nat \cup {None}]]
        /\ \A q \in Runs : snapshot'[q] = IF q = r THEN selected[r] ELSE snapshot[q]
    BY <1>1, <1>2, <1>4 DEF IInv, Types
  <1>7. Types' /\ JobsGood' /\ ClosedGood'
    BY <1>1, <1>5, <1>6 DEF IInv, Types, JobsGood, ClosedGood
  <1>8. \A q \in Procs : FreezeSafe(coord[q])'
    BY <1>1, <1>3, <1>5 DEF IInv, FreezeSafe, NothingOpen, JobOpen, AllOver, Over
  <1>9. SnapshotsGood'
    BY <1>1, <1>2, <1>6 DEF IInv, SnapshotsGood, AllOver, Over
  <1> QED
    BY <1>7, <1>8, <1>9 DEF IInv

LEMMA SweepStep == ASSUME IInv, NEW p \in Procs, Sweep(p) PROVE IInv'
  <1> DEFINE Row(r, c) == IF Exhausted(r, c)
                          THEN [job[r][c] EXCEPT !.status = "failed", !.owner = None, !.live = FALSE]
                          ELSE job[r][c]
  <1>1. /\ job' = [r \in Runs |-> [c \in Captures |-> Row(r, c)]]
        /\ CoordTo(p, [IdleCoord EXCEPT !.pc = "queueing"])
        /\ UNCHANGED <<sample, closed, runs, selected, made, snapshot, slot, reviews>>
    BY DEF Sweep, batchVars, results, bounds
  <1>2. \A r \in Runs, c \in Captures :
          /\ Row(r, c) \in JobRow
          /\ Row(r, c) = job[r][c]
             \/ (job[r][c].status = "leased" /\ Row(r, c).status = "failed"
                 /\ Row(r, c).owner = None /\ ~Row(r, c).live)
    <2> SUFFICES ASSUME NEW r \in Runs, NEW c \in Captures
                 PROVE  /\ Row(r, c) \in JobRow
                        /\ Row(r, c) = job[r][c]
                           \/ (job[r][c].status = "leased" /\ Row(r, c).status = "failed"
                               /\ Row(r, c).owner = None /\ ~Row(r, c).live)
      OBVIOUS
    <2>1. job[r][c] \in JobRow
      BY DEF IInv, Types
    <2>2. CASE Exhausted(r, c)
      BY <2>1, <2>2 DEF JobRow, Exhausted, Expired
    <2>3. CASE ~Exhausted(r, c)
      BY <2>1, <2>3
    <2> QED
      BY <2>2, <2>3
  <1> HIDE DEF Row
  <1>3. job' \in [Runs -> [Captures -> JobRow]]
        /\ \A r \in Runs, c \in Captures : job'[r][c] = Row(r, c)
    BY <1>1, <1>2
  <1>4. JobsGood'
    BY <1>1, <1>2, <1>3 DEF IInv, JobsGood
  <1>5. Kept
    BY <1>2, <1>3 DEF Kept, Over, JobOpen
  <1>6. \A q \in Runs : NothingOpen(q) => NothingOpen(q)'
    BY <1>2, <1>3 DEF NothingOpen, JobOpen
  <1> DEFINE t == [IdleCoord EXCEPT !.pc = "queueing"]
  <1>7. t \in CoordRow /\ FreezeSafe(t)'
    BY CoordFacts DEF IdleCoord, FreezeSafe, Working
  <1>8. coord' \in [Procs -> CoordRow] /\ \A q \in Procs : coord'[q] = IF q = p THEN t ELSE coord[q]
    BY <1>1, <1>7 DEF IInv, Types, CoordTo
  <1>9. Types' /\ ClosedGood'
    BY <1>1, <1>3, <1>8 DEF IInv, Types, ClosedGood
  <1>10. \A q \in Procs \ {p} : FreezeSafe(coord[q])'
    BY <1>1, <1>5, <1>6, <1>8, OverStays DEF IInv, FreezeSafe, Working
  <1>11. FreezeSafe(coord[p])'
    BY <1>8 DEF FreezeSafe, IdleCoord, Working
  <1>12. SnapshotsGood'
    BY <1>1, <1>5, OverStays DEF IInv, SnapshotsGood
  <1> QED
    BY <1>4, <1>9, <1>10, <1>11, <1>12 DEF IInv

(* Here one worker matters: nobody else is freezing while jobs are queued. *)
LEMMA QueueStep == ASSUME IInv, OneWorker, NEW p \in Procs, Queue(p) PROVE IInv'
  <1> DEFINE New(r, c) == r = runs /\ status[r] \in Active /\ sample[c] = "answered"
                          /\ job[r][c].status = "absent"
             t == [IdleCoord EXCEPT !.pc = "listing"]
  <1>1. /\ job' = [r \in Runs |-> [c \in Captures |-> IF New(r, c) THEN NewJob ELSE job[r][c]]]
        /\ CoordTo(p, t)
        /\ UNCHANGED <<sample, closed, runs, selected, made, snapshot, slot, reviews>>
    BY DEF Queue, batchVars, results, bounds
  <1>2. NewJob \in JobRow /\ NewJob.status = "pending" /\ NewJob.owner = None /\ ~NewJob.live
    BY DEF NewJob, NoJob, JobRow
  <1>3. \A r \in Runs, c \in Captures : New(r, c) => job[r][c].status = "absent" /\ sample[c] = "answered"
    OBVIOUS
  <1> HIDE DEF New
  <1>4. job' \in [Runs -> [Captures -> JobRow]]
        /\ \A r \in Runs, c \in Captures : job'[r][c] = IF New(r, c) THEN NewJob ELSE job[r][c]
    BY <1>1, <1>2 DEF IInv, Types
  <1>5. JobsGood' /\ Kept
    <2>1. JobsGood'
      BY <1>1, <1>2, <1>3, <1>4 DEF IInv, JobsGood
    <2>2. Kept
      BY <1>2, <1>3, <1>4 DEF Kept, Over, JobOpen
    <2> QED
      BY <2>1, <2>2
  <1>6. coord' \in [Procs -> CoordRow] /\ \A q \in Procs : coord'[q] = t
    BY <1>1, CoordFacts DEF IInv, Types, CoordTo, OneWorker
  <1>7. Types' /\ ClosedGood'
    BY <1>1, <1>4, <1>6 DEF IInv, Types, ClosedGood
  <1>8. \A q \in Procs : FreezeSafe(coord[q])'
    BY <1>6 DEF FreezeSafe, IdleCoord, Working
  <1>9. SnapshotsGood'
    BY <1>1, <1>5, OverStays DEF IInv, SnapshotsGood
  <1> QED
    BY <1>5, <1>7, <1>8, <1>9 DEF IInv

-----------------------------------------------------------------------------
(* Samples, members and crashes. *)
LEMMA SampleStep == ASSUME IInv, NEW c \in Captures, SampleEnds(c) PROVE IInv'
  <1>1. /\ sample[c] = "open" /\ ~closed
        /\ UNCHANGED <<closed, runs, job, selected, made, snapshot, slot, coord, reviews>>
    BY DEF SampleEnds, results, bounds, IInv, ClosedGood
  <1>2. sample' \in [Captures -> {"open", "answered", "lost"}]
        /\ \A d \in Captures \ {c} : sample'[d] = sample[d]
    BY DEF SampleEnds, IInv, Types
  <1>3. Types' /\ ClosedGood'
    BY <1>1, <1>2 DEF IInv, Types, ClosedGood
  <1>4. JobsGood'
    BY <1>1, <1>2 DEF IInv, JobsGood
  <1>5. \A p \in Procs : FreezeSafe(coord[p])'
    BY <1>1 DEF IInv, FreezeSafe, Working, NothingOpen, JobOpen
  <1>6. SnapshotsGood'
    BY <1>1 DEF IInv, SnapshotsGood
  <1> QED
    BY <1>3, <1>4, <1>5, <1>6 DEF IInv

LEMMA BatchSteps == ASSUME IInv, BatchCloses \/ Reparse PROVE IInv'
  <1>1. UNCHANGED <<sample, job, selected, made, snapshot, slot, coord, reviews>>
    BY DEF BatchCloses, Reparse, batchVars, results, bounds
  <1>2. closed' \in BOOLEAN /\ (closed => closed') /\ runs' \in Runs
    <2>1. CASE BatchCloses
      BY <2>1 DEF BatchCloses, results, IInv, Types
    <2>2. CASE Reparse
      BY <2>2, MeasurementAssumption DEF Reparse, batchVars, Runs, IInv, Types
    <2> QED
      BY <2>1, <2>2
  <1>3. Types' /\ ClosedGood'
    BY <1>1, <1>2 DEF BatchCloses, Reparse, batchVars, IInv, Types, ClosedGood
  <1>4. JobsGood' /\ \A p \in Procs : FreezeSafe(coord[p])'
    BY <1>1, <1>2 DEF IInv, JobsGood, FreezeSafe, Working, NothingOpen, JobOpen, AllOver, Over
  <1>5. SnapshotsGood'
    BY <1>1, <1>2 DEF IInv, SnapshotsGood, AllOver, Over
  <1> QED
    BY <1>3, <1>4, <1>5 DEF IInv

(* A review waits for the lock of the run and takes its snapshot back.     *)
LEMMA ReviewStep == ASSUME IInv, NEW c \in Captures, Review(c) PROVE IInv'
  <1>1. /\ ~Locked(runs) /\ Select(runs, c, made + 1) /\ made' = made + 1
        /\ snapshot' = [snapshot EXCEPT ![runs] = NoSnapshot] /\ reviews' = reviews + 1
        /\ UNCHANGED <<sample, closed, runs, job, slot, coord>>
    BY DEF Review, batchVars
  <1>2. runs \in Runs
    BY DEF IInv, Types
  <1>3. /\ selected' \in [Runs -> [Captures -> Nat]]
        /\ \A q \in Runs \ {runs} : selected'[q] = selected[q]
    BY <1>1, <1>2 DEF Select, IInv, Types
  <1>4. NoSnapshot \in [Captures -> Nat \cup {None}]
    BY DEF NoSnapshot
  <1>5. /\ snapshot' \in [Runs -> [Captures -> Nat \cup {None}]]
        /\ \A q \in Runs : snapshot'[q] = IF q = runs THEN NoSnapshot ELSE snapshot[q]
    BY <1>1, <1>4 DEF IInv, Types
  <1>6. Types' /\ JobsGood' /\ ClosedGood'
    BY <1>1, <1>3, <1>5 DEF IInv, Types, JobsGood, ClosedGood
  <1>7. \A p \in Procs : FreezeSafe(coord[p])'
    <2> SUFFICES ASSUME NEW p \in Procs PROVE FreezeSafe(coord[p])'
      OBVIOUS
    <2>1. FreezeSafe(coord[p]) /\ coord[p].run # runs /\ coord'[p] = coord[p]
      BY <1>1 DEF IInv, Locked
    <2> QED
      BY <1>1, <1>3, <2>1 DEF FreezeSafe, Working, NothingOpen, JobOpen, AllOver, Over
  <1>8. SnapshotsGood'
    <2>1. NoSnapshot' = NoSnapshot
      BY DEF NoSnapshot
    <2> QED
      BY <1>1, <1>3, <1>5, <2>1 DEF IInv, SnapshotsGood, AllOver, Over
  <1> QED
    BY <1>6, <1>7, <1>8 DEF IInv

LEMMA CrashStep == ASSUME IInv, NEW p \in Procs, Crash(p) PROVE IInv'
  <1>1. /\ CoordTo(p, IdleCoord)
        /\ slot' = [w \in Workers |-> IF OwnerOf(w) = p THEN IdleSlot ELSE slot[w]]
        /\ UNCHANGED <<sample, closed, runs, job, selected, made, snapshot, reviews>>
    BY DEF Crash, batchVars, results
  <1>2. IdleSlot \in SlotRow /\ IdleSlot.pc = "idle"
    BY MeasurementAssumption DEF IdleSlot, SlotRow, Runs
  <1>3. slot' \in [Workers -> SlotRow] /\ \A w \in Workers : slot'[w] = slot[w] \/ slot'[w] = IdleSlot
    BY <1>1, <1>2 DEF IInv, Types
  <1>4. coord' \in [Procs -> CoordRow] /\ \A q \in Procs : coord'[q] = IF q = p THEN IdleCoord ELSE coord[q]
    BY <1>1, CoordFacts DEF IInv, Types, CoordTo
  <1>5. Types' /\ JobsGood' /\ ClosedGood'
    BY <1>1, <1>2, <1>3, <1>4 DEF IInv, Types, JobsGood, ClosedGood
  <1>6. \A q \in Procs : FreezeSafe(coord[q])'
    <2> SUFFICES ASSUME NEW q \in Procs PROVE FreezeSafe(coord[q])'
      OBVIOUS
    <2>1. CASE coord'[q] = coord[q]
      BY <1>1, <2>1 DEF IInv, FreezeSafe, NothingOpen, JobOpen, AllOver, Over
    <2>2. CASE coord'[q] = IdleCoord
      BY <2>2 DEF FreezeSafe, IdleCoord, Working
    <2> QED
      BY <1>4, <2>1, <2>2
  <1>7. SnapshotsGood'
    BY <1>1 DEF IInv, SnapshotsGood, AllOver, Over
  <1> QED
    BY <1>5, <1>6, <1>7 DEF IInv

-----------------------------------------------------------------------------
LEMMA Step == ASSUME OneWorker PROVE IInv /\ [Next]_vars => IInv'
  <1> SUFFICES ASSUME IInv, [Next]_vars PROVE IInv'
    OBVIOUS
  <1>1. CASE UNCHANGED vars
    BY <1>1 DEF vars, IInv, Types, JobsGood, ClosedGood, FreezeSafe, SnapshotsGood, NothingOpen,
                JobOpen, AllOver, Over
  <1>2. CASE \E c \in Captures : SampleEnds(c) \/ Review(c)
    BY <1>2, SampleStep, ReviewStep
  <1>3. CASE BatchCloses \/ Reparse
    BY <1>3, BatchSteps
  <1>4. CASE \E w \in Workers : SlotStep(w) \/ FailFault(w) \/ Renew(w)
    BY <1>4, ClaimStep, MoveSteps, CommitStep, FailStep, RenewStep DEF SlotStep
  <1>5. CASE \E p \in Procs : CoordStep(p) \/ FreezeFault(p) \/ TickFault(p) \/ Crash(p)
    BY <1>5, SweepStep, QueueStep, ReadSteps, FreezeStep, CrashStep DEF CoordStep
  <1>6. CASE \E r \in Runs, c \in Captures : LeaseExpires(r, c)
    BY <1>6, LeaseStep
  <1> QED
    BY <1>1, <1>2, <1>3, <1>4, <1>5, <1>6 DEF Next

(* visibility-measurement-v2.md: with one semantic worker a snapshot holds *)
(* the selections in force, and an answer of the batch is in it or failed, *)
(* however many slots, lost leases, retries and reviews there are.         *)
THEOREM SnapshotSafe ==
    ASSUME \A p, q \in Procs : p = q
    PROVE  Spec => []SnapshotIsCurrent
  <1>1. OneWorker
    BY DEF OneWorker
  <1>2. IInv /\ [Next]_vars => IInv'
    BY <1>1, Step
  <1>3. IInv => SnapshotIsCurrent
    BY DEF IInv, SnapshotsGood, SnapshotIsCurrent, AllOver, Over, Answered
  <1> QED
    BY Initial, <1>2, <1>3, PTL DEF Spec

-----------------------------------------------------------------------------
(* Selections: only a commit and a review write them. *)
Selections == selected \in [Runs -> [Captures -> Nat]] /\ made \in Nat /\ reviews \in Nat

Stands == \A r \in Runs, c \in Captures :
    selected[r][c] # 0 /\ selected'[r][c] # selected[r][c] => reviews' # reviews

LEMMA Selected ==
    ASSUME Selections, NEW r, NEW c, Select(r, c, made + 1)
    PROVE  /\ selected' \in [Runs -> [Captures -> Nat]]
           /\ \A q \in Runs, d \in Captures : q # r \/ d # c => selected'[q][d] = selected[q][d]
  <1>1. CASE r \in Runs
    <2>1. [selected[r] EXCEPT ![c] = made + 1] \in [Captures -> Nat]
          /\ \A d \in Captures : d # c => [selected[r] EXCEPT ![c] = made + 1][d] = selected[r][d]
      <3>1. selected[r] \in [Captures -> Nat] /\ made + 1 \in Nat
        BY <1>1 DEF Selections
      <3> QED
        BY <3>1
    <2> QED
      BY <1>1, <2>1 DEF Selections, Select
  <1>2. CASE r \notin Runs
    BY <1>2 DEF Selections, Select
  <1> QED
    BY <1>1, <1>2

LEMMA CommitStands == ASSUME Selections, NEW w \in Workers, Commit(w) PROVE Selections' /\ Stands
  <1> DEFINE r == slot[w].run
             c == slot[w].capture
  <1>1. reviews' = reviews
    BY DEF Commit, bounds
  <1>2. CASE UNCHANGED <<selected, made>>
    BY <1>1, <1>2 DEF Selections, Stands
  <1>3. CASE selected[r][c] = 0 /\ Select(r, c, made + 1) /\ made' = made + 1
    <2>1. /\ selected' \in [Runs -> [Captures -> Nat]]
          /\ \A q \in Runs, d \in Captures : q # r \/ d # c => selected'[q][d] = selected[q][d]
      BY <1>3, Selected
    <2> HIDE DEF r, c
    <2> QED
      BY <1>1, <1>3, <2>1 DEF Selections, Stands
  <1> QED
    BY <1>2, <1>3 DEF Commit, Adopt

LEMMA StepStands == Selections /\ [Next]_vars => Selections' /\ [Stands]_vars
  <1> SUFFICES ASSUME Selections, Next PROVE Selections' /\ Stands
    BY DEF vars, Selections
  <1>1. ASSUME NEW c \in Captures, Review(c) PROVE Selections' /\ Stands
    <2>1. selected' \in [Runs -> [Captures -> Nat]] /\ made' = made + 1 /\ reviews' = reviews + 1
      BY <1>1, Selected DEF Review
    <2> QED
      BY <2>1 DEF Selections, Stands
  <1>2. CASE UNCHANGED <<selected, made, reviews>>
    BY <1>2 DEF Selections, Stands
  <1>3. ASSUME NEW w \in Workers, SlotStep(w) \/ FailFault(w) \/ Renew(w) PROVE Selections' /\ Stands
    <2>1. CASE Commit(w)
      BY <2>1, CommitStands
    <2>2. CASE ~Commit(w)
      BY <1>2, <1>3, <2>2 DEF SlotStep, Claim, Start, Parse, Fail, FailFault, Renew, results, bounds
    <2> QED
      BY <2>1, <2>2
  <1>4. ASSUME NEW p \in Procs, CoordStep(p) \/ FreezeFault(p) \/ TickFault(p) \/ Crash(p)
        PROVE  UNCHANGED <<selected, made, reviews>>
    BY <1>4 DEF CoordStep, Sweep, Queue, List, Lock, FreezeDone, CountOpen, CheckMissing, ReadSelections,
                Freeze, GiveUp, FreezeFault, TickFault, Crash, results, bounds
  <1>5. CASE \/ \E c \in Captures : SampleEnds(c)
             \/ BatchCloses \/ Reparse
             \/ \E r \in Runs, c \in Captures : LeaseExpires(r, c)
    BY <1>2, <1>5 DEF SampleEnds, BatchCloses, Reparse, LeaseExpires, results, bounds
  <1> QED
    BY <1>1, <1>2, <1>3, <1>4, <1>5 DEF Next

(* INSERT ... ON CONFLICT DO NOTHING: a parse, however late and by however *)
(* many workers, never takes the place of an observation in force; only a  *)
(* review does.                                                            *)
THEOREM ReviewSafe == Spec => ReviewStands
  <1>1. Init => Selections
    BY DEF Init, Selections
  <1>2. Spec => [][Stands]_vars
    BY <1>1, StepStands, PTL DEF Spec
  <1> QED
    BY <1>2 DEF ReviewStands, Stands

-----------------------------------------------------------------------------
(***************************************************************************)
(* Types, for any number of workers.  Observations are counted: each one   *)
(* was selected by a review, or for an answer of a run that had none.      *)
(***************************************************************************)
JobType == [status : {"absent", "pending", "leased", "complete", "failed"},
            owner : Procs \cup {None}, live : BOOLEAN, attempts : 0..MaxAttempts]
Made == 0..made
Read == Made \cup {None}
CoordType == [pc : {"idle", "queueing", "listing", "freezing", "counting", "checking",
                    "reading", "writing", "giving up"},
              todo : SUBSET Runs, run : Runs \cup {None}, read : [Captures -> Read]]
Pairs == Runs \X Captures
Chosen == {x \in Pairs : selected[x[1]][x[2]] # 0}

BatchTyped ==
    /\ sample \in [Captures -> {"open", "answered", "lost"}] /\ closed \in BOOLEAN
    /\ runs \in Runs /\ status \in [Runs -> {"absent"} \cup Active \cup Ended]
    /\ failures \in 0..MaxFailures
JobsTyped == job \in [Runs -> [Captures -> JobType]]
SlotsTyped ==
    /\ slot \in [Workers -> SlotRow]
    /\ \A w \in Workers : slot[w].pc # "idle" => slot[w].capture \in Captures
CoordsTyped ==
    /\ coord \in [Procs -> CoordType]
    /\ \A p \in Procs : coord[p].pc \in Working => coord[p].run \in Runs
SnapshotsTyped == snapshot \in [Runs -> [Captures -> Read]]
SelectionsTyped ==
    /\ made \in Nat /\ reviews \in 0..MaxReviews
    /\ selected \in [Runs -> [Captures -> Made]]
    /\ made <= reviews + Cardinality(Chosen)

TypesInv == /\ BatchTyped /\ JobsTyped /\ SlotsTyped /\ CoordsTyped /\ SnapshotsTyped
            /\ SelectionsTyped

LEMMA Numbers ==
    /\ MaxRuns \in Nat /\ 1 \in Runs /\ MaxReviews \in Nat /\ MaxAttempts \in Nat
    /\ MaxFailures \in Nat /\ IsFiniteSet(Captures)
  BY MeasurementAssumption DEF Runs

LEMMA PairsFinite == IsFiniteSet(Pairs) /\ Cardinality(Pairs) = MaxRuns * Cardinality(Captures)
  <1>1. IsFiniteSet(Runs) /\ Cardinality(Runs) = MaxRuns
    BY Numbers, FS_Interval DEF Runs
  <1> QED
    BY <1>1, Numbers, FS_Product DEF Pairs

LEMMA ChosenFinite ==
    /\ IsFiniteSet(Chosen) /\ Cardinality(Chosen) \in Nat
    /\ Cardinality(Chosen) <= MaxRuns * Cardinality(Captures)
  <1>1. Chosen \in SUBSET Pairs
    BY DEF Chosen
  <1> QED
    BY <1>1, PairsFinite, FS_Subset, FS_CardinalityType

LEMMA TypesInitial == Init => TypesInv
  <1> SUFFICES ASSUME Init PROVE TypesInv
    OBVIOUS
  <1> USE Numbers
  <1>1. BatchTyped
    <2>1. 0 \in 0..MaxFailures
      OBVIOUS
    <2>2. status \in [Runs -> {"absent"} \cup Active \cup Ended]
      BY DEF Init, Active, Ended
    <2>3. sample \in [Captures -> {"open", "answered", "lost"}]
      BY DEF Init
    <2> QED
      BY <2>1, <2>2, <2>3 DEF Init, BatchTyped
  <1>2. JobsTyped
    <2>1. NoJob \in JobType
      BY DEF NoJob, JobType
    <2> QED
      BY <2>1 DEF Init, JobsTyped
  <1>3. SlotsTyped
    <2>1. IdleSlot \in SlotRow /\ IdleSlot.pc = "idle"
      BY DEF IdleSlot, SlotRow
    <2> QED
      BY <2>1 DEF Init, SlotsTyped
  <1>4. CoordsTyped
    <2>1. IdleCoord \in CoordType /\ IdleCoord.pc \notin Working
      BY DEF IdleCoord, CoordType, NoSnapshot, Read, Working
    <2> QED
      BY <2>1 DEF Init, CoordsTyped
  <1>5. SnapshotsTyped
    <2>1. NoSnapshot \in [Captures -> Read]
      BY DEF NoSnapshot, Read
    <2> QED
      BY <2>1 DEF Init, SnapshotsTyped
  <1>6. SelectionsTyped
    <2>1. selected \in [Runs -> [Captures -> Made]]
      BY DEF Init, Made
    <2> QED
      BY <2>1, ChosenFinite DEF Init, SelectionsTyped
  <1> QED
    BY <1>1, <1>2, <1>3, <1>4, <1>5, <1>6 DEF TypesInv

-----------------------------------------------------------------------------
(* Selections. *)
LEMMA SelectionWritten ==
    ASSUME SelectionsTyped, NEW r \in Runs, NEW c \in Captures, Select(r, c, made + 1),
           made' = made + 1,
           \/ selected[r][c] = 0 /\ reviews' = reviews
           \/ reviews < MaxReviews /\ reviews' = reviews + 1
    PROVE  SelectionsTyped' /\ Made \subseteq Made'
  <1>1. made \in Nat /\ made + 1 \in Nat /\ Made' = 0..(made + 1) /\ Made \subseteq Made'
    BY DEF SelectionsTyped, Made
  <1>2. selected \in [Runs -> [Captures -> Made']]
    BY <1>1 DEF SelectionsTyped
  <1>3. made + 1 \in Made' /\ made + 1 # 0
    BY <1>1
  <1> DEFINE new == made + 1
  <1>4. selected' = [selected EXCEPT ![r] = [selected[r] EXCEPT ![c] = new]]
    BY DEF Select
  <1> HIDE DEF new
  <1>5. new \in Made' /\ new # 0
    BY <1>3 DEF new
  <1>6. /\ selected' \in [Runs -> [Captures -> Made']]
        /\ \A q \in Runs, d \in Captures :
             selected'[q][d] = IF q = r /\ d = c THEN new ELSE selected[q][d]
    <2>1. /\ [selected[r] EXCEPT ![c] = new] \in [Captures -> Made']
          /\ \A d \in Captures : [selected[r] EXCEPT ![c] = new][d] = IF d = c THEN new ELSE selected[r][d]
      BY <1>2, <1>5
    <2> QED
      BY <1>2, <1>4, <2>1
  <1>7. Chosen' = Chosen \cup {<<r, c>>}
    BY <1>5, <1>6 DEF Chosen, Pairs
  <1>8. /\ Cardinality(Chosen') = IF <<r, c>> \in Chosen THEN Cardinality(Chosen)
                                  ELSE Cardinality(Chosen) + 1
        /\ Cardinality(Chosen) \in Nat
    BY <1>7, ChosenFinite, FS_AddElement
  <1>9. selected[r][c] = 0 => <<r, c>> \notin Chosen
    BY DEF Chosen
  <1>10. reviews' \in 0..MaxReviews /\ made + 1 <= reviews' + Cardinality(Chosen')
    BY <1>1, <1>8, <1>9, Numbers DEF SelectionsTyped
  <1> QED
    BY <1>1, <1>6, <1>10 DEF SelectionsTyped

LEMMA SelectionsStay ==
    ASSUME TypesInv, UNCHANGED <<selected, made, reviews>>
    PROVE  SelectionsTyped' /\ Made' = Made
  BY DEF TypesInv, SelectionsTyped, Made, Chosen

(* Adopt and Review take new observations, no other step does.             *)
LEMMA SelectionStep == ASSUME TypesInv, [Next]_vars PROVE SelectionsTyped' /\ Made \subseteq Made'
  <1>1. ASSUME NEW c \in Captures, Review(c) PROVE SelectionsTyped' /\ Made \subseteq Made'
    BY <1>1, SelectionWritten DEF Review, TypesInv, BatchTyped
  <1>2. ASSUME NEW w \in Workers, Commit(w) PROVE SelectionsTyped' /\ Made \subseteq Made'
    <2>1. slot[w].run \in Runs /\ slot[w].capture \in Captures /\ reviews' = reviews
      BY <1>2 DEF Commit, bounds, TypesInv, SlotsTyped, SlotRow
    <2>2. CASE UNCHANGED <<selected, made>>
      BY <2>1, <2>2, SelectionsStay
    <2>3. CASE /\ selected[slot[w].run][slot[w].capture] = 0 /\ made' = made + 1
               /\ Select(slot[w].run, slot[w].capture, made + 1)
      BY <2>1, <2>3, SelectionWritten DEF TypesInv
    <2> QED
      BY <1>2, <2>2, <2>3 DEF Commit, Adopt
  <1>3. CASE UNCHANGED <<selected, made, reviews>>
    BY <1>3, SelectionsStay
  <1>4. ASSUME Next, \A w \in Workers : ~Commit(w), \A c \in Captures : ~Review(c)
        PROVE  UNCHANGED <<selected, made, reviews>>
    BY <1>4 DEF Next, SlotStep, CoordStep, SampleEnds, BatchCloses, Reparse, Claim, Start, Parse,
         Fail, FailFault, Renew, Sweep, Queue, List, Lock, FreezeDone, CountOpen, CheckMissing,
         ReadSelections, Freeze, GiveUp, FreezeFault, TickFault, Crash, LeaseExpires, results, bounds
  <1> QED
    BY <1>1, <1>2, <1>3, <1>4 DEF vars

-----------------------------------------------------------------------------
(* Jobs: a claim leaves the attempts within their limit.                   *)
LEMMA JobTyped ==
    ASSUME JobsTyped, NEW r, NEW c, NEW row \in JobType, JobTo(r, c, row)
    PROVE  JobsTyped'
  <1>1. CASE r \in Runs
    <2>1. [job[r] EXCEPT ![c] = row] \in [Captures -> JobType]
      BY <1>1 DEF JobsTyped
    <2> QED
      BY <1>1, <2>1 DEF JobsTyped, JobTo
  <1>2. CASE r \notin Runs
    BY <1>2 DEF JobsTyped, JobTo
  <1> QED
    BY <1>1, <1>2

LEMMA JobsStep == ASSUME TypesInv, [Next]_vars PROVE JobsTyped'
  <1> USE DEF TypesInv
  <1>1. ASSUME NEW w \in Workers, Claim(w) PROVE JobsTyped'
    <2>1. PICK r \in 1..runs, c \in Captures :
            /\ job[r][c].attempts < MaxAttempts
            /\ JobTo(r, c, [status |-> "leased", owner |-> OwnerOf(w), live |-> TRUE,
                            attempts |-> job[r][c].attempts + 1])
      BY <1>1 DEF Claim, Claimable
    <2>2. r \in Runs /\ OwnerOf(w) \in Procs
      BY MeasurementAssumption DEF BatchTyped, Runs, OwnerOf, Workers
    <2>3. job[r][c] \in JobType
      BY <2>2 DEF JobsTyped
    <2>4. job[r][c].attempts + 1 \in 0..MaxAttempts
      BY <2>1, <2>3, Numbers DEF JobType
    <2>5. [status |-> "leased", owner |-> OwnerOf(w), live |-> TRUE,
           attempts |-> job[r][c].attempts + 1] \in JobType
      BY <2>2, <2>4 DEF JobType
    <2> QED
      BY <2>1, <2>5, JobTyped
  <1>2. ASSUME NEW w \in Workers, Commit(w) \/ Fail(w) \/ Renew(w) PROVE JobsTyped'
    <2> DEFINE r == slot[w].run
               c == slot[w].capture
    <2>1. slot[w].pc # "idle"
      BY <1>2 DEF Commit, Fail, Renew
    <2>2. job[r][c] \in JobType
      BY <2>1 DEF SlotsTyped, SlotRow, JobsTyped
    <2>3. PICK row \in JobType : job' = job \/ JobTo(r, c, row)
      <3>1. ASSUME NEW s \in {"complete", "failed", "pending"}
            PROVE  [job[r][c] EXCEPT !.status = s, !.owner = None, !.live = FALSE] \in JobType
        BY <2>2 DEF JobType
      <3>2. [job[r][c] EXCEPT !.live = TRUE] \in JobType
        BY <2>2 DEF JobType
      <3> QED
        BY <1>2, <2>2, <3>1, <3>2 DEF Commit, Fail, Renew
    <2> HIDE DEF r, c
    <2> QED
      BY <2>3, JobTyped DEF JobsTyped
  <1>3. ASSUME NEW p \in Procs, Sweep(p) \/ Queue(p) PROVE JobsTyped'
    <2>1. NewJob \in JobType
      <3>1. 0 \in 0..MaxAttempts
        BY Numbers
      <3> QED
        BY <3>1 DEF NewJob, NoJob, JobType
    <2>2. ASSUME NEW r \in Runs, NEW c \in Captures
          PROVE  /\ job[r][c] \in JobType
                 /\ [job[r][c] EXCEPT !.status = "failed", !.owner = None, !.live = FALSE] \in JobType
      <3>1. job[r][c] \in JobType
        BY DEF JobsTyped
      <3> QED
        BY <3>1 DEF JobType
    <2> QED
      BY <1>3, <2>1, <2>2, ZenonT(40) DEF Sweep, Queue, JobsTyped
  <1>4. ASSUME NEW r \in Runs, NEW c \in Captures, LeaseExpires(r, c) PROVE JobsTyped'
    <2>1. [job[r][c] EXCEPT !.live = FALSE] \in JobType
      <3>1. job[r][c] \in JobType
        BY DEF JobsTyped
      <3> QED
        BY <3>1 DEF JobType
    <2> QED
      BY <1>4, <2>1, JobTyped DEF LeaseExpires
  <1>5. CASE job' = job
    BY <1>5 DEF JobsTyped
  <1> QED
    BY <1>1, <1>2, <1>3, <1>4, <1>5 DEF Next, SlotStep, CoordStep, SampleEnds, Review, BatchCloses,
       Reparse, Start, Parse, FailFault, List, Lock, FreezeDone, CountOpen, CheckMissing,
       ReadSelections, Freeze, GiveUp, FreezeFault, TickFault, Crash, vars

-----------------------------------------------------------------------------
(* The batch and its runs. *)
LEMMA BatchTypedStep == ASSUME TypesInv, [Next]_vars PROVE BatchTyped'
  <1> USE DEF TypesInv, BatchTyped
  <1>1. sample' \in [Captures -> {"open", "answered", "lost"}] /\ closed' \in BOOLEAN
    BY DEF Next, SlotStep, CoordStep, SampleEnds, Review, BatchCloses, Reparse, Claim, Start, Parse,
       Commit, Fail, FailFault, Renew, Sweep, Queue, List, Lock, FreezeDone, CountOpen, CheckMissing,
       ReadSelections, Freeze, GiveUp, FreezeFault, TickFault, Crash, LeaseExpires, batchVars, vars
  <1>2. runs' \in Runs
    <2>1. CASE Reparse
      BY <2>1, Numbers DEF Reparse, Runs
    <2>2. CASE runs' = runs
      BY <2>2
    <2> QED
      BY <2>1, <2>2 DEF Next, SlotStep, CoordStep, SampleEnds, Review, BatchCloses, Claim, Start, Parse,
         Commit, Fail, FailFault, Renew, Sweep, Queue, List, Lock, FreezeDone, CountOpen, CheckMissing,
         ReadSelections, Freeze, GiveUp, FreezeFault, TickFault, Crash, LeaseExpires, results, vars
  <1>3. failures' \in 0..MaxFailures
    <2>1. CASE failures' = failures
      BY <2>1
    <2>2. CASE failures < MaxFailures /\ failures' = failures + 1
      BY <2>2, Numbers
    <2> QED
      BY <2>1, <2>2 DEF Next, SlotStep, CoordStep, SampleEnds, Review, BatchCloses, Reparse, Claim, Start,
         Parse, Commit, Fail, FailFault, Renew, Sweep, Queue, List, Lock, FreezeDone, CountOpen,
         CheckMissing, ReadSelections, Freeze, GiveUp, FreezeFault, TickFault, Crash, LeaseExpires,
         bounds, vars
  <1>4. status' \in [Runs -> {"absent"} \cup Active \cup Ended]
    <2>1. CASE status' = status
      BY <2>1
    <2>2. CASE \E r \in Nat \cup Runs \cup {None}, s \in Active \cup Ended : StatusTo(r, s)
      BY <2>2 DEF StatusTo
    <2>3. ASSUME NEW w \in Workers, Start(w) PROVE status' = status \/ StatusTo(slot[w].run, "running")
      BY <2>3 DEF Start, StatusTo
    <2>4. ASSUME NEW p \in Procs, Freeze(p) \/ GiveUp(p)
          PROVE  status' = status \/ \E s \in Active \cup Ended : StatusTo(coord[p].run, s)
      BY <2>4 DEF Freeze, GiveUp, Ended, Active
    <2>5. \A w \in Workers : slot[w].run \in Runs
      BY DEF SlotsTyped, SlotRow
    <2>6. \A p \in Procs : coord[p].run \in Runs \cup {None}
      BY DEF CoordsTyped, CoordType
    <2>7. ASSUME Reparse \/ \E c \in Captures : Review(c)
          PROVE  \E r \in Nat \cup Runs \cup {None}, s \in Active \cup Ended : StatusTo(r, s)
      <3>1. runs \in Nat /\ runs + 1 \in Nat /\ "queued" \in Active
        BY DEF Runs, Active
      <3> QED
        BY <2>7, <3>1 DEF Reparse, Review
    <2>8. "running" \in Active
      BY DEF Active
    <2>9. ASSUME Next, \A w \in Workers : ~Start(w), \A p \in Procs : ~Freeze(p) /\ ~GiveUp(p),
                 ~Reparse, \A c \in Captures : ~Review(c)
          PROVE  status' = status
      BY <2>9 DEF Next, SlotStep, CoordStep, SampleEnds, BatchCloses, Claim, Parse,
         Commit, Fail, FailFault, Renew, Sweep, Queue, List, Lock, FreezeDone, CountOpen,
         CheckMissing, ReadSelections, FreezeFault, TickFault, Crash, LeaseExpires, results
    <2> QED
      BY <2>1, <2>2, <2>3, <2>4, <2>5, <2>6, <2>7, <2>8, <2>9 DEF vars
  <1> QED
    BY <1>1, <1>2, <1>3, <1>4

-----------------------------------------------------------------------------
(* Slots and coordinators. *)
LEMMA SlotTyped ==
    ASSUME SlotsTyped, NEW w \in Workers, NEW s \in SlotRow, s.pc # "idle" => s.capture \in Captures,
           SlotTo(w, s)
    PROVE  SlotsTyped'
  <1>1. slot' \in [Workers -> SlotRow] /\ \A v \in Workers : slot'[v] = IF v = w THEN s ELSE slot[v]
    BY DEF SlotTo, SlotsTyped
  <1> QED
    BY <1>1 DEF SlotsTyped

LEMMA SlotsTypedStep == ASSUME TypesInv, [Next]_vars PROVE SlotsTyped'
  <1> USE DEF TypesInv
  <1>1. IdleSlot \in SlotRow /\ IdleSlot.pc = "idle"
    BY Numbers DEF IdleSlot, SlotRow
  <1>2. ASSUME NEW w \in Workers, Claim(w) PROVE SlotsTyped'
    <2>1. PICK r \in 1..runs, c \in Captures :
            SlotTo(w, [IdleSlot EXCEPT !.pc = "starting", !.run = r, !.capture = c])
      BY <1>2 DEF Claim
    <2>2. r \in Runs
      BY Numbers DEF BatchTyped, Runs
    <2>3. /\ [IdleSlot EXCEPT !.pc = "starting", !.run = r, !.capture = c] \in SlotRow
          /\ [IdleSlot EXCEPT !.pc = "starting", !.run = r, !.capture = c].capture = c
      BY <2>2 DEF IdleSlot, SlotRow
    <2> QED
      BY <2>1, <2>3, SlotTyped
  <1>3. ASSUME NEW w \in Workers, slot[w].pc # "idle", NEW found \in BOOLEAN,
               NEW pc \in {"parsing", "committing", "failing"},
               \/ SlotTo(w, [slot[w] EXCEPT !.pc = pc])
               \/ SlotTo(w, [slot[w] EXCEPT !.pc = pc, !.found = found])
        PROVE  SlotsTyped'
    <2>1. slot[w] \in SlotRow /\ slot[w].capture \in Captures
      BY <1>3 DEF SlotsTyped
    <2>2. /\ [slot[w] EXCEPT !.pc = pc] \in SlotRow
          /\ [slot[w] EXCEPT !.pc = pc].capture \in Captures
          /\ [slot[w] EXCEPT !.pc = pc, !.found = found] \in SlotRow
          /\ [slot[w] EXCEPT !.pc = pc, !.found = found].capture \in Captures
      BY <1>3, <2>1 DEF SlotRow
    <2> QED
      BY <1>3, <2>2, SlotTyped
  <1>4. ASSUME NEW w \in Workers, Start(w) \/ Parse(w) PROVE SlotsTyped'
    BY <1>3, <1>4 DEF Start, Parse
  <1>5. ASSUME NEW w \in Workers, Commit(w) \/ Fail(w) \/ FailFault(w) PROVE SlotsTyped'
    <2>1. CASE SlotTo(w, IdleSlot)
      BY <1>1, <2>1, SlotTyped
    <2>2. CASE SlotTo(w, [slot[w] EXCEPT !.pc = "failing"])
      BY <1>3, <1>5, <2>2 DEF Commit, Fail, FailFault
    <2> QED
      BY <1>5, <2>1, <2>2 DEF Commit, Fail, FailFault
  <1>6. ASSUME NEW p \in Procs, Crash(p) PROVE SlotsTyped'
    BY <1>1, <1>6 DEF Crash, SlotsTyped
  <1>7. CASE slot' = slot
    BY <1>7 DEF SlotsTyped
  <1> QED
    BY <1>2, <1>4, <1>5, <1>6, <1>7 DEF Next, SlotStep, CoordStep, SampleEnds, Review, BatchCloses,
       Reparse, Renew, Sweep, Queue, List, Lock, FreezeDone, CountOpen, CheckMissing,
       ReadSelections, Freeze, GiveUp, FreezeFault, TickFault, LeaseExpires, vars

(* What a coordinator has read stays an observation made.                  *)
LEMMA CoordTyped ==
    ASSUME CoordsTyped, Made \subseteq Made', NEW p \in Procs, NEW s \in CoordType,
           s.pc \in Working => s.run \in Runs, CoordTo(p, s)
    PROVE  CoordsTyped'
  <1>1. \A q \in Procs : coord'[q] = IF q = p THEN s ELSE coord[q]
    BY DEF CoordTo, CoordsTyped
  <1>2. coord' \in [Procs -> CoordType]
    BY DEF CoordTo, CoordsTyped
  <1>3. CoordType \subseteq CoordType'
    BY DEF CoordType, Read
  <1> QED
    BY <1>1, <1>2, <1>3 DEF CoordsTyped

LEMMA CoordsTypedStep == ASSUME TypesInv, [Next]_vars PROVE CoordsTyped'
  <1> USE DEF TypesInv
  <1>1. Made \subseteq Made'
    BY SelectionStep
  <1>2. NoSnapshot \in [Captures -> Read]
    BY DEF NoSnapshot, Read
  <1>3. IdleCoord \in CoordType /\ IdleCoord.pc = "idle" /\ "idle" \notin Working
    BY <1>2 DEF IdleCoord, CoordType, Working
  <1>4. ASSUME NEW p \in Procs
        PROVE  /\ coord[p] \in CoordType
               /\ coord[p].pc \in Working => coord[p].run \in Runs
               /\ coord[p].todo \in SUBSET Runs
               /\ coord[p].run \in Runs \cup {None}
               /\ coord[p].read \in [Captures -> Read]
    BY DEF CoordsTyped, CoordType
  <1>5. ASSUME NEW p \in Procs, NEW pc \in {"queueing", "listing", "freezing"},
               NEW todo \in SUBSET Runs,
               \/ CoordTo(p, IdleCoord) \/ CoordTo(p, [IdleCoord EXCEPT !.pc = pc])
               \/ CoordTo(p, [IdleCoord EXCEPT !.pc = pc, !.todo = todo])
        PROVE  CoordsTyped'
    <2>1. /\ [IdleCoord EXCEPT !.pc = pc] \in CoordType
          /\ [IdleCoord EXCEPT !.pc = pc].pc \notin Working
      BY <1>3, <1>5 DEF CoordType, Working
    <2>2. /\ [IdleCoord EXCEPT !.pc = pc, !.todo = todo] \in CoordType
          /\ [IdleCoord EXCEPT !.pc = pc, !.todo = todo].pc \notin Working
      BY <1>3, <1>5 DEF CoordType, Working
    <2> QED
      BY <1>1, <1>3, <1>5, <2>1, <2>2, CoordTyped
  <1>6. ASSUME NEW p \in Procs,
               \/ Sweep(p) \/ Queue(p) \/ FreezeDone(p) \/ NextRun(p) \/ TickFault(p) \/ Crash(p)
        PROVE  CoordsTyped'
    <2>1. coord[p].todo \in SUBSET Runs /\ {} \in SUBSET Runs
      BY <1>4
    <2> QED
      BY <1>5, <1>6, <2>1 DEF Sweep, Queue, FreezeDone, NextRun, TickFault, Crash
  <1>7. ASSUME NEW p \in Procs, List(p) PROVE CoordsTyped'
    <2> DEFINE todo == {r \in 1..runs : closed /\ status[r] \in Active}
    <2>1. todo \in SUBSET Runs
      BY Numbers DEF BatchTyped, Runs
    <2>2. CoordTo(p, [IdleCoord EXCEPT !.pc = "freezing", !.todo = todo])
      BY <1>7 DEF List
    <2> HIDE DEF todo
    <2> QED
      BY <1>5, <2>1, <2>2
  <1>8. ASSUME NEW p \in Procs, Lock(p) PROVE CoordsTyped'
    <2>1. PICK r \in coord[p].todo :
            CoordTo(p, [coord[p] EXCEPT
                       !.pc = IF status[r] \in Active THEN "counting" ELSE "freezing",
                       !.todo = coord[p].todo \ {r},
                       !.run = IF status[r] \in Active THEN r ELSE None])
      BY <1>8 DEF Lock
    <2>2. r \in Runs /\ coord[p].todo \ {r} \in SUBSET Runs
      BY <1>4
    <2>3. PICK pc \in {"counting", "freezing"}, run \in Runs \cup {None}, todo \in SUBSET Runs :
            /\ pc \in Working => run \in Runs
            /\ CoordTo(p, [coord[p] EXCEPT !.pc = pc, !.todo = todo, !.run = run])
      <3>1. CASE status[r] \in Active
        BY <2>1, <2>2, <3>1
      <3>2. CASE status[r] \notin Active
        BY <2>1, <2>2, <3>2 DEF Working
      <3> QED
        BY <3>1, <3>2
    <2> DEFINE row == [coord[p] EXCEPT !.pc = pc, !.todo = todo, !.run = run]
    <2>4. row \in CoordType /\ row.pc = pc /\ row.run = run
      BY <1>4, <2>3 DEF CoordType
    <2> HIDE DEF row
    <2>5. CoordTo(p, row)
      BY <2>3 DEF row
    <2> QED
      BY <1>1, <2>3, <2>4, <2>5, CoordTyped
  <1>9. ASSUME NEW p \in Procs, CountOpen(p) \/ CheckMissing(p) PROVE CoordsTyped'
    <2>1. CASE NextRun(p)
      BY <1>6, <2>1
    <2>2. ASSUME NEW pc \in {"checking", "reading"}, CoordTo(p, [coord[p] EXCEPT !.pc = pc])
          PROVE  CoordsTyped'
      <3>1. coord[p].run \in Runs
        BY <1>4, <1>9 DEF CountOpen, CheckMissing, Working
      <3>2. [coord[p] EXCEPT !.pc = pc] \in CoordType /\ [coord[p] EXCEPT !.pc = pc].run \in Runs
        BY <1>4, <3>1 DEF CoordType
      <3> QED
        BY <1>1, <2>2, <3>2, CoordTyped
    <2> QED
      BY <1>9, <2>1, <2>2 DEF CountOpen, CheckMissing
  <1>10. ASSUME NEW p \in Procs, ReadSelections(p) PROVE CoordsTyped'
    <2>1. coord[p].run \in Runs
      BY <1>4, <1>10 DEF ReadSelections, Working
    <2>2. selected[coord[p].run] \in [Captures -> Read]
      BY <2>1 DEF SelectionsTyped, Read
    <2> DEFINE row == [coord[p] EXCEPT !.pc = "writing", !.read = selected[coord[p].run]]
    <2>3. row \in CoordType /\ row.run \in Runs
      BY <1>4, <2>1, <2>2 DEF CoordType
    <2> HIDE DEF row
    <2>4. CoordTo(p, row)
      BY <1>10 DEF ReadSelections, row
    <2> QED
      BY <1>1, <2>3, <2>4, CoordTyped
  <1>11. ASSUME NEW p \in Procs, FreezeFault(p) PROVE CoordsTyped'
    <2> DEFINE row == [coord[p] EXCEPT !.pc = "giving up", !.read = NoSnapshot]
    <2>1. row \in CoordType /\ row.pc = "giving up"
      BY <1>2, <1>4 DEF CoordType
    <2> HIDE DEF row
    <2>2. CoordTo(p, row)
      BY <1>11 DEF FreezeFault, row
    <2>3. row.pc \notin Working
      BY <2>1 DEF Working
    <2> QED
      BY <1>1, <2>1, <2>2, <2>3, CoordTyped
  <1>12. CASE coord' = coord
    <2>1. CoordType \subseteq CoordType'
      BY <1>1 DEF CoordType, Read
    <2> QED
      BY <1>12, <2>1 DEF CoordsTyped
  <1>13. ASSUME NEW p \in Procs, Freeze(p) \/ GiveUp(p) PROVE CoordsTyped'
    BY <1>6, <1>13 DEF Freeze, GiveUp
  <1> QED
    BY <1>6, <1>7, <1>8, <1>9, <1>10, <1>11, <1>12, <1>13 DEF Next, SlotStep, CoordStep, SampleEnds,
       Review, BatchCloses, Reparse, Claim, Start, Parse, Commit, Fail, FailFault, Renew, LeaseExpires,
       vars

LEMMA SnapshotsTypedStep == ASSUME TypesInv, [Next]_vars PROVE SnapshotsTyped'
  <1> USE DEF TypesInv
  <1>1. Made \subseteq Made'
    BY SelectionStep
  <1>2. Read \subseteq Read'
    BY <1>1 DEF Read
  <1>3. ASSUME NEW r, NEW read \in [Captures -> Read], snapshot' = [snapshot EXCEPT ![r] = read]
        PROVE  SnapshotsTyped'
    <2>1. snapshot' \in [Runs -> [Captures -> Read]]
      BY <1>3 DEF SnapshotsTyped
    <2> QED
      BY <1>2, <2>1 DEF SnapshotsTyped
  <1>4. ASSUME NEW p \in Procs, Freeze(p) PROVE SnapshotsTyped'
    <2>1. coord[p].read \in [Captures -> Read]
      BY DEF CoordsTyped, CoordType
    <2> QED
      BY <1>3, <1>4, <2>1 DEF Freeze
  <1>5. ASSUME NEW c \in Captures, Review(c) PROVE SnapshotsTyped'
    <2>1. NoSnapshot \in [Captures -> Read]
      BY DEF NoSnapshot, Read
    <2> QED
      BY <1>3, <1>5, <2>1 DEF Review
  <1>6. CASE snapshot' = snapshot
    BY <1>2, <1>6 DEF SnapshotsTyped
  <1> QED
    BY <1>4, <1>5, <1>6 DEF Next, SlotStep, CoordStep, SampleEnds, BatchCloses, Reparse, Claim, Start,
       Parse, Commit, Fail, FailFault, Renew, Sweep, Queue, List, Lock, FreezeDone, CountOpen,
       CheckMissing, ReadSelections, GiveUp, FreezeFault, TickFault, Crash, LeaseExpires, results, vars

LEMMA TypesImply == TypesInv => TypeOK
  <1> SUFFICES ASSUME TypesInv PROVE TypeOK
    OBVIOUS
  <1> USE DEF TypesInv
  <1>1. made <= MaxReviews + MaxRuns * Cardinality(Captures) /\ made \in Nat
    <2>1. /\ MaxRuns * Cardinality(Captures) \in Nat
      BY Numbers, PairsFinite, FS_CardinalityType
    <2> QED
      BY <2>1, Numbers, ChosenFinite DEF SelectionsTyped
  <1>2. made \in Observations /\ Made \subseteq Observations
    <2>1. /\ MaxReviews + MaxRuns * Cardinality(Captures) \in Nat
      BY Numbers, PairsFinite, FS_CardinalityType
    <2> QED
      BY <1>1, <2>1 DEF Observations, Made
  <1>3. selected \in [Runs -> [Captures -> Observations]]
    BY <1>2 DEF SelectionsTyped
  <1>4. snapshot \in [Runs -> [Captures -> Observations \cup {None}]]
    BY <1>2 DEF SnapshotsTyped, Read
  <1>5. coord \in [Procs -> [pc : {"idle", "queueing", "listing", "freezing", "counting", "checking",
                                  "reading", "writing", "giving up"},
                            todo : SUBSET Runs, run : Runs \cup {None},
                            read : [Captures -> Observations \cup {None}]]]
    <2>1. Read \subseteq Observations \cup {None}
      BY <1>2 DEF Read
    <2>2. [Captures -> Read] \subseteq [Captures -> Observations \cup {None}]
      BY <2>1
    <2> QED
      BY <2>2 DEF CoordsTyped, CoordType
  <1> QED
    BY <1>2, <1>3, <1>4, <1>5
    DEF TypeOK, BatchTyped, JobsTyped, JobType, SlotsTyped, SlotRow, SelectionsTyped

(* Every variable stays in its type, and the attempts of a parse job in    *)
(* its budget: the claim of semantic-runtime.ts looks at max_attempts, and *)
(* the observations selected are those of reviews and first parses.        *)
THEOREM TypeCorrect == Spec => []TypeOK
  <1>1. TypesInv /\ [Next]_vars => TypesInv'
    BY BatchTypedStep, JobsStep, SlotsTypedStep, CoordsTypedStep, SnapshotsTypedStep, SelectionStep
    DEF TypesInv
  <1> QED
    BY TypesInitial, <1>1, TypesImply, PTL DEF Spec
=============================================================================
