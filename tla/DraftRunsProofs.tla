-------------------------- MODULE DraftRunsProofs --------------------------
(***************************************************************************)
(* Proofs about drafts, for any number of runs, sessions, members, workers *)
(* and slots, any retry budget (two attempts in MovingSafe) and any number *)
(* of upsets.                                                              *)
(*                                                                         *)
(* Approving and executing exclude each other only through the job.  So    *)
(* what is proved of decisions rests on who may still write the run: no    *)
(* slot once the job has ended (Settled), and as long as nothing failed    *)
(* only the one slot that holds the lease (OneHolder).  That a run always  *)
(* has somebody to move it rests on attempts as tickets (Tickets, Rivals). *)
(***************************************************************************)
EXTENDS DraftRuns, SequenceTheorems, TLAPS

RunRow == [status : Undecided \cup {"approved", "rejected", "failed"}, purpose : Kinds,
           draft : 0..MaxAttempts, applied : Seq(Approval)]
JobRow == [status : {"pending", "leased", "complete", "failed"}, owner : Procs \cup {None},
           live : BOOLEAN, attempts : 0..MaxAttempts, due : BOOLEAN]
SessionRow == [auto : BOOLEAN, state : {"live", "failed", "cancelled"}]
SlotRow == [pc : SlotPc, run : Runs \cup {None}, attempt : 0..MaxAttempts, denied : BOOLEAN]
CoordRow == [pc : CoordPc, todo : SUBSET Runs, run : Runs \cup {None}, draft : 0..MaxAttempts]
MemberRow == [run : Runs \cup {None}, draft : 0..MaxAttempts]

RunsGood == run \in [Runs -> RunRow]
JobsGood == job \in [Runs -> JobRow]
JobsOwned == \A r \in Runs : job[r].owner # None => job[r].status = "leased"
SessionsGood == session \in [Sessions -> SessionRow]
SlotsGood == /\ slot \in [Workers -> SlotRow]
             /\ \A w \in Workers : slot[w].pc # "idle" => slot[w].run \in Runs
MembersGood == member \in [Members -> MemberRow]
RestGood == /\ sweep \in [Procs -> SUBSET Runs]
            /\ up \in SUBSET Procs /\ cut \in SUBSET Runs /\ aged \in SUBSET Runs
            /\ upsets \in 0..MaxUpsets

(* Only articles are on the second list of the coordinator.                *)
IsArticle(r) == run[r].purpose = "article"
CoordGood(c) ==
    /\ c.pc \in {"approving", "rejecting", "publishing", "failing"} => c.run \in Runs
    /\ c.pc \in {"publishing", "failing"} => IsArticle(c.run)
    /\ c.pc \in {"articles", "publishing", "failing"} => \A r \in c.todo : IsArticle(r)
CoordsGood == coord \in [Procs -> CoordRow] /\ \A p \in Procs : CoordGood(coord[p])

IInv == /\ RunsGood /\ JobsGood /\ JobsOwned /\ SessionsGood /\ SlotsGood /\ MembersGood
        /\ RestGood /\ CoordsGood

-----------------------------------------------------------------------------
LEMMA Constants ==
    /\ None \notin Sessions /\ None \notin Runs /\ None \notin Procs
    /\ MaxAttempts \in Nat /\ MaxAttempts # 0 /\ MaxUpsets \in Nat
    /\ 0 \in 0..MaxAttempts
  BY DraftAssumption

LEMMA IdleRows ==
    /\ IdleSlot \in SlotRow /\ IdleSlot.pc = "idle"
    /\ IdleCoord \in CoordRow /\ IdleCoord.pc = "idle" /\ CoordGood(IdleCoord)
    /\ IdleMember \in MemberRow /\ IdleMember.run = None
  BY Constants DEF IdleSlot, SlotRow, SlotPc, IdleCoord, CoordRow, CoordPc, CoordGood,
                   IdleMember, MemberRow, NoDraft

LEMMA Initial == Init => IInv
  <1> SUFFICES ASSUME Init PROVE IInv
    OBVIOUS
  <1>1. RunsGood
    <2>1. PICK purpose \in [Runs -> Kinds] :
            run = [r \in Runs |-> [status |-> "queued", purpose |-> purpose[r],
                                   draft |-> NoDraft, applied |-> <<>>]]
      BY DEF Init
    <2>2. <<>> \in Seq(Approval)
      BY EmptySeq
    <2> QED
      BY <2>1, <2>2, Constants DEF RunsGood, RunRow, Undecided, NoDraft
  <1>2. JobsGood /\ JobsOwned /\ SessionsGood
    BY Constants DEF Init, JobsGood, JobRow, JobsOwned, SessionsGood, SessionRow
  <1>3. SlotsGood /\ MembersGood /\ CoordsGood
    BY IdleRows DEF Init, SlotsGood, MembersGood, CoordsGood
  <1>4. RestGood
    BY Constants DEF Init, RestGood
  <1> QED
    BY <1>1, <1>2, <1>3, <1>4 DEF IInv

-----------------------------------------------------------------------------
(* Runs.  What every step promises of a run: its purpose stays, an approval*)
(* of a cancelled session is a member's, and a settled decision stands.    *)
LastVia(s) == s[Len(s)].via
NoAuto(r) == Len(run'[r].applied) > Len(run[r].applied) =>
                LastVia(run'[r].applied) = "manual" \/ ~Cancelled(r)
Stands(r) == Settled(r) /\ ~IsArticle(r) => run'[r] = run[r]
RunPromise(r) == /\ run'[r] \in RunRow
                 /\ run'[r].purpose = run[r].purpose /\ NoAuto(r) /\ Stands(r)
RunsStep == RunsGood' /\ \A r \in Runs : RunPromise(r)

(* A statement that writes one run, but not its approvals.                 *)
LEMMA OneRun ==
    ASSUME IInv, NEW x \in Runs, NEW row \in RunRow, run' = [run EXCEPT ![x] = row],
           row.purpose = run[x].purpose, row.applied = run[x].applied,
           Settled(x) /\ ~IsArticle(x) => row = run[x]
    PROVE  RunsStep
  <1>1. run \in [Runs -> RunRow]
    BY DEF IInv, RunsGood
  <1>2. ASSUME NEW r \in Runs PROVE RunPromise(r)
    <2>1. CASE r = x
      <3>1. run'[r] = row
        BY <1>1, <2>1
      <3>2. ~(Len(run'[r].applied) > Len(run[r].applied))
        <4>1. Len(run[r].applied) \in Nat
          BY <1>1, LenProperties DEF RunRow
        <4> QED
          BY <2>1, <3>1, <4>1
      <3> QED
        BY <2>1, <3>1, <3>2 DEF RunPromise, NoAuto, Stands
    <2>2. CASE r # x
      <3>1. run'[r] = run[r] /\ run[r] \in RunRow
        BY <1>1, <2>2
      <3>2. Len(run[r].applied) \in Nat
        BY <3>1, LenProperties DEF RunRow
      <3> QED
        BY <3>1, <3>2 DEF RunPromise, NoAuto, Stands
    <2> QED
      BY <2>1, <2>2
  <1> QED
    BY <1>1, <1>2 DEF RunsStep, RunsGood

LEMMA StatusRow ==
    ASSUME IInv, NEW x \in Runs, NEW st \in Undecided \cup {"approved", "rejected", "failed"}
    PROVE  /\ [run[x] EXCEPT !.status = st] \in RunRow
           /\ [run[x] EXCEPT !.status = st].purpose = run[x].purpose
           /\ [run[x] EXCEPT !.status = st].applied = run[x].applied
  BY DEF IInv, RunsGood, RunRow

LEMMA StatusOnly ==
    ASSUME IInv, NEW x \in Runs, NEW st \in Undecided \cup {"approved", "rejected", "failed"},
           WriteRun(x, st), ~Settled(x) \/ IsArticle(x)
    PROVE  RunsStep
  BY StatusRow, OneRun DEF WriteRun

LEMMA SameRuns == ASSUME IInv, UNCHANGED run PROVE RunsStep
  <1>1. ASSUME NEW r \in Runs PROVE RunPromise(r)
    <2>1. run[r] \in RunRow /\ Len(run[r].applied) \in Nat
      BY LenProperties DEF IInv, RunsGood, RunRow
    <2> QED
      BY <2>1 DEF RunPromise, NoAuto, Stands
  <1> QED
    BY <1>1 DEF RunsStep, RunsGood, IInv

(* An approval, by a member, or of a session that is not cancelled.        *)
LEMMA ApproveStep ==
    ASSUME IInv, NEW x \in Runs, NEW d \in 0..MaxAttempts,
           NEW via \in {"manual", "workbench", "auto_article"},
           Approve(x, d, via), via = "manual" \/ ~Cancelled(x)
    PROVE  RunsStep
  <1> DEFINE a == [draft |-> d, via |-> via]
             row == [run[x] EXCEPT !.status = "approved", !.applied = Append(run[x].applied, a)]
  <1>1. run \in [Runs -> RunRow] /\ run[x] \in RunRow /\ run[x].applied \in Seq(Approval)
    BY DEF IInv, RunsGood, RunRow
  <1>2. a \in Approval
    BY DEF Approval
  <1>3. /\ Append(run[x].applied, a) \in Seq(Approval)
        /\ Len(Append(run[x].applied, a)) = Len(run[x].applied) + 1
        /\ Append(run[x].applied, a)[Len(run[x].applied) + 1] = a
    BY <1>1, <1>2, AppendProperties
  <1>4. run' = [run EXCEPT ![x] = row]
    BY DEF Approve
  <1>5. row \in RunRow /\ row.purpose = run[x].purpose /\ row.applied = Append(run[x].applied, a)
    BY <1>1, <1>3 DEF RunRow
  <1>6. ~Settled(x)
    BY DEF Approve, Settled
  <1> HIDE DEF row
  <1>7. ASSUME NEW r \in Runs PROVE RunPromise(r)
    <2>1. CASE r = x
      <3>1. run'[r] = row
        BY <1>1, <1>4, <2>1
      <3>2. LastVia(run'[r].applied) = via
        BY <1>3, <1>5, <3>1 DEF LastVia
      <3> QED
        BY <1>5, <1>6, <2>1, <3>1, <3>2 DEF RunPromise, NoAuto, Stands
    <2>2. CASE r # x
      <3>1. run'[r] = run[r] /\ run[r] \in RunRow
        BY <1>1, <1>4, <2>2
      <3>2. Len(run[r].applied) \in Nat
        BY <3>1, LenProperties DEF RunRow
      <3> QED
        BY <3>1, <3>2 DEF RunPromise, NoAuto, Stands
    <2> QED
      BY <2>1, <2>2
  <1> QED
    BY <1>1, <1>4, <1>5, <1>7 DEF RunsStep, RunsGood

LEMMA SlotRuns == ASSUME IInv, NEW w \in Workers, SlotStep(w) PROVE RunsStep
  <1> DEFINE x == slot[w].run
  <1>1. slot[w].pc # "idle" => x \in Runs /\ ~Settled(x)
    BY DEF IInv, SlotsGood, Settled
  <1>2. slot[w].attempt \in 0..MaxAttempts
    BY DEF IInv, SlotsGood, SlotRow
  <1>3. ASSUME NEW st \in Undecided, NEW d \in 0..MaxAttempts, x \in Runs, ~Settled(x),
               run' = [run EXCEPT ![x] = [run[x] EXCEPT !.status = st, !.draft = d]]
        PROVE  RunsStep
    <2>1. /\ [run[x] EXCEPT !.status = st, !.draft = d] \in RunRow
          /\ [run[x] EXCEPT !.status = st, !.draft = d].purpose = run[x].purpose
          /\ [run[x] EXCEPT !.status = st, !.draft = d].applied = run[x].applied
      BY <1>3 DEF IInv, RunsGood, RunRow
    <2> QED
      BY <1>3, <2>1, OneRun
  <1>4. CASE Launch(w)
    BY <1>1, <1>3, <1>4, Constants DEF Launch, NoDraft, Undecided
  <1>5. CASE Submit(w)
    BY <1>1, <1>2, <1>3, <1>5 DEF Submit, Undecided
  <1>6. CASE Record(w)
    BY <1>1, <1>6, StatusOnly DEF Record
  <1>7. CASE GiveBack(w)
    <2>1. x \in Runs /\ ~Settled(x)
      BY <1>1, <1>7 DEF GiveBack
    <2>2. UNCHANGED run \/ WriteRun(x, "queued") \/ WriteRun(x, "failed")
      BY <1>7 DEF GiveBack
    <2> QED
      BY <2>1, <2>2, SameRuns, StatusOnly DEF Undecided
  <1>8. CASE Claim(w) \/ Begin(w) \/ Work(w) \/ Charge(w) \/ Complete(w)
    BY <1>8, SameRuns DEF Claim, Begin, Work, Charge, Complete, rows
  <1> QED
    BY <1>4, <1>5, <1>6, <1>7, <1>8 DEF SlotStep

LEMMA RejectStep == ASSUME IInv, NEW x \in Runs, Reject(x) PROVE RunsStep
  BY StatusOnly DEF Reject, Settled

LEMMA MemberRuns ==
    ASSUME IInv, NEW m \in Members, MemberReads(m) \/ MemberApproves(m) \/ MemberRejects(m)
    PROVE  RunsStep
  <1>1. CASE MemberReads(m)
    BY <1>1, SameRuns DEF MemberReads, rows
  <1>2. CASE MemberApproves(m)
    <2>1. member[m].run \in Runs /\ member[m].draft \in 0..MaxAttempts
      BY <1>2 DEF MemberApproves, IInv, MembersGood, MemberRow
    <2> QED
      BY <1>2, <2>1, ApproveStep, SameRuns DEF MemberApproves
  <1>3. CASE MemberRejects(m)
    BY <1>3, RejectStep DEF MemberRejects
  <1> QED
    BY <1>1, <1>2, <1>3

LEMMA CoordRuns == ASSUME IInv, NEW p \in Procs, CoordStep(p) PROVE RunsStep
  <1> DEFINE x == coord[p].run
  <1>1. CoordGood(coord[p]) /\ coord[p] \in CoordRow
    BY DEF IInv, CoordsGood
  <1>2. CASE AutoApproves(p)
    <2>1. x \in Runs /\ coord[p].draft \in 0..MaxAttempts
      BY <1>1, <1>2 DEF AutoApproves, CoordGood, CoordRow
    <2>2. AutoAllowed(p) => ~Cancelled(x)
      BY DEF AutoAllowed, Cancelled
    <2>3. \/ UNCHANGED run
          \/ AutoAllowed(p) /\ \E via \in {"workbench", "auto_article"} : Approve(x, coord[p].draft, via)
      BY <1>2 DEF AutoApproves
    <2> QED
      BY <2>1, <2>2, <2>3, ApproveStep, SameRuns
  <1>3. CASE AutoRejects(p)
    BY <1>1, <1>3, RejectStep, SameRuns DEF AutoRejects, CoordGood
  <1>4. CASE ArticleFails(p)
    BY <1>1, <1>4, StatusOnly DEF ArticleFails, CoordGood
  <1>5. CASE ListWorkbench(p) \/ ListArticles(p) \/ CoordDone(p) \/ AutoReads(p)
    BY <1>5, SameRuns DEF ListWorkbench, ListArticles, CoordDone, AutoReads, rows
  <1> QED
    BY <1>2, <1>3, <1>4, <1>5 DEF CoordStep

LEMMA SweepRuns == ASSUME IInv, NEW p \in Procs, SweepStep(p) PROVE RunsStep
  <1>1. CASE SweepJobs(p)
    BY <1>1, SameRuns DEF SweepJobs
  <1>2. CASE SweepRun(p)
    <2>1. PICK x \in sweep[p] :
            IF run[x].status \in Unfinished THEN WriteRun(x, "failed") ELSE UNCHANGED run
      BY <1>2 DEF SweepRun
    <2>2. x \in Runs
      BY DEF IInv, RestGood
    <2> QED
      BY <2>1, <2>2, SameRuns, StatusOnly DEF Settled, Unfinished
  <1> QED
    BY <1>1, <1>2 DEF SweepStep

LEMMA StartRuns == ASSUME IInv, NEW p \in Procs, Start(p) PROVE RunsStep
  <1>1. PICK old \in SUBSET Runs :
          run' = [r \in Runs |-> IF r \in old /\ run[r].status = "running" /\ ~JobOpen(r)
                                 THEN [run[r] EXCEPT !.status = "failed"] ELSE run[r]]
    BY DEF Start
  <1>2. ASSUME NEW r \in Runs PROVE RunPromise(r)
    <2>1. run[r] \in RunRow /\ Len(run[r].applied) \in Nat
      BY LenProperties DEF IInv, RunsGood, RunRow
    <2>2. CASE run'[r] = run[r]
      BY <2>1, <2>2 DEF RunPromise, NoAuto, Stands
    <2>3. CASE run[r].status = "running" /\ run'[r] = [run[r] EXCEPT !.status = "failed"]
      <3>1. run'[r] \in RunRow /\ run'[r].purpose = run[r].purpose /\ run'[r].applied = run[r].applied
        BY <2>3, StatusRow
      <3>2. ~Settled(r)
        BY <2>3 DEF Settled
      <3> QED
        BY <2>1, <3>1, <3>2 DEF RunPromise, NoAuto, Stands
    <2> QED
      BY <1>1, <2>2, <2>3
  <1> QED
    BY <1>1, <1>2 DEF RunsStep, RunsGood, RunPromise

LEMMA RunsNext == ASSUME IInv, [Next]_vars PROVE RunsStep
  <1>1. CASE UNCHANGED run
    BY <1>1, SameRuns
  <1>2. CASE \E w \in Workers : SlotStep(w)
    BY <1>2, SlotRuns
  <1>3. CASE \E m \in Members : MemberReads(m) \/ MemberApproves(m) \/ MemberRejects(m)
    BY <1>3, MemberRuns
  <1>4. CASE \E p \in Procs : CoordStep(p) \/ SweepStep(p) \/ Start(p)
    BY <1>4, CoordRuns, SweepRuns, StartRuns
  <1>5. CASE \E w \in Workers : Renew(w) \/ Fault(w)
    BY <1>1, <1>5 DEF Renew, Fault, rows
  <1>6. CASE \E p \in Procs : CoordFault(p) \/ SweepFault(p) \/ Crash(p)
    BY <1>1, <1>6 DEF CoordFault, SweepFault, Crash, rows
  <1>7. CASE \E r \in Runs : LeaseExpires(r) \/ Stall(r) \/ BecomesDue(r)
    BY <1>1, <1>7 DEF LeaseExpires, Stall, BecomesDue
  <1>8. CASE \E s \in Sessions : SessionChanges(s)
    BY <1>1, <1>8 DEF SessionChanges
  <1>9. CASE UNCHANGED vars
    BY <1>1, <1>9 DEF vars
  <1> QED
    BY <1>2, <1>3, <1>4, <1>5, <1>6, <1>7, <1>8, <1>9 DEF Next
-----------------------------------------------------------------------------
(* Jobs.  A job that has ended stays so.                                   *)
JobsStep == JobsGood' /\ JobsOwned' /\ \A r \in Runs : JobOpen(r)' => JobOpen(r)

LEMMA OneJob ==
    ASSUME IInv, NEW x \in Runs, NEW row \in JobRow, job' = [job EXCEPT ![x] = row],
           row.status \in {"pending", "leased"} => JobOpen(x),
           row.owner # None => row.status = "leased"
    PROVE  JobsStep
  BY DEF IInv, JobsGood, JobsOwned, JobsStep, JobOpen

LEMMA JobsNext == ASSUME IInv, [Next]_vars PROVE JobsStep
  <1> USE Constants
  <1>1. CASE UNCHANGED job
    BY <1>1 DEF IInv, JobsGood, JobsOwned, JobsStep, JobOpen
  <1>2. ASSUME NEW x \in Runs PROVE job[x] \in JobRow
    BY DEF IInv, JobsGood
  <1>3. ASSUME NEW w \in Workers, Claim(w) PROVE JobsStep
    <2>1. PICK x \in Runs :
            /\ Claimable(x)
            /\ job' = [job EXCEPT ![x] = [job[x] EXCEPT !.status = "leased", !.owner = OwnerOf(w),
                                       !.live = TRUE, !.attempts = job[x].attempts + 1]]
      BY <1>3 DEF Claim
    <2>2. job[x].attempts + 1 \in 0..MaxAttempts /\ OwnerOf(w) \in Procs
      BY <1>2, <2>1 DEF Claimable, JobRow, OwnerOf, Workers
    <2>3. [job[x] EXCEPT !.status = "leased", !.owner = OwnerOf(w),
                         !.live = TRUE, !.attempts = job[x].attempts + 1] \in JobRow
      BY <1>2, <2>2 DEF JobRow
    <2>4. JobOpen(x)
      BY <2>1 DEF Claimable, Expired, JobOpen
    <2> DEFINE row == [job[x] EXCEPT !.status = "leased", !.owner = OwnerOf(w),
                                     !.live = TRUE, !.attempts = job[x].attempts + 1]
    <2>5. row.status = "leased"
      BY <1>2 DEF JobRow
    <2> HIDE DEF row
    <2> QED
      BY <2>1, <2>3, <2>4, <2>5, OneJob DEF row
  <1>4. ASSUME NEW w \in Workers, Renew(w) PROVE JobsStep
    <2>1. slot[w].run \in Runs
      BY <1>4 DEF Renew, IInv, SlotsGood
    <2> QED
      BY <1>2, <1>4, <2>1, OneJob DEF Renew, JobOpen, JobRow
  <1>5. ASSUME NEW w \in Workers, Complete(w) \/ GiveBack(w) PROVE JobsStep
    <2> DEFINE x == slot[w].run
    <2>1. x \in Runs /\ OwnerOf(w) \in Procs
      BY <1>5 DEF Complete, GiveBack, IInv, SlotsGood, OwnerOf, Workers
    <2>2. CASE UNCHANGED job
      BY <1>1, <2>2
    <2>3. ASSUME job[x].owner = OwnerOf(w) PROVE JobOpen(x)
      BY <2>3, <2>1 DEF IInv, JobsOwned, JobOpen
    <2>4. CASE job[x].owner = OwnerOf(w) /\ Complete(w)
      <3> DEFINE row == [job[x] EXCEPT !.status = "complete", !.owner = None, !.live = FALSE]
      <3>1. row \in JobRow /\ row.status = "complete" /\ row.owner = None
        BY <1>2, <2>1 DEF JobRow
      <3>2. job' = [job EXCEPT ![x] = row]
        BY <2>4 DEF Complete
      <3> HIDE DEF row
      <3> QED
        BY <2>1, <3>1, <3>2, OneJob
    <2>5. CASE job[x].owner = OwnerOf(w) /\ GiveBack(w)
      <3>1. PICK st \in {"pending", "failed"} : job' = [job EXCEPT ![x] =
              [job[x] EXCEPT !.status = st, !.owner = None, !.live = FALSE, !.due = FALSE]]
        BY <2>5 DEF GiveBack
      <3> DEFINE row == [job[x] EXCEPT !.status = st, !.owner = None, !.live = FALSE, !.due = FALSE]
      <3>2. row \in JobRow /\ row.owner = None
        BY <1>2, <2>1 DEF JobRow
      <3> HIDE DEF row
      <3> QED
        BY <2>1, <2>3, <2>5, <3>1, <3>2, OneJob DEF row
    <2> QED
      BY <1>5, <2>2, <2>4, <2>5 DEF Complete, GiveBack
  <1>6. ASSUME NEW p \in Procs, SweepJobs(p) PROVE JobsStep
    <2>1. \A r \in Runs : \/ job'[r] = job[r]
                           \/ job'[r] = [job[r] EXCEPT !.status = "failed", !.owner = None, !.live = FALSE]
      BY <1>6 DEF SweepJobs
    <2>2. \A r \in Runs :
            LET row == [job[r] EXCEPT !.status = "failed", !.owner = None, !.live = FALSE] IN
            row \in JobRow /\ row.status = "failed" /\ row.owner = None
      BY <1>2 DEF JobRow
    <2>3. JobsGood'
      BY <1>2, <1>6, <2>1, <2>2 DEF SweepJobs, JobsGood
    <2> QED
      BY <2>1, <2>2, <2>3 DEF JobsStep, JobsOwned, JobOpen, IInv
  <1>7. ASSUME NEW x \in Runs, LeaseExpires(x) \/ Stall(x) \/ BecomesDue(x) PROVE JobsStep
    <2>1. PICK row \in {[job[x] EXCEPT !.live = FALSE], [job[x] EXCEPT !.due = TRUE]} :
            job' = [job EXCEPT ![x] = row]
      BY <1>7 DEF LeaseExpires, Stall, BecomesDue
    <2>2. row \in JobRow /\ row.status = job[x].status /\ row.owner = job[x].owner
      BY <1>2, <2>1 DEF JobRow
    <2> QED
      BY <2>1, <2>2, OneJob DEF JobOpen, IInv, JobsOwned
  <1>8. CASE \E w \in Workers : SlotStep(w)
    BY <1>1, <1>3, <1>5, <1>8 DEF SlotStep, Begin, Launch, Work, Submit, Charge, Record, rows
  <1>9. CASE \E w \in Workers : Renew(w) \/ Fault(w)
    BY <1>1, <1>4, <1>9 DEF Fault, rows
  <1>10. CASE \E m \in Members : MemberReads(m) \/ MemberApproves(m) \/ MemberRejects(m)
    BY <1>1, <1>10 DEF MemberReads, MemberApproves, MemberRejects, rows
  <1>11. CASE \E p \in Procs : CoordStep(p)
    BY <1>1, <1>11 DEF CoordStep, ListWorkbench, ListArticles, CoordDone, AutoReads,
                       AutoApproves, AutoRejects, ArticleFails, rows
  <1>12. CASE \E p \in Procs : \/ CoordFault(p) \/ SweepStep(p) \/ SweepFault(p)
                               \/ Crash(p) \/ Start(p)
    BY <1>1, <1>6, <1>12 DEF CoordFault, SweepStep, SweepRun, SweepFault, Crash, Start, rows
  <1>13. CASE \E s \in Sessions : SessionChanges(s)
    BY <1>1, <1>13 DEF SessionChanges
  <1>14. CASE UNCHANGED vars
    BY <1>1, <1>14 DEF vars
  <1> QED
    BY <1>7, <1>8, <1>9, <1>10, <1>11, <1>12, <1>13, <1>14 DEF Next

-----------------------------------------------------------------------------
(* Slots.  Only a claim takes a slot to a run.                             *)
SlotsStep ==
    /\ SlotsGood'
    /\ \A w \in Workers : slot'[w].pc # "idle" /\ slot'[w].run # slot[w].run => JobOpen(slot'[w].run)
    /\ \A w \in Workers : slot'[w].run \in {None, slot[w].run} \/ JobOpen(slot'[w].run)

LEMMA SlotsNext == ASSUME IInv, [Next]_vars PROVE SlotsStep
  <1> USE Constants
  <1>1. CASE UNCHANGED slot
    BY <1>1 DEF IInv, SlotsGood, SlotsStep
  <1>2. ASSUME NEW w \in Workers PROVE slot[w] \in SlotRow
    BY DEF IInv, SlotsGood
  <1>3. ASSUME NEW w \in Workers, NEW s \in SlotRow, SlotTo(w, s),
               s.pc # "idle" => s.run \in Runs,
               s.run \in {None, slot[w].run} \/ JobOpen(s.run)
        PROVE  SlotsStep
    <2>1. slot'[w] = s /\ \A v \in Workers \ {w} : slot'[v] = slot[v]
      BY <1>3 DEF SlotTo, IInv, SlotsGood
    <2>2. SlotsGood'
      BY <1>3, <2>1 DEF SlotTo, IInv, SlotsGood
    <2> QED
      BY <1>3, <2>1, <2>2 DEF SlotsStep, IInv, SlotsGood
  <1>4. ASSUME NEW w \in Workers, NEW pc \in SlotPc, slot[w].pc # "idle", SlotAt(w, pc)
        PROVE  SlotsStep
    <2>1. [slot[w] EXCEPT !.pc = pc] \in SlotRow /\ [slot[w] EXCEPT !.pc = pc].run = slot[w].run
      BY <1>2 DEF SlotRow
    <2>2. slot[w].run \in Runs
      BY <1>4 DEF IInv, SlotsGood
    <2> QED
      BY <1>3, <1>4, <2>1, <2>2 DEF SlotAt
  <1>5. ASSUME NEW w \in Workers, NEW pc \in SlotPc, NEW d \in BOOLEAN, slot[w].pc # "idle",
               SlotTo(w, [slot[w] EXCEPT !.pc = pc, !.denied = d])
        PROVE  SlotsStep
    <2>1. /\ [slot[w] EXCEPT !.pc = pc, !.denied = d] \in SlotRow
          /\ [slot[w] EXCEPT !.pc = pc, !.denied = d].run = slot[w].run
      BY <1>2 DEF SlotRow
    <2>2. slot[w].run \in Runs
      BY <1>5 DEF IInv, SlotsGood
    <2> QED
      BY <1>3, <1>5, <2>1, <2>2
  <1>6. ASSUME NEW w \in Workers, SlotTo(w, IdleSlot) PROVE SlotsStep
    <2>1. IdleSlot.run = None
      BY DEF IdleSlot
    <2> QED
      BY <1>3, <1>6, <2>1, IdleRows
  <1>7. ASSUME NEW w \in Workers, Claim(w) PROVE SlotsStep
    <2>1. PICK x \in Runs : /\ Claimable(x)
            /\ SlotTo(w, [pc |-> "starting", run |-> x, attempt |-> job[x].attempts + 1, denied |-> FALSE])
      BY <1>7 DEF Claim
    <2>2. job[x].attempts + 1 \in 0..MaxAttempts
      BY <2>1 DEF Claimable, IInv, JobsGood, JobRow
    <2>3. [pc |-> "starting", run |-> x, attempt |-> job[x].attempts + 1, denied |-> FALSE] \in SlotRow
      BY <2>2 DEF SlotRow, SlotPc
    <2>4. JobOpen(x)
      BY <2>1 DEF Claimable, Expired, JobOpen
    <2> QED
      BY <1>3, <2>1, <2>3, <2>4
  <1>8. ASSUME NEW w \in Workers, Begin(w) \/ Work(w) PROVE SlotsStep
    BY <1>4, <1>5, <1>8 DEF Begin, Work, SlotPc
  <1>9. ASSUME NEW w \in Workers, Launch(w) \/ Submit(w) \/ Charge(w) \/ Record(w) PROVE SlotsStep
    BY <1>4, <1>9 DEF Launch, Submit, Charge, Record, SlotPc
  <1>10. ASSUME NEW w \in Workers, Complete(w) \/ GiveBack(w) PROVE SlotsStep
    BY <1>6, <1>10 DEF Complete, GiveBack
  <1>11. ASSUME NEW w \in Workers, Fault(w) PROVE SlotsStep
    BY <1>4, <1>6, <1>11 DEF Fault, SlotPc
  <1>12. ASSUME NEW p \in Procs, Crash(p) PROVE SlotsStep
    <2>1. slot' = [w \in Workers |-> IF OwnerOf(w) = p THEN IdleSlot ELSE slot[w]]
      BY <1>12 DEF Crash
    <2>2. \A w \in Workers : slot'[w] = IdleSlot \/ slot'[w] = slot[w]
      BY <2>1
    <2>3. IdleSlot.run = None
      BY DEF IdleSlot
    <2> QED
      BY <1>2, <2>1, <2>2, <2>3, IdleRows DEF SlotsStep, SlotsGood, IInv
  <1>13. CASE \E w \in Workers : SlotStep(w)
    BY <1>7, <1>8, <1>9, <1>10, <1>13 DEF SlotStep
  <1>14. CASE \E w \in Workers : Renew(w) \/ Fault(w)
    BY <1>1, <1>11, <1>14 DEF Renew
  <1>15. CASE \E m \in Members : MemberReads(m) \/ MemberApproves(m) \/ MemberRejects(m)
    BY <1>1, <1>15 DEF MemberReads, MemberApproves, MemberRejects
  <1>16. CASE \E p \in Procs : CoordStep(p)
    BY <1>1, <1>16 DEF CoordStep, ListWorkbench, ListArticles, CoordDone, AutoReads,
                       AutoApproves, AutoRejects, ArticleFails
  <1>17. CASE \E p \in Procs : \/ CoordFault(p) \/ SweepStep(p) \/ SweepFault(p)
                               \/ Crash(p) \/ Start(p)
    BY <1>1, <1>12, <1>17 DEF CoordFault, SweepStep, SweepJobs, SweepRun, SweepFault, Start
  <1>18. CASE \E r \in Runs : LeaseExpires(r) \/ Stall(r) \/ BecomesDue(r)
    BY <1>1, <1>18 DEF LeaseExpires, Stall, BecomesDue
  <1>19. CASE \E s \in Sessions : SessionChanges(s)
    BY <1>1, <1>19 DEF SessionChanges
  <1>20. CASE UNCHANGED vars
    BY <1>1, <1>20 DEF vars
  <1> QED
    BY <1>13, <1>14, <1>15, <1>16, <1>17, <1>18, <1>19, <1>20 DEF Next

-----------------------------------------------------------------------------
(* The coordinator, members, sessions and the rest.                        *)
LEMMA ArticlesStay ==
    ASSUME IInv, RunsStep, NEW c \in CoordRow, CoordGood(c) PROVE CoordGood(c)'
  BY DEF RunsStep, RunPromise, CoordGood, IsArticle, CoordRow

LEMMA CoordsNext == ASSUME IInv, [Next]_vars PROVE CoordsGood'
  <1> USE Constants
  <1>0. RunsStep
    BY RunsNext
  <1>1. CASE UNCHANGED coord
    BY <1>0, <1>1, ArticlesStay DEF IInv, CoordsGood
  <1>2. ASSUME NEW p \in Procs PROVE coord[p] \in CoordRow /\ CoordGood(coord[p])
    BY DEF IInv, CoordsGood
  <1>3. ASSUME NEW p \in Procs, NEW c \in CoordRow, CoordTo(p, c), CoordGood(c) PROVE CoordsGood'
    <2>1. coord'[p] = c /\ \A q \in Procs \ {p} : coord'[q] = coord[q]
      BY <1>3 DEF CoordTo, IInv, CoordsGood
    <2> QED
      BY <1>0, <1>2, <1>3, <2>1, ArticlesStay DEF CoordTo, IInv, CoordsGood
  <1>4. ASSUME NEW p \in Procs, CoordTo(p, IdleCoord) PROVE CoordsGood'
    BY <1>3, <1>4, IdleRows
  <1>5. ASSUME NEW p \in Procs, CoordAt(p, "workbench")
        PROVE  CoordsGood'
    <2> DEFINE c == [coord[p] EXCEPT !.pc = "workbench", !.run = None, !.draft = NoDraft]
    <2>1. c \in CoordRow /\ CoordGood(c)
      BY <1>2 DEF CoordRow, CoordPc, CoordGood, NoDraft
    <2> QED
      BY <1>3, <1>5, <2>1 DEF CoordAt
  <1>6. ASSUME NEW p \in Procs, CoordAt(p, "articles"), coord[p].pc \in {"publishing", "failing"}
        PROVE  CoordsGood'
    <2> DEFINE c == [coord[p] EXCEPT !.pc = "articles", !.run = None, !.draft = NoDraft]
    <2>1. c \in CoordRow /\ CoordGood(c)
      BY <1>2, <1>6 DEF CoordRow, CoordPc, CoordGood, NoDraft
    <2> QED
      BY <1>3, <1>6, <2>1 DEF CoordAt
  <1>7. ASSUME NEW p \in Procs, ListWorkbench(p) \/ ListArticles(p) PROVE CoordsGood'
    <2>1. PICK pc \in {"workbench", "articles"}, todo \in SUBSET Runs :
            /\ CoordTo(p, [IdleCoord EXCEPT !.pc = pc, !.todo = todo])
            /\ pc = "articles" => \A r \in todo : IsArticle(r)
      <3>1. CASE ListWorkbench(p)
        <4> DEFINE T == {r \in Runs :
            /\ run[r].status = "awaiting_approval" /\ run[r].purpose # "report"
            /\ SessionOf[r] # None
            /\ session[SessionOf[r]].auto /\ session[SessionOf[r]].state = "live"}
        <4>1. T \in SUBSET Runs /\ CoordTo(p, [IdleCoord EXCEPT !.pc = "workbench", !.todo = T])
          BY <3>1 DEF ListWorkbench
        <4> HIDE DEF T
        <4> QED
          BY <4>1
      <3>2. CASE ListArticles(p)
        <4> DEFINE T == {r \in Runs :
            run[r].status = "awaiting_approval" /\ run[r].purpose = "article"}
        <4>1. T \in SUBSET Runs /\ CoordTo(p, [IdleCoord EXCEPT !.pc = "articles", !.todo = T])
              /\ \A r \in T : IsArticle(r)
          BY <3>2 DEF ListArticles, IsArticle
        <4> HIDE DEF T
        <4> QED
          BY <4>1
      <3> QED
        BY <1>7, <3>1, <3>2
    <2>2. /\ [IdleCoord EXCEPT !.pc = pc, !.todo = todo] \in CoordRow
          /\ CoordGood([IdleCoord EXCEPT !.pc = pc, !.todo = todo])
      BY <2>1 DEF IdleCoord, CoordRow, CoordPc, CoordGood, NoDraft
    <2> QED
      BY <1>3, <2>1, <2>2
  <1>8. ASSUME NEW p \in Procs, AutoReads(p) PROVE CoordsGood'
    <2>1. PICK x \in coord[p].todo, pc \in {"approving", "rejecting", "publishing", "failing"} :
            /\ CoordTo(p, [coord[p] EXCEPT !.todo = coord[p].todo \ {x}, !.run = x,
                                           !.draft = run[x].draft, !.pc = pc])
            /\ pc \in {"publishing", "failing"} => coord[p].pc = "articles"
      BY <1>8 DEF AutoReads
    <2>2. x \in Runs /\ run[x].draft \in 0..MaxAttempts
      BY <1>2 DEF CoordRow, IInv, RunsGood, RunRow
    <2> DEFINE c == [coord[p] EXCEPT !.todo = coord[p].todo \ {x}, !.run = x,
                                     !.draft = run[x].draft, !.pc = pc]
    <2>3. c \in CoordRow /\ c.pc = pc /\ c.run = x /\ c.todo = coord[p].todo \ {x}
      BY <1>2, <2>2 DEF CoordRow, CoordPc
    <2>4. CoordGood(c)
      BY <1>2, <2>1, <2>2, <2>3 DEF CoordGood
    <2> QED
      BY <1>3, <2>1, <2>3, <2>4
  <1>9. ASSUME NEW p \in Procs, NEW pc \in {"rejecting", "failing"},
               coord[p].pc = IF pc = "rejecting" THEN "approving" ELSE "publishing",
               CoordTo(p, [coord[p] EXCEPT !.pc = pc])
        PROVE  CoordsGood'
    <2> DEFINE c == [coord[p] EXCEPT !.pc = pc]
    <2>1. c \in CoordRow /\ c.pc = pc /\ c.run = coord[p].run /\ c.todo = coord[p].todo
      BY <1>2 DEF CoordRow, CoordPc
    <2>2. CoordGood(c)
      BY <1>2, <1>9, <2>1 DEF CoordGood
    <2> QED
      BY <1>3, <1>9, <2>1, <2>2
  <1>10. ASSUME NEW p \in Procs, AutoApproves(p) PROVE CoordsGood'
    <2>1. CASE coord[p].pc = "approving"
      BY <1>5, <1>9, <1>10, <2>1 DEF AutoApproves
    <2>2. CASE coord[p].pc = "publishing"
      BY <1>6, <1>9, <1>10, <2>2 DEF AutoApproves
    <2> QED
      BY <1>10, <2>1, <2>2 DEF AutoApproves
  <1>11. CASE \E p \in Procs : CoordStep(p)
    BY <1>4, <1>5, <1>6, <1>7, <1>8, <1>10, <1>11
    DEF CoordStep, CoordDone, AutoRejects, ArticleFails
  <1>12. CASE \E p \in Procs : CoordFault(p) \/ Crash(p)
    BY <1>4, <1>12 DEF CoordFault, Crash
  <1>13. CASE \E p \in Procs : SweepStep(p) \/ SweepFault(p) \/ Start(p)
    BY <1>1, <1>13 DEF SweepStep, SweepJobs, SweepRun, SweepFault, Start
  <1>14. CASE \E w \in Workers : SlotStep(w) \/ Renew(w) \/ Fault(w)
    BY <1>1, <1>14 DEF SlotStep, Claim, Begin, Launch, Work, Submit, Charge, Complete, Record,
                       GiveBack, Renew, Fault
  <1>15. CASE \E m \in Members : MemberReads(m) \/ MemberApproves(m) \/ MemberRejects(m)
    BY <1>1, <1>15 DEF MemberReads, MemberApproves, MemberRejects
  <1>16. CASE \E r \in Runs : LeaseExpires(r) \/ Stall(r) \/ BecomesDue(r)
    BY <1>1, <1>16 DEF LeaseExpires, Stall, BecomesDue
  <1>17. CASE \E s \in Sessions : SessionChanges(s)
    BY <1>1, <1>17 DEF SessionChanges
  <1>18. CASE UNCHANGED vars
    BY <1>1, <1>18 DEF vars
  <1> QED
    BY <1>11, <1>12, <1>13, <1>14, <1>15, <1>16, <1>17, <1>18 DEF Next
LEMMA MembersNext == ASSUME IInv, [Next]_vars PROVE MembersGood'
  <1>1. CASE UNCHANGED member
    BY <1>1 DEF IInv, MembersGood
  <1>2. ASSUME NEW m \in Members, MemberReads(m) \/ MemberApproves(m) PROVE MembersGood'
    <2>1. PICK row \in MemberRow : member' = [member EXCEPT ![m] = row]
      <3>1. CASE MemberReads(m)
        <4>1. PICK x \in Runs : member' = [member EXCEPT ![m] = [run |-> x, draft |-> run[x].draft]]
          BY <3>1 DEF MemberReads
        <4>2. [run |-> x, draft |-> run[x].draft] \in MemberRow
          BY DEF IInv, RunsGood, RunRow, MemberRow
        <4> QED
          BY <4>1, <4>2
      <3>2. CASE MemberApproves(m)
        BY <3>2, IdleRows DEF MemberApproves
      <3> QED
        BY <1>2, <3>1, <3>2
    <2> QED
      BY <2>1 DEF IInv, MembersGood
  <1>3. CASE \E w \in Workers : SlotStep(w) \/ Renew(w) \/ Fault(w)
    BY <1>1, <1>3 DEF SlotStep, Claim, Begin, Launch, Work, Submit, Charge, Complete, Record,
                      GiveBack, Renew, Fault
  <1>4. CASE \E p \in Procs : CoordStep(p)
    BY <1>1, <1>4 DEF CoordStep, ListWorkbench, ListArticles, CoordDone, AutoReads,
                      AutoApproves, AutoRejects, ArticleFails
  <1>5. CASE \E p \in Procs : \/ CoordFault(p) \/ SweepStep(p) \/ SweepFault(p)
                              \/ Crash(p) \/ Start(p)
    BY <1>1, <1>5 DEF CoordFault, SweepStep, SweepJobs, SweepRun, SweepFault, Crash, Start
  <1>6. CASE \E r \in Runs : LeaseExpires(r) \/ Stall(r) \/ BecomesDue(r)
    BY <1>1, <1>6 DEF LeaseExpires, Stall, BecomesDue
  <1>7. CASE \E s \in Sessions : SessionChanges(s)
    BY <1>1, <1>7 DEF SessionChanges
  <1>8. CASE UNCHANGED vars
    BY <1>1, <1>8 DEF vars
  <1>9. CASE \E m \in Members : MemberRejects(m)
    BY <1>1, <1>9 DEF MemberRejects
  <1> QED
    BY <1>2, <1>3, <1>4, <1>5, <1>6, <1>7, <1>8, <1>9 DEF Next

(* The step is one of those that may disturb the bounds and the sweeps.    *)
LEMMA RestNext == ASSUME IInv, [Next]_vars PROVE RestGood' /\ SessionsGood'
  <1> USE Constants
  <1> DEFINE Quiet == UNCHANGED <<sweep, up, aged, cut, upsets, session>>
  <1>1. CASE Quiet
    BY <1>1 DEF IInv, RestGood, SessionsGood
  <1>2. ASSUME upsets < MaxUpsets, upsets' = upsets + 1 PROVE upsets' \in 0..MaxUpsets
    BY <1>2 DEF IInv, RestGood
  <1>3. ASSUME NEW w \in Workers, SlotStep(w) \/ Renew(w) PROVE RestGood' /\ SessionsGood'
    <2>1. UNCHANGED <<sweep, up, aged, upsets, session>>
      BY <1>3 DEF SlotStep, Claim, Begin, Launch, Work, Submit, Charge, Complete, Record,
                  GiveBack, Renew, rows, bounds
    <2>2. cut' = cut \/ (slot[w].pc # "idle" /\ cut' = cut \cup {slot[w].run})
      BY <1>3 DEF SlotStep, Claim, Begin, Launch, Work, Submit, Charge, Complete, Record,
                  GiveBack, Renew, rows, bounds
    <2>3. cut' \in SUBSET Runs
      BY <2>2 DEF IInv, RestGood, SlotsGood
    <2> QED
      BY <2>1, <2>3 DEF IInv, RestGood, SessionsGood
  <1>4. ASSUME NEW w \in Workers, Fault(w) PROVE RestGood' /\ SessionsGood'
    <2>1. slot[w].run \in Runs
      BY <1>4 DEF Fault, IInv, SlotsGood
    <2>2. upsets' \in 0..MaxUpsets /\ cut' \in SUBSET Runs /\ UNCHANGED <<sweep, up, aged, session>>
      BY <1>2, <1>4, <2>1 DEF Fault, rows, IInv, RestGood
    <2> QED
      BY <2>2 DEF IInv, RestGood, SessionsGood
  <1>5. ASSUME NEW p \in Procs, CoordStep(p) PROVE Quiet
    BY <1>5 DEF CoordStep, ListWorkbench, ListArticles, CoordDone, AutoReads,
                AutoApproves, AutoRejects, ArticleFails, rows, bounds
  <1>6. ASSUME NEW p \in Procs, CoordFault(p) PROVE RestGood' /\ SessionsGood'
    <2>1. upsets' \in 0..MaxUpsets
      BY <1>2, <1>6 DEF CoordFault
    <2> QED
      BY <1>6, <2>1 DEF CoordFault, rows, IInv, RestGood, SessionsGood
  <1>7. ASSUME NEW p \in Procs, SweepStep(p) PROVE RestGood' /\ SessionsGood'
    <2>1. PICK S \in SUBSET Runs : sweep' = [sweep EXCEPT ![p] = S]
      BY <1>7 DEF SweepStep, SweepJobs, SweepRun, Exhausted, IInv, RestGood
    <2>2. UNCHANGED <<up, aged, cut, upsets, session>>
      BY <1>7 DEF SweepStep, SweepJobs, SweepRun, bounds
    <2> QED
      BY <2>1, <2>2 DEF IInv, RestGood, SessionsGood
  <1>8. ASSUME NEW p \in Procs, SweepFault(p) PROVE RestGood' /\ SessionsGood'
    BY <1>8 DEF SweepFault, rows, IInv, RestGood, SessionsGood
  <1>9. ASSUME NEW p \in Procs, Crash(p) PROVE RestGood' /\ SessionsGood'
    <2>1. upsets' \in 0..MaxUpsets
      BY <1>2, <1>9 DEF Crash
    <2> QED
      BY <1>9, <2>1 DEF Crash, rows, IInv, RestGood, SessionsGood
  <1>10. ASSUME NEW p \in Procs, Start(p) PROVE RestGood' /\ SessionsGood'
    BY <1>10 DEF Start, bounds, IInv, RestGood, SessionsGood
  <1>11. ASSUME NEW r \in Runs, LeaseExpires(r) \/ BecomesDue(r) PROVE RestGood' /\ SessionsGood'
    BY <1>11 DEF LeaseExpires, BecomesDue, bounds, IInv, RestGood, SessionsGood
  <1>12. ASSUME NEW r \in Runs, Stall(r) PROVE RestGood' /\ SessionsGood'
    <2>1. upsets' \in 0..MaxUpsets
      BY <1>2, <1>12 DEF Stall
    <2> QED
      BY <1>12, <2>1 DEF Stall, IInv, RestGood, SessionsGood
  <1>13. ASSUME NEW s \in Sessions, SessionChanges(s) PROVE RestGood' /\ SessionsGood'
    <2>1. PICK row \in SessionRow : session' = [session EXCEPT ![s] = row]
      <3>1. session[s] \in SessionRow
        BY DEF IInv, SessionsGood
      <3>2. [session[s] EXCEPT !.auto = ~session[s].auto] \in SessionRow
        BY <3>1 DEF SessionRow
      <3>3. \A st \in {"live", "failed", "cancelled"} : [session[s] EXCEPT !.state = st] \in SessionRow
        BY <3>1 DEF SessionRow
      <3> QED
        BY <1>13, <3>2, <3>3 DEF SessionChanges
    <2> QED
      BY <1>13, <2>1 DEF SessionChanges, bounds, IInv, RestGood, SessionsGood
  <1>14. ASSUME NEW m \in Members, MemberReads(m) \/ MemberApproves(m) \/ MemberRejects(m) PROVE Quiet
    BY <1>14 DEF MemberReads, MemberApproves, MemberRejects, rows, bounds
  <1>15. CASE UNCHANGED vars
    BY <1>1, <1>15 DEF vars
  <1> HIDE DEF Quiet
  <1> QED
    BY <1>1, <1>3, <1>4, <1>5, <1>6, <1>7, <1>8, <1>9, <1>10, <1>11, <1>12, <1>13, <1>14, <1>15 DEF Next

LEMMA Step == IInv /\ [Next]_vars => IInv'
  BY RunsNext, JobsNext, SlotsNext, CoordsNext, MembersNext, RestNext
  DEF IInv, RunsStep, JobsStep, SlotsStep

LEMMA Inductive == Spec => []IInv
  BY Initial, Step, PTL DEF Spec

-----------------------------------------------------------------------------
(* Types, and with them that a draft is executed at most max_attempts      *)
(* times, however its leases are lost (cloud-runner's claim, used by       *)
(* agent-jobs.ts).                                                         *)
THEOREM TypeCorrect == Spec => []TypeOK
  <1>1. IInv => TypeOK
    BY DEF IInv, RunsGood, JobsGood, SessionsGood, SlotsGood, MembersGood, RestGood, CoordsGood,
           TypeOK, RunRow, JobRow, SessionRow, SlotRow, MemberRow, CoordRow
  <1> QED
    BY Inductive, <1>1, PTL

(* rbac-v2.md:89: what the coordinator approves after a cancellation has   *)
(* no effect, although it read the draft before (agent.ts:1061).           *)
THEOREM CancelSafe == Spec => NoAutoAfterCancel
  <1> DEFINE Automatic == \A r \in Runs :
        Len(run'[r].applied) > Len(run[r].applied) =>
            run'[r].applied[Len(run'[r].applied)].via = "manual" \/ ~Cancelled(r)
  <1>1. IInv /\ [Next]_vars => [Automatic]_vars
    BY RunsNext DEF RunsStep, RunPromise, NoAuto, LastVia
  <1>2. Spec => [][Automatic]_vars
    BY <1>1, Inductive, PTL DEF Spec
  <1> QED
    BY <1>2 DEF NoAutoAfterCancel

(* agent-jobs.ts:112, queue-recovery.ts: once its job has ended and nobody *)
(* executes it, a decided draft is not undone by anything.                 *)
THEOREM DecisionSafe == Spec => DecisionStands
  <1> DEFINE Stood == \A r \in Runs : Settled(r) /\ run[r].purpose # "article" =>
                        run'[r] = run[r] /\ Settled(r)'
  <1>1. IInv /\ [Next]_vars => [Stood]_vars
    <2> SUFFICES ASSUME IInv, [Next]_vars, NEW r \in Runs, Settled(r), run[r].purpose # "article"
                 PROVE  run'[r] = run[r] /\ Settled(r)'
      OBVIOUS
    <2>1. run'[r] = run[r]
      BY RunsNext DEF RunsStep, RunPromise, Stands, IsArticle
    <2>2. ~JobOpen(r)'
      BY JobsNext DEF JobsStep, Settled
    <2>3. \A w \in Workers : slot'[w].run # r
      BY SlotsNext, Constants DEF SlotsStep, Settled
    <2> QED
      BY <2>1, <2>2, <2>3 DEF Settled
  <1>2. Spec => [][Stood]_vars
    BY <1>1, Inductive, PTL DEF Spec
  <1> QED
    BY <1>2 DEF DecisionStands
-----------------------------------------------------------------------------
(* One approval takes effect.  As long as nothing failed, the only slot on *)
(* a run holds its lease, and until it has stored a draft there is nothing *)
(* to approve: a run that is still to be executed was never approved.      *)
At(w, r) == slot[w].pc # "idle" /\ slot[w].run = r

OneHolder ==
    /\ \A w \in Workers, r \in Runs : At(w, r) =>
          job[r].status = "leased" /\ job[r].owner = OwnerOf(w) /\ job[r].live
    /\ \A v, w \in Workers, r \in Runs : At(v, r) /\ At(w, r) => v = w
    /\ \A r \in Runs : job[r].status = "leased" => \E w \in Workers : At(w, r)

Before == {"starting", "launching", "working", "submitting", "recording", "returning"}
Early(r) == \/ job[r].status = "pending"
            \/ \E w \in Workers : slot[w].run = r /\ slot[w].pc \in Before
Fresh == \A r \in Runs : ~IsArticle(r) =>
            ApprovedOnce(r) /\ (Early(r) => run[r].status \in {"queued", "running", "failed"})

CalmInv == Calm => OneHolder /\ Fresh

CalmNext == \/ \E w \in Workers : SlotStep(w) \/ Renew(w)
            \/ \E m \in Members : MemberReads(m) \/ MemberApproves(m) \/ MemberRejects(m)
            \/ \E p \in Procs : CoordStep(p) \/ SweepStep(p) \/ SweepFault(p) \/ Start(p)
            \/ \E r \in Runs : LeaseExpires(r) \/ BecomesDue(r)
            \/ \E s \in Sessions : SessionChanges(s)

LEMMA CalmBefore ==
    ASSUME IInv, [Next]_vars, Calm' PROVE Calm /\ (CalmNext \/ UNCHANGED vars)
  <1>1. upsets \in Nat
    BY Constants DEF IInv, RestGood
  <1>2. CASE CalmNext
    <2>1. UNCHANGED upsets
      BY <1>2 DEF CalmNext, SlotStep, Claim, Begin, Launch, Work, Submit, Charge, Complete, Record,
                  GiveBack, Renew, MemberReads, MemberApproves, MemberRejects,
                  CoordStep, ListWorkbench, ListArticles, CoordDone, AutoReads, AutoApproves,
                  AutoRejects, ArticleFails, SweepStep, SweepJobs, SweepRun, SweepFault, Start,
                  LeaseExpires, BecomesDue, SessionChanges, bounds
    <2> QED
      BY <1>2, <2>1 DEF Calm
  <1>3. CASE UNCHANGED vars
    BY <1>3 DEF vars, Calm
  <1>4. CASE \/ \E w \in Workers : Fault(w)
             \/ \E p \in Procs : CoordFault(p) \/ Crash(p)
             \/ \E r \in Runs : Stall(r)
    BY <1>1, <1>4 DEF Fault, CoordFault, Crash, Stall, Calm
  <1> QED
    BY <1>2, <1>3, <1>4 DEF Next, CalmNext

LEMMA InitCalm == Init => CalmInv
  <1> SUFFICES ASSUME Init PROVE OneHolder /\ Fresh
    BY DEF CalmInv
  <1>1. OneHolder
    BY DEF Init, OneHolder, At, IdleSlot
  <1>2. Fresh
    <2>1. \A r \in Runs : run[r].status = "queued" /\ run[r].applied = <<>>
      BY DEF Init
    <2>2. Len(<<>>) = 0
      BY EmptySeq
    <2> QED
      BY <2>1, <2>2 DEF Fresh, ApprovedOnce
  <1> QED
    BY <1>1, <1>2

(* A slot that goes on with its run, and one that leaves it.               *)
LEMMA HolderGoesOn ==
    ASSUME OneHolder, NEW w \in Workers, slot \in [Workers -> SlotRow],
           slot[w].pc # "idle", slot'[w].pc # "idle", slot'[w].run = slot[w].run,
           \A v \in Workers \ {w} : slot'[v] = slot[v], UNCHANGED job
    PROVE  OneHolder'
  <1>1. \A v \in Workers, r \in Runs : At(v, r)' <=> At(v, r)
    BY DEF At
  <1> QED
    BY <1>1 DEF OneHolder

LEMMA HolderLeaves ==
    ASSUME IInv, OneHolder, NEW w \in Workers, slot[w].pc # "idle", SlotTo(w, IdleSlot),
           NEW row \in JobRow, row.status # "leased", job' = [job EXCEPT ![slot[w].run] = row]
    PROVE  OneHolder'
  <1> DEFINE x == slot[w].run
  <1>1. x \in Runs /\ job'[x] = row /\ \A r \in Runs \ {x} : job'[r] = job[r]
    BY DEF IInv, SlotsGood, JobsGood
  <1>2. slot'[w].pc = "idle" /\ \A v \in Workers \ {w} : slot'[v] = slot[v]
    BY IdleRows DEF SlotTo, IInv, SlotsGood
  <1>3. \A v \in Workers, r \in Runs : At(v, r)' <=> At(v, r) /\ v # w
    BY <1>2 DEF At
  <1>4. At(w, x)
    BY DEF At
  <1>5. \A v \in Workers \ {w} : ~At(v, x)
    BY <1>1, <1>4 DEF OneHolder
  <1>6. \A r \in Runs \ {x} : ~At(w, r)
    BY DEF At
  <1> QED
    BY <1>1, <1>3, <1>5, <1>6 DEF OneHolder

LEMMA HolderClaims == ASSUME IInv, OneHolder, NEW w \in Workers, Claim(w) PROVE OneHolder'
  <1>1. PICK x \in Runs :
          /\ Claimable(x)
          /\ job' = [job EXCEPT ![x] = [job[x] EXCEPT !.status = "leased", !.owner = OwnerOf(w),
                                       !.live = TRUE, !.attempts = job[x].attempts + 1]]
          /\ SlotTo(w, [pc |-> "starting", run |-> x, attempt |-> job[x].attempts + 1, denied |-> FALSE])
    BY DEF Claim
  <1>2. job[x].status = "pending"
    BY <1>1 DEF Claimable, Expired, OneHolder
  <1>3. \A v \in Workers : ~At(v, x)
    BY <1>2 DEF OneHolder
  <1>4. /\ job'[x].status = "leased" /\ job'[x].owner = OwnerOf(w) /\ job'[x].live
        /\ \A r \in Runs \ {x} : job'[r] = job[r]
    BY <1>1 DEF IInv, JobsGood, JobRow
  <1>5. /\ slot'[w].pc = "starting" /\ slot'[w].run = x /\ slot[w].pc = "idle"
        /\ \A v \in Workers \ {w} : slot'[v] = slot[v]
    BY <1>1 DEF Claim, SlotTo, IInv, SlotsGood
  <1>6. \A v \in Workers, r \in Runs : At(v, r)' <=> At(v, r) \/ (v = w /\ r = x)
    BY <1>3, <1>5 DEF At
  <1> QED
    BY <1>3, <1>4, <1>6 DEF OneHolder

LEMMA HolderReturns ==
    ASSUME IInv, OneHolder, NEW w \in Workers, Complete(w) \/ GiveBack(w)
    PROVE  /\ OneHolder'
           /\ job[slot[w].run].owner = OwnerOf(w)
  <1> USE Constants
  <1> DEFINE x == slot[w].run
  <1>1. x \in Runs /\ At(w, x) /\ job[x] \in JobRow
    BY DEF Complete, GiveBack, At, IInv, SlotsGood, JobsGood
  <1>2. job[x].owner = OwnerOf(w)
    BY <1>1 DEF OneHolder
  <1>3. CASE Complete(w)
    <2> DEFINE row == [job[x] EXCEPT !.status = "complete", !.owner = None, !.live = FALSE]
    <2>1. row \in JobRow /\ row.status # "leased"
      BY <1>1 DEF JobRow
    <2>2. job' = [job EXCEPT ![x] = row] /\ SlotTo(w, IdleSlot) /\ slot[w].pc # "idle"
      BY <1>2, <1>3 DEF Complete
    <2> HIDE DEF row
    <2> QED
      BY <1>2, <2>1, <2>2, HolderLeaves
  <1>4. CASE GiveBack(w)
    <2>1. PICK st \in {"pending", "failed"} : job' = [job EXCEPT ![x] =
            [job[x] EXCEPT !.status = st, !.owner = None, !.live = FALSE, !.due = FALSE]]
      BY <1>2, <1>4 DEF GiveBack
    <2> DEFINE row == [job[x] EXCEPT !.status = st, !.owner = None, !.live = FALSE, !.due = FALSE]
    <2>2. row \in JobRow /\ row.status # "leased"
      BY <1>1 DEF JobRow
    <2>3. SlotTo(w, IdleSlot) /\ slot[w].pc # "idle"
      BY <1>4 DEF GiveBack
    <2> HIDE DEF row
    <2> QED
      BY <1>2, <2>1, <2>2, <2>3, HolderLeaves DEF row
  <1> QED
    BY <1>3, <1>4

LEMMA HolderNext == ASSUME IInv, OneHolder, CalmNext \/ UNCHANGED vars PROVE OneHolder'
  <1>1. CASE UNCHANGED <<job, slot>>
    BY <1>1 DEF OneHolder, At
  <1>2. ASSUME NEW w \in Workers, SlotStep(w) PROVE OneHolder'
    <2>1. slot \in [Workers -> SlotRow]
      BY DEF IInv, SlotsGood
    <2>2. CASE Begin(w) \/ Launch(w) \/ Work(w) \/ Submit(w) \/ Charge(w) \/ Record(w)
      <3>1. /\ slot[w].pc # "idle" /\ UNCHANGED job
            /\ \A v \in Workers \ {w} : slot'[v] = slot[v]
        BY <2>1, <2>2 DEF Begin, Launch, Work, Submit, Charge, Record, SlotAt, SlotTo, rows
      <3>2. slot'[w].pc # "idle" /\ slot'[w].run = slot[w].run
        BY <2>1, <2>2, ZenonT(40) DEF Begin, Launch, Work, Submit, Charge, Record, SlotAt, SlotTo, SlotRow
      <3> QED
        BY <2>1, <3>1, <3>2, HolderGoesOn
    <2> QED
      BY <1>2, <2>2, HolderClaims, HolderReturns DEF SlotStep
  <1>3. ASSUME NEW w \in Workers, Renew(w) PROVE OneHolder'
    <2>1. /\ slot[w].run \in Runs /\ UNCHANGED slot
          /\ job' = [job EXCEPT ![slot[w].run] = [job[slot[w].run] EXCEPT !.live = TRUE]]
      BY <1>3 DEF Renew, IInv, SlotsGood
    <2>2. \A r \in Runs : /\ job'[r].status = job[r].status /\ job'[r].owner = job[r].owner
                          /\ job[r].live => job'[r].live
      BY <2>1 DEF IInv, JobsGood, JobRow
    <2>3. \A v \in Workers, r \in Runs : At(v, r)' <=> At(v, r)
      BY <2>1 DEF At
    <2> QED
      BY <2>2, <2>3 DEF OneHolder
  <1>4. ASSUME NEW p \in Procs, SweepStep(p) PROVE OneHolder'
    <2>1. Exhausted = {}
      BY DEF Exhausted, Expired, OneHolder
    <2> QED
      BY <1>1, <1>4, <2>1 DEF SweepStep, SweepJobs, SweepRun
  <1>5. ASSUME NEW x \in Runs, LeaseExpires(x) PROVE OneHolder'
    <2>1. job[x].status # "leased"
      BY <1>5 DEF LeaseExpires, Held, OneHolder, At
    <2>2. \A r \in Runs : /\ job'[r].status = job[r].status /\ job'[r].owner = job[r].owner
                          /\ job[r].status = "leased" => job'[r] = job[r]
      BY <1>5, <2>1 DEF LeaseExpires, IInv, JobsGood, JobRow
    <2>3. \A v \in Workers, r \in Runs : At(v, r)' <=> At(v, r)
      BY <1>5 DEF LeaseExpires, At
    <2> QED
      BY <2>2, <2>3 DEF OneHolder
  <1>6. ASSUME NEW x \in Runs, BecomesDue(x) PROVE OneHolder'
    <2>1. \A r \in Runs : /\ job'[r].status = job[r].status /\ job'[r].owner = job[r].owner
                          /\ job'[r].live = job[r].live
      BY <1>6 DEF BecomesDue, IInv, JobsGood, JobRow
    <2>2. \A v \in Workers, r \in Runs : At(v, r)' <=> At(v, r)
      BY <1>6 DEF BecomesDue, At
    <2> QED
      BY <2>1, <2>2 DEF OneHolder
  <1>7. CASE \E m \in Members : MemberReads(m) \/ MemberApproves(m) \/ MemberRejects(m)
    BY <1>1, <1>7 DEF MemberReads, MemberApproves, MemberRejects, rows
  <1>8. CASE \E p \in Procs : CoordStep(p) \/ SweepFault(p) \/ Start(p)
    BY <1>1, <1>8 DEF CoordStep, ListWorkbench, ListArticles, CoordDone, AutoReads,
                      AutoApproves, AutoRejects, ArticleFails, SweepFault, Start, rows
  <1>9. CASE \E s \in Sessions : SessionChanges(s)
    BY <1>1, <1>9 DEF SessionChanges
  <1>10. CASE UNCHANGED vars
    BY <1>1, <1>10 DEF vars
  <1> QED
    BY <1>2, <1>3, <1>4, <1>5, <1>6, <1>7, <1>8, <1>9, <1>10 DEF CalmNext

(* What a step may do to a run without making a second approval possible.  *)
Untouched(r) == run'[r] = run[r] /\ (Early(r)' => Early(r))
Rewritten(r) == /\ run'[r].applied = run[r].applied
                /\ run[r].status # "approved" /\ run'[r].status # "approved"
                /\ Early(r)' => run'[r].status \in {"queued", "running", "failed"}
ApprovedNow(r) == /\ run[r].status = "awaiting_approval" /\ run'[r].status = "approved"
                  /\ Len(run'[r].applied) = Len(run[r].applied) + 1
                  /\ Early(r)' => Early(r)
Careful == \A r \in Runs : ~IsArticle(r) => Untouched(r) \/ Rewritten(r) \/ ApprovedNow(r)

LEMMA FreshStep == ASSUME IInv, RunsStep, Fresh, Careful PROVE Fresh'
  <1> SUFFICES ASSUME NEW r \in Runs, ~IsArticle(r)
               PROVE  /\ ApprovedOnce(r)'
                      /\ Early(r)' => run'[r].status \in {"queued", "running", "failed"}
    BY DEF Fresh, IsArticle, RunsStep, RunPromise
  <1>1. ApprovedOnce(r) /\ (Early(r) => run[r].status \in {"queued", "running", "failed"})
    BY DEF Fresh
  <1>2. Len(run[r].applied) \in Nat
    BY LenProperties DEF IInv, RunsGood, RunRow
  <1>3. CASE Untouched(r)
    BY <1>1, <1>3 DEF Untouched, ApprovedOnce
  <1>4. CASE Rewritten(r)
    BY <1>1, <1>2, <1>4 DEF Rewritten, ApprovedOnce
  <1>5. CASE ApprovedNow(r)
    <2>1. Len(run[r].applied) = 0
      <3>1. run[r].status # "approved"
        BY <1>5 DEF ApprovedNow
      <3>2. Len(run[r].applied) <= 1 /\ Len(run[r].applied) # 1
        BY <1>1, <3>1 DEF ApprovedOnce
      <3>3. \A n \in Nat : n <= 1 /\ n # 1 => n = 0
        OBVIOUS
      <3> QED
        BY <1>2, <3>2, <3>3
    <2>2. run'[r].status = "approved" /\ Len(run'[r].applied) = 1
      BY <1>5, <2>1 DEF ApprovedNow
    <2>3. ~Early(r)'
      BY <1>1, <1>5 DEF ApprovedNow
    <2> QED
      BY <2>2, <2>3 DEF ApprovedOnce
  <1> QED
    BY <1>3, <1>4, <1>5 DEF Careful

(* Steps that leave jobs and slots alone.                                  *)
LEMMA CarefulElsewhere ==
    ASSUME IInv, Fresh, UNCHANGED <<job, slot>>, NEW x \in Runs, NEW row,
           run' = [run EXCEPT ![x] = row],
           \/ /\ row = [run[x] EXCEPT !.status = "failed"]
              /\ run[x].status \in Undecided \/ IsArticle(x)
           \/ row = [run[x] EXCEPT !.status = "rejected"] /\ run[x].status = "awaiting_approval"
           \/ /\ run[x].status = "awaiting_approval" /\ row.status = "approved"
              /\ Len(row.applied) = Len(run[x].applied) + 1
    PROVE  Careful
  <1>1. run \in [Runs -> RunRow] /\ run[x] \in RunRow
    BY DEF IInv, RunsGood
  <1>2. \A r \in Runs : Early(r)' <=> Early(r)
    BY DEF Early
  <1>3. run'[x] = row /\ \A r \in Runs \ {x} : run'[r] = run[r]
    BY <1>1
  <1>4. ~IsArticle(x) => Rewritten(x) \/ ApprovedNow(x)
    <2>1. CASE row = [run[x] EXCEPT !.status = "failed"]
      <3>1. row.status = "failed" /\ row.applied = run[x].applied
        BY <1>1, <2>1 DEF RunRow
      <3>2. run[x].status \in Undecided \/ IsArticle(x) \/ run[x].status = "awaiting_approval"
        OBVIOUS
      <3> QED
        BY <1>3, <3>1, <3>2 DEF Rewritten, Undecided
    <2>2. CASE row = [run[x] EXCEPT !.status = "rejected"] /\ run[x].status = "awaiting_approval"
      <3>1. row.status = "rejected" /\ row.applied = run[x].applied
        BY <1>1, <2>2 DEF RunRow
      <3> QED
        BY <1>2, <1>3, <2>2, <3>1 DEF Rewritten, Fresh
    <2>3. CASE /\ run[x].status = "awaiting_approval" /\ row.status = "approved"
               /\ Len(row.applied) = Len(run[x].applied) + 1
      BY <1>2, <1>3, <2>3 DEF ApprovedNow
    <2> QED
      BY <2>1, <2>2, <2>3
  <1> QED
    BY <1>2, <1>3, <1>4 DEF Careful, Untouched

LEMMA CarefulSame ==
    ASSUME UNCHANGED run, \A r \in Runs : Early(r)' => Early(r) PROVE Careful
  BY DEF Careful, Untouched

LEMMA ApprovedLonger ==
    ASSUME IInv, NEW x \in Runs, NEW d, NEW via, Approve(x, d, via),
           [draft |-> d, via |-> via] \in Approval
    PROVE  \E row : /\ run' = [run EXCEPT ![x] = row]
                    /\ run[x].status = "awaiting_approval" /\ row.status = "approved"
                    /\ Len(row.applied) = Len(run[x].applied) + 1
  <1> DEFINE a == [draft |-> d, via |-> via]
             row == [run[x] EXCEPT !.status = "approved", !.applied = Append(run[x].applied, a)]
  <1>1. run[x] \in RunRow /\ run[x].applied \in Seq(Approval)
    BY DEF IInv, RunsGood, RunRow
  <1>2. Len(Append(run[x].applied, a)) = Len(run[x].applied) + 1
    BY <1>1, AppendProperties
  <1>3. row.status = "approved" /\ row.applied = Append(run[x].applied, a)
    BY <1>1 DEF RunRow
  <1>4. run' = [run EXCEPT ![x] = row] /\ run[x].status = "awaiting_approval"
    BY DEF Approve
  <1> HIDE DEF row
  <1> QED
    BY <1>2, <1>3, <1>4

(* The steps of slots.                                                     *)
LEMMA CarefulSlot ==
    ASSUME IInv, OneHolder, Fresh, NEW w \in Workers, SlotStep(w) PROVE Careful
  <1> USE Constants
  <1> DEFINE x == slot[w].run
  <1>1. slot \in [Workers -> SlotRow] /\ slot[w] \in SlotRow /\ job \in [Runs -> JobRow]
        /\ run \in [Runs -> RunRow]
    BY DEF IInv, SlotsGood, JobsGood, RunsGood
  <1>2. slot[w].pc # "idle" => x \in Runs /\ At(w, x)
    BY DEF IInv, SlotsGood, At
  <1>3. slot[w].pc \in Before /\ ~IsArticle(x) => run[x].status \in {"queued", "running", "failed"}
    BY <1>2 DEF Before, Early, Fresh
  <1>4. CASE Claim(w)
    <2>1. PICK y \in Runs :
          /\ Claimable(y)
          /\ job' = [job EXCEPT ![y] = [job[y] EXCEPT !.status = "leased", !.owner = OwnerOf(w),
                                       !.live = TRUE, !.attempts = job[y].attempts + 1]]
          /\ SlotTo(w, [pc |-> "starting", run |-> y, attempt |-> job[y].attempts + 1, denied |-> FALSE])
          /\ UNCHANGED run
      BY <1>4 DEF Claim
    <2>2. job[y].status = "pending"
      BY <2>1 DEF Claimable, Expired, OneHolder
    <2>3. \A r \in Runs \ {y} : job'[r] = job[r]
      BY <1>1, <2>1
    <2>4. slot'[w].run = y /\ \A v \in Workers \ {w} : slot'[v] = slot[v]
      BY <1>1, <2>1 DEF SlotTo
    <2>5. \A r \in Runs : Early(r)' => Early(r)
      BY <2>2, <2>3, <2>4 DEF Early
    <2> QED
      BY <2>1, <2>5, CarefulSame
  <1>5. CASE Begin(w) \/ Work(w) \/ Charge(w)
    <2>1. /\ slot'[w].run = x /\ (slot'[w].pc \in Before => slot[w].pc \in Before)
          /\ \A v \in Workers \ {w} : slot'[v] = slot[v]
      <3>1. \A pc, denied :
              /\ [slot[w] EXCEPT !.pc = pc].run = x /\ [slot[w] EXCEPT !.pc = pc].pc = pc
              /\ [slot[w] EXCEPT !.pc = pc, !.denied = denied].run = x
              /\ [slot[w] EXCEPT !.pc = pc, !.denied = denied].pc = pc
        BY <1>1 DEF SlotRow
      <3>2. PICK row : /\ slot' = [slot EXCEPT ![w] = row]
                       /\ row.run = x /\ (row.pc \in Before => slot[w].pc \in Before)
        <4> DEFINE Row(pc) == [slot[w] EXCEPT !.pc = pc]
                   Rows(pc, denied) == [slot[w] EXCEPT !.pc = pc, !.denied = denied]
        <4>1. CASE Begin(w)
          <5>1. \/ slot' = [slot EXCEPT ![w] = Row("launching")]
                \/ \E denied \in BOOLEAN : slot' = [slot EXCEPT ![w] = Rows("returning", denied)]
            BY <4>1 DEF Begin, SlotAt, SlotTo
          <5>2. slot[w].pc \in Before
            BY <4>1 DEF Begin, Before
          <5>3. \A pc, denied : Row(pc).run = x /\ Rows(pc, denied).run = x
            BY <3>1
          <5> HIDE DEF Row, Rows
          <5> QED
            BY <5>1, <5>2, <5>3
        <4>2. CASE Work(w)
          <5>1. \/ slot' = [slot EXCEPT ![w] = Row("submitting")]
                \/ \E denied \in BOOLEAN : slot' = [slot EXCEPT ![w] = Rows("recording", denied)]
            BY <4>2 DEF Work, SlotAt, SlotTo
          <5>2. slot[w].pc \in Before
            BY <4>2 DEF Work, Before
          <5>3. \A pc, denied : Row(pc).run = x /\ Rows(pc, denied).run = x
            BY <3>1
          <5> HIDE DEF Row, Rows
          <5> QED
            BY <5>1, <5>2, <5>3
        <4>3. CASE Charge(w)
          <5>1. slot' = [slot EXCEPT ![w] = Row("completing")]
            BY <4>3 DEF Charge, SlotAt, SlotTo
          <5>2. Row("completing").run = x /\ Row("completing").pc \notin Before
            BY <3>1 DEF Before
          <5> HIDE DEF Row
          <5> QED
            BY <5>1, <5>2
        <4> QED
          BY <1>5, <4>1, <4>2, <4>3
      <3> QED
        BY <1>1, <3>2
    <2>2. UNCHANGED <<run, job>>
      BY <1>5 DEF Begin, Work, Charge, rows
    <2>3. \A r \in Runs : Early(r)' => Early(r)
      BY <2>1, <2>2 DEF Early
    <2> QED
      BY <2>2, <2>3, CarefulSame
  <1>6. CASE Launch(w) \/ Submit(w) \/ Record(w)
    <2>1. x \in Runs /\ At(w, x) /\ UNCHANGED job
      BY <1>2, <1>6 DEF Launch, Submit, Record
    <2>2. slot[w].pc \in Before
      BY <1>6 DEF Launch, Submit, Record, Before
    <2>3. /\ slot'[w].run = x /\ \A v \in Workers \ {w} : slot'[v] = slot[v]
          /\ Submit(w) => slot'[w].pc = "charging"
      BY <1>1, <1>6 DEF Launch, Submit, Record, SlotAt, SlotTo, SlotRow
    <2>4. \A r \in Runs : Early(r)' => Early(r)
      BY <2>1, <2>2, <2>3 DEF Early
    <2>5. /\ \A r \in Runs \ {x} : run'[r] = run[r]
          /\ run'[x].applied = run[x].applied
          /\ run'[x].status = IF Launch(w) THEN "running" ELSE IF Submit(w) THEN "awaiting_approval" ELSE "failed"
      <3>1. run[x] \in RunRow
        BY <1>1, <2>1
      <3>2. CASE Launch(w)
        <4> DEFINE row == [run[x] EXCEPT !.status = "running", !.draft = NoDraft]
        <4>1. row.status = "running" /\ row.applied = run[x].applied
          BY <3>1 DEF RunRow
        <4>2. run' = [run EXCEPT ![x] = row]
          BY <3>2 DEF Launch
        <4> HIDE DEF row
        <4> QED
          BY <1>1, <2>1, <3>2, <4>1, <4>2
      <3>3. CASE Submit(w) /\ ~Launch(w)
        <4> DEFINE row == [run[x] EXCEPT !.status = "awaiting_approval", !.draft = slot[w].attempt]
        <4>1. row.status = "awaiting_approval" /\ row.applied = run[x].applied
          BY <3>1 DEF RunRow
        <4>2. run' = [run EXCEPT ![x] = row]
          BY <3>3 DEF Submit
        <4> HIDE DEF row
        <4> QED
          BY <1>1, <2>1, <3>3, <4>1, <4>2
      <3>4. CASE Record(w) /\ ~Launch(w) /\ ~Submit(w)
        <4> DEFINE row == [run[x] EXCEPT !.status = "failed"]
        <4>1. row.status = "failed" /\ row.applied = run[x].applied
          BY <3>1 DEF RunRow
        <4>2. run' = [run EXCEPT ![x] = row]
          BY <3>4 DEF Record, WriteRun
        <4> HIDE DEF row
        <4> QED
          BY <1>1, <2>1, <3>4, <4>1, <4>2
      <3> QED
        BY <1>6, <3>2, <3>3, <3>4
    <2>6. Submit(w) => ~Early(x)'
      <3> SUFFICES ASSUME Submit(w) PROVE ~Early(x)'
        OBVIOUS
      <3>1. job[x].status = "leased"
        BY <2>1 DEF OneHolder
      <3>2. \A v \in Workers \ {w} : slot[v].pc \in Before => slot[v].run # x
        BY <2>1 DEF OneHolder, At, Before
      <3> QED
        BY <2>1, <2>3, <3>1, <3>2 DEF Early, Before
    <2>7. ~IsArticle(x) => Rewritten(x)
      BY <1>3, <2>2, <2>5, <2>6 DEF Rewritten
    <2> QED
      BY <2>4, <2>5, <2>7 DEF Careful, Untouched
  <1>7. CASE Complete(w) \/ GiveBack(w)
    <2>1. x \in Runs /\ At(w, x) /\ job[x].owner = OwnerOf(w)
      BY <1>2, <1>7, HolderReturns DEF Complete, GiveBack
    <2>2. slot'[w].run = None /\ \A v \in Workers \ {w} : slot'[v] = slot[v]
      BY <1>1, <1>7 DEF Complete, GiveBack, SlotTo, IdleSlot
    <2>3. x \in Runs /\ job[x] \in JobRow /\ run[x] \in RunRow
      BY <1>1, <2>1
    <2>4. ASSUME NEW row, job' = [job EXCEPT ![x] = row]
          PROVE  /\ job'[x] = row
                 /\ \A r \in Runs \ {x} : Early(r)' => Early(r)
      BY <1>1, <2>2, <2>3, <2>4 DEF Early
    <2>5. CASE Complete(w)
      <3> DEFINE row == [job[x] EXCEPT !.status = "complete", !.owner = None, !.live = FALSE]
      <3>1. job' = [job EXCEPT ![x] = row] /\ UNCHANGED run
        BY <2>1, <2>5 DEF Complete
      <3>2. row.status = "complete"
        BY <2>3 DEF JobRow
      <3> HIDE DEF row
      <3>3. job'[x].status = "complete" /\ \A r \in Runs \ {x} : Early(r)' => Early(r)
        BY <2>4, <3>1, <3>2
      <3>4. \A r \in Runs : r = x /\ Early(r)' => Early(r)
        BY <2>2, <3>3 DEF Early
      <3> QED
        BY <3>1, <3>3, <3>4, CarefulSame
    <2>6. CASE GiveBack(w)
      <3>1. \E row : job' = [job EXCEPT ![x] = row]
        BY <2>1, <2>6 DEF GiveBack
      <3>2. \A r \in Runs \ {x} : Early(r)' => Early(r)
        BY <2>4, <3>1
      <3>3. PICK st \in {"queued", "failed"} : WriteRun(x, st)
        BY <2>1, <2>6 DEF GiveBack
      <3> DEFINE written == [run[x] EXCEPT !.status = st]
      <3>4. written.status = st /\ written.applied = run[x].applied
        BY <2>3 DEF RunRow
      <3>5. run' = [run EXCEPT ![x] = written]
        BY <3>3 DEF WriteRun
      <3> HIDE DEF written
      <3>6. /\ \A r \in Runs \ {x} : run'[r] = run[r]
            /\ run'[x].applied = run[x].applied /\ run'[x].status \in {"queued", "failed"}
        BY <1>1, <2>3, <3>4, <3>5
      <3>7. slot[w].pc \in Before
        BY <2>6 DEF GiveBack, Before
      <3>8. ~IsArticle(x) => Rewritten(x)
        BY <1>3, <3>6, <3>7 DEF Rewritten
      <3> QED
        BY <3>2, <3>6, <3>8 DEF Careful, Untouched
    <2> QED
      BY <1>7, <2>5, <2>6
  <1> QED
    BY <1>4, <1>5, <1>6, <1>7 DEF SlotStep

LEMMA CarefulNext ==
    ASSUME IInv, OneHolder, Fresh, CalmNext \/ UNCHANGED vars PROVE Careful
  <1> USE Constants
  <1>1. CASE UNCHANGED <<run, job, slot>>
    BY <1>1, CarefulSame DEF Early
  <1>2. ASSUME NEW w \in Workers, Renew(w) PROVE Careful
    <2>1. /\ slot[w].run \in Runs /\ UNCHANGED <<run, slot>>
          /\ job' = [job EXCEPT ![slot[w].run] = [job[slot[w].run] EXCEPT !.live = TRUE]]
      BY <1>2 DEF Renew, IInv, SlotsGood
    <2>2. \A r \in Runs : job'[r].status = job[r].status
      BY <2>1 DEF IInv, JobsGood, JobRow
    <2> QED
      BY <2>1, <2>2, CarefulSame DEF Early
  <1>3. ASSUME NEW y \in Runs, LeaseExpires(y) \/ BecomesDue(y) PROVE Careful
    <2>1. \A r \in Runs : job'[r].status = job[r].status
      BY <1>3 DEF LeaseExpires, BecomesDue, IInv, JobsGood, JobRow
    <2>2. UNCHANGED <<run, slot>>
      BY <1>3 DEF LeaseExpires, BecomesDue
    <2> QED
      BY <2>1, <2>2, CarefulSame DEF Early
  <1>4. ASSUME NEW m \in Members, MemberReads(m) \/ MemberApproves(m) \/ MemberRejects(m)
        PROVE  Careful
    <2>1. UNCHANGED <<job, slot>>
      BY <1>4 DEF MemberReads, MemberApproves, MemberRejects, rows
    <2>2. CASE MemberApproves(m)
      <3>1. member[m].run \in Runs /\ member[m].draft \in 0..MaxAttempts
        BY <2>2 DEF MemberApproves, IInv, MembersGood, MemberRow
      <3>2. [draft |-> member[m].draft, via |-> "manual"] \in Approval
        BY <3>1 DEF Approval
      <3>3. CASE Approve(member[m].run, member[m].draft, "manual")
        BY <2>1, <3>1, <3>2, <3>3, ApprovedLonger, CarefulElsewhere
      <3> QED
        BY <1>1, <2>1, <2>2, <3>3 DEF MemberApproves
    <2>3. CASE MemberRejects(m)
      BY <2>1, <2>3, CarefulElsewhere DEF MemberRejects, Reject, WriteRun
    <2> QED
      BY <1>1, <1>4, <2>1, <2>2, <2>3 DEF MemberReads, rows
  <1>5. ASSUME NEW p \in Procs, CoordStep(p) PROVE Careful
    <2> DEFINE x == coord[p].run
    <2>1. CoordGood(coord[p]) /\ coord[p] \in CoordRow
      BY DEF IInv, CoordsGood
    <2>2. UNCHANGED <<job, slot>>
      BY <1>5 DEF CoordStep, ListWorkbench, ListArticles, CoordDone, AutoReads,
                  AutoApproves, AutoRejects, ArticleFails, rows
    <2>3. CASE AutoApproves(p)
      <3>1. x \in Runs /\ coord[p].draft \in 0..MaxAttempts
        BY <2>1, <2>3 DEF AutoApproves, CoordGood, CoordRow
      <3>2. \/ UNCHANGED run
            \/ \E via \in {"workbench", "auto_article"} : Approve(x, coord[p].draft, via)
        BY <2>3 DEF AutoApproves
      <3>3. ASSUME NEW via \in {"workbench", "auto_article"}, Approve(x, coord[p].draft, via)
            PROVE  Careful
        <4>1. [draft |-> coord[p].draft, via |-> via] \in Approval
          BY <3>1 DEF Approval
        <4> QED
          BY <2>2, <3>1, <3>3, <4>1, ApprovedLonger, CarefulElsewhere
      <3> QED
        BY <1>1, <2>2, <3>2, <3>3
    <2>4. CASE AutoRejects(p)
      <3>1. x \in Runs
        BY <2>1, <2>4 DEF AutoRejects, CoordGood
      <3>2. CASE Reject(x)
        BY <2>2, <3>1, <3>2, CarefulElsewhere DEF Reject, WriteRun
      <3> QED
        BY <1>1, <2>2, <2>4, <3>2 DEF AutoRejects
    <2>5. CASE ArticleFails(p)
      BY <2>1, <2>2, <2>5, CarefulElsewhere DEF ArticleFails, CoordGood, WriteRun
    <2>6. CASE ListWorkbench(p) \/ ListArticles(p) \/ CoordDone(p) \/ AutoReads(p)
      BY <1>1, <2>2, <2>6 DEF ListWorkbench, ListArticles, CoordDone, AutoReads, rows
    <2> QED
      BY <1>5, <2>3, <2>4, <2>5, <2>6 DEF CoordStep
  <1>6. ASSUME NEW p \in Procs, SweepStep(p) PROVE Careful
    <2>1. Exhausted = {}
      BY DEF Exhausted, Expired, OneHolder
    <2>2. SweepRun(p)
      BY <1>6, <2>1 DEF SweepStep, SweepJobs
    <2>3. PICK y \in sweep[p] :
            IF run[y].status \in Unfinished THEN WriteRun(y, "failed") ELSE UNCHANGED run
      BY <2>2 DEF SweepRun
    <2>4. y \in Runs /\ UNCHANGED <<job, slot>>
      BY <2>2 DEF IInv, RestGood, SweepRun
    <2> QED
      BY <1>1, <2>3, <2>4, CarefulElsewhere DEF WriteRun, Unfinished, Undecided
  <1>7. ASSUME NEW p \in Procs, Start(p) PROVE Careful
    <2>1. UNCHANGED <<job, slot>>
      BY <1>7 DEF Start
    <2>2. \A r \in Runs : \/ run'[r] = run[r]
                          \/ /\ run[r].status = "running"
                             /\ run'[r] = [run[r] EXCEPT !.status = "failed"]
      BY <1>7 DEF Start
    <2>3. \A r \in Runs : run[r] \in RunRow
      BY DEF IInv, RunsGood
    <2>4. ASSUME NEW r \in Runs PROVE Untouched(r) \/ Rewritten(r)
      <3>1. CASE run'[r] = run[r]
        BY <2>1, <3>1 DEF Untouched, Early
      <3>2. CASE run[r].status = "running" /\ run'[r] = [run[r] EXCEPT !.status = "failed"]
        BY <2>3, <3>2 DEF Rewritten, RunRow
      <3> QED
        BY <2>2, <3>1, <3>2
    <2> QED
      BY <2>4 DEF Careful
  <1>8. CASE \E p \in Procs : SweepFault(p)
    BY <1>1, <1>8 DEF SweepFault, rows
  <1>9. CASE \E s \in Sessions : SessionChanges(s)
    BY <1>1, <1>9 DEF SessionChanges
  <1>10. CASE UNCHANGED vars
    BY <1>1, <1>10 DEF vars
  <1> QED
    BY <1>2, <1>3, <1>4, <1>5, <1>6, <1>7, <1>8, <1>9, <1>10, CarefulSlot DEF CalmNext

(* operations.md:78: of a member and two coordinators who approve the same *)
(* draft, unless it is an article, one has an effect, and a draft that had *)
(* it is approved, as long as nothing died, stalled or was lost.           *)
THEOREM OneApprovalSafe == Spec => []OneApprovalUnlessArticle
  <1>1. CalmInv /\ IInv /\ [Next]_vars => CalmInv'
    <2> SUFFICES ASSUME CalmInv, IInv, [Next]_vars, Calm' PROVE (OneHolder /\ Fresh)'
      BY DEF CalmInv
    <2>1. Calm /\ (CalmNext \/ UNCHANGED vars)
      BY CalmBefore
    <2> QED
      BY <2>1, HolderNext, CarefulNext, RunsNext, FreshStep DEF CalmInv
  <1>2. CalmInv => OneApprovalUnlessArticle
    BY DEF CalmInv, Fresh, OneApprovalUnlessArticle, IsArticle
  <1> QED
    BY <1>1, <1>2, InitCalm, Inductive, PTL DEF Spec
-----------------------------------------------------------------------------
(* A run that is not finished is moved by somebody.  A lease is a ticket:  *)
(* the slots on a run hold different attempts, and a slot that lost its    *)
(* lease is on a run that is known to be old.                              *)
Resting == \A w \in Workers : slot[w].pc = "idle" => slot[w].run = None
Tickets(r) ==
    /\ \A w \in Workers : At(w, r) => slot[w].attempt \in 1..job[r].attempts
    /\ \A v, w \in Workers : At(v, r) /\ At(w, r) /\ v # w => slot[v].attempt # slot[w].attempt
    /\ \A w \in Workers : At(w, r) => \/ r \in aged
                                      \/ /\ job[r].status = "leased" /\ job[r].owner = OwnerOf(w)
                                         /\ slot[w].attempt = job[r].attempts
    /\ Expired(r) => r \in aged
    /\ job[r].status = "pending" => job[r].attempts < MaxAttempts \/ r \in cut
TicketsInv == Resting /\ \A r \in Runs : Tickets(r)

(* A slot that is on a run after the step was so before.                   *)
Stays(v, r) == At(v, r)' => At(v, r) /\ slot'[v].attempt = slot[v].attempt
SlotMoves(w) == Begin(w) \/ Launch(w) \/ Work(w) \/ Submit(w) \/ Charge(w) \/ Complete(w)
                \/ Record(w) \/ GiveBack(w) \/ Fault(w)

LEMMA SlotFacts == ASSUME IInv, NEW w \in Workers
                   PROVE  slot[w] \in SlotRow /\ slot[w].pc \in SlotPc /\ slot[w].attempt \in Nat
                          /\ (slot[w].pc # "idle" => slot[w].run \in Runs)
                          /\ OwnerOf(w) \in Procs /\ OwnerOf(w) # None
  BY Constants DEF IInv, SlotsGood, SlotRow, OwnerOf, Workers

LEMMA JobFacts == ASSUME IInv, NEW r \in Runs
                  PROVE  /\ job[r] \in JobRow /\ job[r].attempts \in Nat /\ job[r].attempts <= MaxAttempts
                         /\ (job[r].owner # None => job[r].status = "leased")
  BY Constants DEF IInv, JobsGood, JobsOwned, JobRow

LEMMA IdleRun == IdleSlot.run = None /\ IdleSlot.pc = "idle"
  BY DEF IdleSlot

(* The slot keeps its run and its attempt, or lets go of them.             *)
LEMMA SlotMoved ==
    ASSUME IInv, NEW w \in Workers, SlotMoves(w)
    PROVE  /\ slot[w].pc # "idle"
           /\ \A v \in Workers \ {w} : slot'[v] = slot[v]
           /\ \/ slot'[w] = IdleSlot
              \/ /\ slot'[w].pc # "idle" /\ slot'[w].run = slot[w].run
                 /\ slot'[w].attempt = slot[w].attempt
  <1>1. slot \in [Workers -> SlotRow]
    BY DEF IInv, SlotsGood
  <1>2. ASSUME NEW s, SlotTo(w, s) PROVE slot'[w] = s /\ \A v \in Workers \ {w} : slot'[v] = slot[v]
    BY <1>1, <1>2 DEF SlotTo
  <1>3. ASSUME NEW pc \in SlotPc \ {"idle"}, SlotAt(w, pc)
        PROVE  /\ slot'[w].pc = pc /\ slot'[w].run = slot[w].run /\ slot'[w].attempt = slot[w].attempt
               /\ \A v \in Workers \ {w} : slot'[v] = slot[v]
    <2>1. slot'[w] = [slot[w] EXCEPT !.pc = pc] /\ \A v \in Workers \ {w} : slot'[v] = slot[v]
      BY <1>2, <1>3 DEF SlotAt
    <2> QED
      BY <1>1, <2>1 DEF SlotRow
  <1>4. ASSUME NEW pc \in SlotPc \ {"idle"}, NEW d \in BOOLEAN,
               SlotTo(w, [slot[w] EXCEPT !.pc = pc, !.denied = d])
        PROVE  /\ slot'[w].pc = pc /\ slot'[w].run = slot[w].run /\ slot'[w].attempt = slot[w].attempt
               /\ \A v \in Workers \ {w} : slot'[v] = slot[v]
    <2>1. /\ slot'[w] = [slot[w] EXCEPT !.pc = pc, !.denied = d]
          /\ \A v \in Workers \ {w} : slot'[v] = slot[v]
      BY <1>2, <1>4
    <2> QED
      BY <1>1, <2>1 DEF SlotRow
  <1>5. CASE Begin(w) \/ Work(w)
    <2>1. /\ slot[w].pc # "idle"
          /\ \/ \E pc \in {"launching", "submitting"} : SlotAt(w, pc)
             \/ \E pc \in {"returning", "recording"}, d \in BOOLEAN :
                    SlotTo(w, [slot[w] EXCEPT !.pc = pc, !.denied = d])
      BY <1>5 DEF Begin, Work
    <2>2. {"launching", "submitting", "returning", "recording"} \subseteq SlotPc \ {"idle"}
      BY DEF SlotPc
    <2> QED
      BY <1>3, <1>4, <2>1, <2>2
  <1>6. CASE Launch(w) \/ Submit(w) \/ Charge(w) \/ Record(w)
    BY <1>3, <1>6 DEF Launch, Submit, Charge, Record, SlotPc
  <1>7. CASE Complete(w) \/ GiveBack(w)
    BY <1>2, <1>7 DEF Complete, GiveBack
  <1>8. CASE Fault(w)
    BY <1>2, <1>3, <1>8 DEF Fault, SlotPc
  <1> QED
    BY <1>5, <1>6, <1>7, <1>8 DEF SlotMoves

LEMMA SlotStays ==
    ASSUME IInv, NEW w \in Workers, SlotMoves(w)
    PROVE  /\ Resting => Resting'
           /\ \A v \in Workers, r \in Runs : Stays(v, r)
  BY SlotMoved, IdleRun DEF Resting, Stays, At

LEMMA CrashStays ==
    ASSUME IInv, NEW p \in Procs, Crash(p)
    PROVE  /\ Resting => Resting'
           /\ \A v \in Workers, r \in Runs : Stays(v, r)
           /\ \A v \in Workers : slot'[v] = slot[v] \/ (slot'[v] = IdleSlot /\ OwnerOf(v) = p)
  <1>1. \A v \in Workers : slot'[v] = slot[v] \/ (slot'[v] = IdleSlot /\ OwnerOf(v) = p)
    BY DEF Crash
  <1> QED
    BY <1>1, IdleRun DEF Resting, Stays, At

LEMMA SameStays == ASSUME UNCHANGED slot
                   PROVE  /\ Resting => Resting'
                          /\ \A v \in Workers, r \in Runs : Stays(v, r)
  BY DEF Resting, Stays, At

(* Tickets survive as long as the job only loses its liveness.             *)
LEMMA TicketsKept ==
    ASSUME NEW r \in Runs, Tickets(r), \A v \in Workers : Stays(v, r),
           job'[r].status = job[r].status, job'[r].owner = job[r].owner,
           job'[r].attempts = job[r].attempts, Expired(r)' => Expired(r) \/ r \in aged',
           aged \subseteq aged', cut \subseteq cut'
    PROVE  Tickets(r)'
  BY DEF Tickets, Stays

LEMMA TicketsClaim ==
    ASSUME IInv, TicketsInv, NEW w \in Workers, Claim(w) PROVE TicketsInv'
  <1>1. PICK x \in Runs :
          /\ Claimable(x)
          /\ job' = [job EXCEPT ![x] = [job[x] EXCEPT !.status = "leased", !.owner = OwnerOf(w),
                                       !.live = TRUE, !.attempts = job[x].attempts + 1]]
          /\ SlotTo(w, [pc |-> "starting", run |-> x, attempt |-> job[x].attempts + 1, denied |-> FALSE])
    BY DEF Claim
  <1>2. /\ job'[x].status = "leased" /\ job'[x].owner = OwnerOf(w) /\ job'[x].live
        /\ job'[x].attempts = job[x].attempts + 1
        /\ \A r \in Runs \ {x} : job'[r] = job[r]
    BY <1>1 DEF IInv, JobsGood, JobRow
  <1>3. /\ slot'[w].pc = "starting" /\ slot'[w].run = x /\ slot[w].pc = "idle"
        /\ slot'[w].attempt = job[x].attempts + 1
        /\ \A v \in Workers \ {w} : slot'[v] = slot[v]
    BY <1>1 DEF Claim, SlotTo, IInv, SlotsGood
  <1>4. aged' = aged /\ cut' = cut
    BY DEF Claim, bounds
  <1>5. Resting'
    BY <1>3 DEF TicketsInv, Resting
  <1>6. ASSUME NEW r \in Runs \ {x} PROVE Tickets(r)'
    <2>1. \A v \in Workers : Stays(v, r)
      BY <1>3 DEF Stays, At
    <2> QED
      BY <1>2, <1>4, <2>1, TicketsKept DEF TicketsInv, Expired
  <1>7. Tickets(x)'
    <2>1. \A v \in Workers : At(v, x)' => v = w \/ (At(v, x) /\ slot'[v] = slot[v])
      BY <1>3 DEF At
    <2>2. \A v \in Workers : At(v, x) => slot[v].attempt \in 1..job[x].attempts /\ x \in aged
      BY <1>1 DEF Claimable, TicketsInv, Tickets
    <2>3. job[x].attempts \in Nat
      BY JobFacts
    <2>4. \A v \in Workers : At(v, x)' => slot'[v].attempt \in 1..job'[x].attempts
      BY <1>2, <1>3, <2>1, <2>2, <2>3
    <2>5. \A u, v \in Workers : At(u, x)' /\ At(v, x)' /\ u # v => slot'[u].attempt # slot'[v].attempt
      <3> SUFFICES ASSUME NEW u \in Workers, NEW v \in Workers, At(u, x)', At(v, x)', u # v
                   PROVE  slot'[u].attempt # slot'[v].attempt
        OBVIOUS
      <3>1. CASE u # w /\ v # w
        BY <2>1, <3>1 DEF TicketsInv, Tickets
      <3>2. CASE u = w \/ v = w
        BY <1>3, <2>1, <2>2, <2>3, <3>2
      <3> QED
        BY <3>1, <3>2
    <2> QED
      BY <1>2, <1>3, <1>4, <2>1, <2>2, <2>4, <2>5 DEF Tickets, Expired
  <1> QED
    BY <1>5, <1>6, <1>7 DEF TicketsInv

(* The job ends, or is returned: whoever else is on the run lost its lease.*)
LEMMA TicketsReturned ==
    ASSUME IInv, TicketsInv, NEW w \in Workers, Complete(w) \/ GiveBack(w) PROVE TicketsInv'
  <1>0. PICK x \in Runs : x = slot[w].run
    BY SlotFacts DEF Complete, GiveBack
  <1>1. SlotMoves(w) /\ slot'[w] = IdleSlot /\ At(w, x)
    BY <1>0 DEF SlotMoves, Complete, GiveBack, SlotTo, At, IInv, SlotsGood
  <1>2. Resting' /\ \A v \in Workers, r \in Runs : Stays(v, r)
    BY <1>1, SlotStays DEF TicketsInv
  <1>3. aged' = aged /\ cut \subseteq cut'
    BY DEF Complete, GiveBack
  <1>4. /\ \A r \in Runs \ {x} : job'[r] = job[r]
        /\ \/ job'[x] = job[x]
           \/ /\ job[x].owner = OwnerOf(w) /\ job'[x].attempts = job[x].attempts
              /\ job'[x].status # "leased"
              /\ job'[x].status = "pending" => job[x].attempts < MaxAttempts \/ x \in cut'
    <2>1. job \in [Runs -> JobRow] /\ job[x] \in JobRow /\ job[x].attempts \in Nat
      BY JobFacts DEF IInv, JobsGood
    <2>2. CASE UNCHANGED job
      BY <2>2
    <2>3. CASE Complete(w) /\ job[x].owner = OwnerOf(w)
      <3> DEFINE row == [job[x] EXCEPT !.status = "complete", !.owner = None, !.live = FALSE]
      <3>1. row.attempts = job[x].attempts /\ row.status = "complete"
        BY <2>1 DEF JobRow
      <3>2. job' = [job EXCEPT ![x] = row]
        BY <1>0, <2>3 DEF Complete
      <3> HIDE DEF row
      <3>3. job'[x] = row /\ \A r \in Runs \ {x} : job'[r] = job[r]
        BY <2>1, <3>2
      <3> QED
        BY <2>3, <3>1, <3>3
    <2>4. CASE GiveBack(w) /\ job[x].owner = OwnerOf(w)
      <3> DEFINE row == [job[x] EXCEPT !.status = IF Retrying(w) THEN "pending" ELSE "failed",
                                       !.owner = None, !.live = FALSE, !.due = FALSE]
      <3>1. row.attempts = job[x].attempts /\ row.status = IF Retrying(w) THEN "pending" ELSE "failed"
        BY <2>1 DEF JobRow
      <3>2. job' = [job EXCEPT ![x] = row]
        BY <1>0, <2>4 DEF GiveBack
      <3> HIDE DEF row
      <3>3. job'[x] = row /\ \A r \in Runs \ {x} : job'[r] = job[r]
        BY <2>1, <3>2
      <3>4. Retrying(w) => job[x].attempts < MaxAttempts \/ x \in cut'
        BY <1>0, <2>1, <2>4, Constants DEF GiveBack
      <3> QED
        BY <2>4, <3>1, <3>3, <3>4
    <2> QED
      BY <1>0, <2>2, <2>3, <2>4 DEF Complete, GiveBack
  <1>5. ASSUME NEW r \in Runs, job'[r] = job[r] PROVE Tickets(r)'
    BY <1>2, <1>3, <1>5, TicketsKept DEF TicketsInv, Expired
  <1>6. CASE job'[x] # job[x]
    <2>1. \A v \in Workers : At(v, x)' => v # w
      BY <1>1, IdleRun DEF At
    <2>2. \A v \in Workers : At(v, x)' => x \in aged
      <3> SUFFICES ASSUME NEW v \in Workers, At(v, x)', x \notin aged PROVE FALSE
        OBVIOUS
      <3>1. At(v, x) /\ v # w
        BY <1>2, <2>1 DEF Stays
      <3>2. slot[v].attempt = slot[w].attempt
        BY <1>1, <3>1 DEF TicketsInv, Tickets
      <3> QED
        BY <1>1, <3>1, <3>2 DEF TicketsInv, Tickets
    <2>3. Tickets(x)'
      BY <1>2, <1>3, <1>4, <1>6, <2>2 DEF TicketsInv, Tickets, Stays, Expired
    <2> QED
      BY <1>2, <1>4, <1>5, <2>3 DEF TicketsInv
  <1> QED
    BY <1>2, <1>4, <1>5, <1>6 DEF TicketsInv

LEMMA TicketsSwept ==
    ASSUME IInv, TicketsInv, NEW p \in Procs, SweepJobs(p) PROVE TicketsInv'
  <1>1. Resting' /\ (\A v \in Workers, r \in Runs : Stays(v, r)) /\ aged' = aged /\ cut' = cut
    BY SameStays DEF TicketsInv, SweepJobs, bounds
  <1>2. ASSUME NEW r \in Runs PROVE Tickets(r)'
    <2>1. CASE r \notin Exhausted
      <3>1. job'[r] = job[r]
        BY <2>1 DEF SweepJobs
      <3> QED
        BY <1>1, <3>1, TicketsKept DEF TicketsInv, Expired
    <2>2. CASE r \in Exhausted
      <3>1. job'[r].status = "failed" /\ job'[r].attempts = job[r].attempts
        BY <2>2 DEF SweepJobs, IInv, JobsGood, JobRow
      <3>2. r \in aged
        BY <2>2 DEF Exhausted, TicketsInv, Tickets
      <3> QED
        BY <1>1, <3>1, <3>2 DEF TicketsInv, Tickets, Stays, Expired
    <2> QED
      BY <2>1, <2>2
  <1> QED
    BY <1>1, <1>2 DEF TicketsInv

LEMMA TicketsTime ==
    ASSUME IInv, TicketsInv, NEW x \in Runs,
           LeaseExpires(x) \/ Stall(x) \/ BecomesDue(x)
    PROVE  TicketsInv'
  <1>1. Resting' /\ (\A v \in Workers, r \in Runs : Stays(v, r))
    BY SameStays DEF TicketsInv, LeaseExpires, Stall, BecomesDue
  <1>2. /\ aged \subseteq aged' /\ cut' = cut
        /\ \A r \in Runs \ {x} : job'[r] = job[r]
        /\ job'[x].status = job[x].status /\ job'[x].owner = job[x].owner
        /\ job'[x].attempts = job[x].attempts
        /\ job'[x].live = job[x].live \/ x \in aged'
    BY DEF LeaseExpires, Stall, BecomesDue, bounds, IInv, JobsGood, JobRow
  <1>3. ASSUME NEW r \in Runs PROVE Tickets(r)'
    BY <1>1, <1>2, TicketsKept DEF TicketsInv, Expired
  <1> QED
    BY <1>1, <1>3 DEF TicketsInv

LEMMA TicketsRenewed == ASSUME IInv, TicketsInv, NEW w \in Workers, Renew(w) PROVE TicketsInv'
  <1>0. PICK x \in Runs : x = slot[w].run
    BY SlotFacts DEF Renew
  <1>1. Resting' /\ (\A v \in Workers, r \in Runs : Stays(v, r)) /\ aged' = aged /\ cut' = cut
    BY SameStays DEF TicketsInv, Renew, bounds
  <1>2. /\ \A r \in Runs \ {x} : job'[r] = job[r]
        /\ job'[x].status = job[x].status /\ job'[x].owner = job[x].owner
        /\ job'[x].attempts = job[x].attempts /\ job'[x].live
    BY <1>0 DEF Renew, IInv, JobsGood, JobRow
  <1>3. ASSUME NEW r \in Runs PROVE Tickets(r)'
    BY <1>1, <1>2, TicketsKept DEF TicketsInv, Expired
  <1> QED
    BY <1>1, <1>3 DEF TicketsInv

LEMMA TicketsSame ==
    ASSUME TicketsInv, UNCHANGED <<job, aged>>, cut \subseteq cut', Resting',
           \A v \in Workers, r \in Runs : Stays(v, r)
    PROVE  TicketsInv'
  <1>1. ASSUME NEW r \in Runs PROVE Tickets(r)'
    BY TicketsKept DEF TicketsInv, Expired
  <1> QED
    BY <1>1 DEF TicketsInv

LEMMA TicketsNext == ASSUME IInv, TicketsInv, [Next]_vars PROVE TicketsInv'
  <1>1. ASSUME UNCHANGED <<job, aged, slot>>, cut \subseteq cut' PROVE TicketsInv'
    BY <1>1, SameStays, TicketsSame DEF TicketsInv
  <1>2. ASSUME NEW w \in Workers, SlotStep(w) \/ Renew(w) \/ Fault(w) PROVE TicketsInv'
    <2>1. CASE Begin(w) \/ Launch(w) \/ Work(w) \/ Submit(w) \/ Charge(w) \/ Record(w) \/ Fault(w)
      <3>1. SlotMoves(w) /\ UNCHANGED <<job, aged>> /\ cut \subseteq cut'
        BY <2>1 DEF SlotMoves, Begin, Launch, Work, Submit, Charge, Record, Fault, rows, bounds
      <3> QED
        BY <3>1, SlotStays, TicketsSame DEF TicketsInv
    <2> QED
      BY <1>2, <2>1, TicketsClaim, TicketsReturned, TicketsRenewed DEF SlotStep
  <1>3. CASE \E m \in Members : MemberReads(m) \/ MemberApproves(m) \/ MemberRejects(m)
    BY <1>1, <1>3 DEF MemberReads, MemberApproves, MemberRejects, rows, bounds
  <1>4. CASE \E p \in Procs : CoordStep(p) \/ CoordFault(p) \/ SweepRun(p) \/ SweepFault(p) \/ Start(p)
    BY <1>1, <1>4 DEF CoordStep, ListWorkbench, ListArticles, CoordDone, AutoReads, AutoApproves,
                      AutoRejects, ArticleFails, CoordFault, SweepRun, SweepFault, Start, rows, bounds
  <1>5. ASSUME NEW p \in Procs, Crash(p) PROVE TicketsInv'
    <2>1. UNCHANGED <<job, aged>> /\ cut \subseteq cut'
      BY <1>5 DEF Crash, rows
    <2> QED
      BY <1>5, <2>1, CrashStays, TicketsSame DEF TicketsInv
  <1>6. CASE \E r \in Runs : LeaseExpires(r) \/ Stall(r) \/ BecomesDue(r)
    BY <1>6, TicketsTime
  <1>7. CASE \E s \in Sessions : SessionChanges(s)
    BY <1>1, <1>7 DEF SessionChanges, bounds
  <1>8. CASE UNCHANGED vars
    BY <1>1, <1>8 DEF vars
  <1> QED
    BY <1>2, <1>3, <1>4, <1>5, <1>6, <1>7, <1>8, TicketsSwept DEF Next, SweepStep

(* What the two attempts give: while a slot of the second is charged or    *)
(* completed, no slot is about to begin, and the run is set back to queued *)
(* under a slot that works only where the loss is named.                   *)
Begun == {"working", "submitting", "charging", "completing", "recording"}
Ending == {"charging", "completing"}
Entering == {"starting", "launching"}
Rivals(r) ==
    /\ \A w \in Workers : At(w, r) /\ slot[w].pc \in Ending /\ run[r].status \in Unfinished =>
          /\ job[r].attempts >= 2
          /\ \A v \in Workers : At(v, r) => slot[v].pc \notin Entering
    /\ \A w \in Workers : At(w, r) /\ slot[w].pc \in Begun => run[r].status # "queued" \/ r \in cut
RivalsInv == \A r \in Runs : Rivals(r)

(* No slot comes closer to the end of an unfinished run, none enters.      *)
LEMMA RivalsKept ==
    ASSUME IInv, NEW r \in Runs, Rivals(r), \A v \in Workers : Stays(v, r),
           \A v \in Workers : At(v, r)' => /\ slot'[v].pc \in Ending => slot[v].pc \in Ending
                                           /\ slot'[v].pc \in Entering => slot[v].pc \in Entering
                                           /\ slot'[v].pc \in Begun => slot[v].pc \in Begun,
           run'[r].status = run[r].status \/ run'[r].status \notin Unfinished,
           job'[r].attempts = job[r].attempts, cut \subseteq cut'
    PROVE  Rivals(r)'
  BY JobFacts DEF Rivals, Stays, Unfinished

(* Two slots on a run hold its two attempts: there is no third.            *)
LEMMA OnlyTwo ==
    ASSUME IInv, TicketsInv, MaxAttempts <= 2, NEW r \in Runs, NEW v \in Workers, NEW w \in Workers,
           At(v, r), At(w, r), v # w
    PROVE  job[r].attempts = 2 /\ MaxAttempts = 2 /\ \A u \in Workers : At(u, r) => u = v \/ u = w
  <1>1. job[r].attempts \in Nat /\ job[r].attempts <= MaxAttempts /\ MaxAttempts \in Nat
    BY JobFacts, Constants
  <1>2. \A u \in Workers : At(u, r) => slot[u].attempt \in 1..job[r].attempts
    BY DEF TicketsInv, Tickets
  <1>3. slot[v].attempt # slot[w].attempt
    BY DEF TicketsInv, Tickets
  <1>4. job[r].attempts = 2 /\ MaxAttempts = 2
    BY <1>1, <1>2, <1>3
  <1>5. ASSUME NEW u \in Workers, At(u, r), u # v, u # w PROVE FALSE
    <2>1. slot[u].attempt # slot[v].attempt /\ slot[u].attempt # slot[w].attempt
      BY <1>5 DEF TicketsInv, Tickets
    <2> QED
      BY <1>2, <1>3, <1>4, <1>5, <2>1
  <1> QED
    BY <1>4, <1>5

(* Where the slots go.                                                     *)
LEMMA SlotGoes ==
    ASSUME IInv, NEW w \in Workers
    PROVE  /\ Launch(w) => slot'[w].pc = "working"
           /\ Submit(w) => slot'[w].pc = "charging"
           /\ Complete(w) \/ GiveBack(w) => slot'[w].pc = "idle"
           /\ Begin(w) => slot'[w].pc \in {"launching", "returning"}
           /\ Work(w) => slot'[w].pc \in {"submitting", "recording"}
           /\ Charge(w) => slot'[w].pc = "completing"
           /\ Record(w) => slot'[w].pc = "returning"
           /\ Fault(w) => \/ slot[w].pc \in {"submitting", "charging"} /\ slot'[w].pc = "recording"
                          \/ slot'[w].pc \in {"returning", "idle"}
  <1>1. slot \in [Workers -> SlotRow]
    BY DEF IInv, SlotsGood
  <1>2. \A s : SlotTo(w, s) => slot'[w] = s
    BY <1>1 DEF SlotTo
  <1>3. \A pc \in SlotPc : SlotAt(w, pc) => slot'[w].pc = pc
    BY <1>1, <1>2 DEF SlotAt, SlotRow
  <1>4. \A pc \in SlotPc, d \in BOOLEAN :
          SlotTo(w, [slot[w] EXCEPT !.pc = pc, !.denied = d]) => slot'[w].pc = pc
    BY <1>1, <1>2 DEF SlotRow
  <1>5. Begin(w) => slot'[w].pc \in {"launching", "returning"}
    BY <1>3, <1>4 DEF Begin, SlotPc
  <1>6. Work(w) => slot'[w].pc \in {"submitting", "recording"}
    BY <1>3, <1>4 DEF Work, SlotPc
  <1>7. Complete(w) \/ GiveBack(w) => slot'[w].pc = "idle"
    BY <1>2, IdleRun DEF Complete, GiveBack
  <1>8. Fault(w) => \/ slot[w].pc \in {"submitting", "charging"} /\ slot'[w].pc = "recording"
                    \/ slot'[w].pc \in {"returning", "idle"}
    BY <1>2, <1>3, IdleRun DEF Fault, SlotPc
  <1> QED
    BY <1>3, <1>5, <1>6, <1>7, <1>8 DEF Launch, Submit, Charge, Record, SlotPc

Quiet(w) == Begin(w) \/ Work(w) \/ Charge(w) \/ Record(w) \/ Complete(w) \/ Fault(w)

LEMMA QuietSlot ==
    ASSUME IInv, NEW w \in Workers, Quiet(w)
    PROVE  /\ slot'[w].pc \in Ending => slot[w].pc \in Ending
           /\ slot'[w].pc \in Entering => slot[w].pc \in Entering
           /\ slot'[w].pc \in Begun => slot[w].pc \in Begun
  BY SlotGoes DEF Quiet, Begin, Work, Charge, Record, Ending, Entering, Begun

(* A run that a step leaves alone, and the one it is about.                *)
LEMMA WriteOne ==
    ASSUME IInv, NEW x \in Runs, NEW st \in {"queued", "running", "awaiting_approval", "failed"},
           NEW d \in 0..MaxAttempts,
           \/ run' = [run EXCEPT ![x] = [run[x] EXCEPT !.status = st]]
           \/ run' = [run EXCEPT ![x] = [run[x] EXCEPT !.status = st, !.draft = d]]
    PROVE  run'[x].status = st /\ \A r \in Runs \ {x} : run'[r] = run[r]
  <1>1. run \in [Runs -> RunRow] /\ run[x] \in RunRow
    BY DEF IInv, RunsGood
  <1>2. /\ [run[x] EXCEPT !.status = st].status = st
        /\ [run[x] EXCEPT !.status = st, !.draft = d].status = st
    BY <1>1 DEF RunRow
  <1> QED
    BY <1>1, <1>2

Elsewhere(x) == \A r \in Runs \ {x} : run'[r] = run[r] /\ job'[r] = job[r]

LEMMA LaunchWrites ==
    ASSUME IInv, NEW w \in Workers, Launch(w), NEW x \in Runs, x = slot[w].run
    PROVE  Elsewhere(x) /\ run'[x].status = "running" /\ UNCHANGED <<job, sweep, aged, cut, up>>
  <1>1. run'[x].status = "running" /\ \A r \in Runs \ {x} : run'[r] = run[r]
    BY WriteOne, Constants DEF Launch, NoDraft
  <1> QED
    BY <1>1 DEF Launch, bounds, Elsewhere

LEMMA SubmitWrites ==
    ASSUME IInv, NEW w \in Workers, Submit(w), NEW x \in Runs, x = slot[w].run
    PROVE  Elsewhere(x) /\ run'[x].status = "awaiting_approval" /\ UNCHANGED <<job, sweep, aged, cut, up>>
  <1>1. slot[w].attempt \in 0..MaxAttempts
    BY DEF IInv, SlotsGood, SlotRow
  <1>2. run'[x].status = "awaiting_approval" /\ \A r \in Runs \ {x} : run'[r] = run[r]
    BY <1>1, WriteOne DEF Submit
  <1> QED
    BY <1>2 DEF Submit, bounds, Elsewhere

LEMMA RecordWrites ==
    ASSUME IInv, NEW w \in Workers, Record(w), NEW x \in Runs, x = slot[w].run
    PROVE  Elsewhere(x) /\ run'[x].status = "failed" /\ UNCHANGED <<job, sweep, aged, cut, up>>
  <1>1. run'[x].status = "failed" /\ \A r \in Runs \ {x} : run'[r] = run[r]
    BY WriteOne, Constants DEF Record, WriteRun
  <1> QED
    BY <1>1 DEF Record, bounds, Elsewhere

LEMMA CompleteWrites ==
    ASSUME IInv, NEW w \in Workers, Complete(w), NEW x \in Runs, x = slot[w].run
    PROVE  /\ Elsewhere(x) /\ run' = run /\ job'[x].attempts = job[x].attempts
           /\ cut \subseteq cut' /\ UNCHANGED <<sweep, aged, up>>
  <1>1. job \in [Runs -> JobRow] /\ job[x] \in JobRow
    BY DEF IInv, JobsGood
  <1> DEFINE row == [job[x] EXCEPT !.status = "complete", !.owner = None, !.live = FALSE]
  <1>2. row.attempts = job[x].attempts
    BY <1>1 DEF JobRow
  <1>3. job' = job \/ job' = [job EXCEPT ![x] = row]
    BY DEF Complete
  <1>4. run' = run /\ cut \subseteq cut' /\ UNCHANGED <<sweep, aged, up>>
    BY DEF Complete
  <1> HIDE DEF row
  <1> QED
    BY <1>1, <1>2, <1>3, <1>4 DEF Elsewhere

LEMMA GiveBackWrites ==
    ASSUME IInv, NEW w \in Workers, GiveBack(w), NEW x \in Runs, x = slot[w].run
    PROVE  /\ Elsewhere(x) /\ job'[x].attempts = job[x].attempts
           /\ \/ job[x].owner # OwnerOf(w) /\ run' = run /\ job' = job
              \/ /\ job[x].owner = OwnerOf(w) /\ Retrying(w)
                 /\ run'[x].status = "queued" /\ job'[x].status = "pending"
                 /\ job[x].attempts >= MaxAttempts => x \in cut'
              \/ job[x].owner = OwnerOf(w) /\ ~Retrying(w) /\ run'[x].status = "failed"
           /\ cut \subseteq cut' /\ UNCHANGED <<sweep, aged, up>>
  <1>1. job \in [Runs -> JobRow] /\ job[x] \in JobRow
    BY DEF IInv, JobsGood
  <1>2. cut \subseteq cut' /\ UNCHANGED <<sweep, aged, up>>
    BY DEF GiveBack
  <1>3. CASE job[x].owner # OwnerOf(w)
    BY <1>2, <1>3 DEF GiveBack, Elsewhere
  <1>4. CASE job[x].owner = OwnerOf(w)
    <2> DEFINE st == IF Retrying(w) THEN "pending" ELSE "failed"
               row == [job[x] EXCEPT !.status = st, !.owner = None, !.live = FALSE, !.due = FALSE]
    <2>1. row.attempts = job[x].attempts /\ row.status = st
      BY <1>1 DEF JobRow
    <2>2. job' = [job EXCEPT ![x] = row]
      BY <1>4 DEF GiveBack
    <2> HIDE DEF row
    <2>3. job'[x] = row /\ \A r \in Runs \ {x} : job'[r] = job[r]
      BY <1>1, <2>2
    <2>4. WriteRun(x, IF Retrying(w) THEN "queued" ELSE "failed")
      BY <1>4 DEF GiveBack
    <2>5. PICK written \in {"queued", "failed"} :
            written = (IF Retrying(w) THEN "queued" ELSE "failed") /\ WriteRun(x, written)
      BY <2>4
    <2>6. run'[x].status = written /\ \A r \in Runs \ {x} : run'[r] = run[r]
      BY <2>5, WriteOne, Constants DEF WriteRun
    <2>7. Retrying(w) /\ job[x].attempts >= MaxAttempts => x \in cut'
      BY <1>4 DEF GiveBack
    <2>8. CASE Retrying(w)
      BY <1>2, <1>4, <2>1, <2>3, <2>5, <2>6, <2>7, <2>8 DEF Elsewhere
    <2>9. CASE ~Retrying(w)
      BY <1>2, <1>4, <2>1, <2>3, <2>5, <2>6, <2>9 DEF Elsewhere
    <2> QED
      BY <2>8, <2>9
  <1> QED
    BY <1>3, <1>4

LEMMA QuietWrites ==
    ASSUME IInv, NEW w \in Workers, Quiet(w), NEW x \in Runs, x = slot[w].run
    PROVE  /\ Elsewhere(x) /\ run'[x].status \in {run[x].status, "failed"}
           /\ job'[x].attempts = job[x].attempts
           /\ cut \subseteq cut' /\ UNCHANGED <<sweep, aged, up>>
  <1>1. CASE Begin(w) \/ Work(w) \/ Charge(w) \/ Fault(w)
    BY <1>1 DEF Begin, Work, Charge, Fault, rows, bounds, Elsewhere
  <1> QED
    BY <1>1, RecordWrites, CompleteWrites DEF Quiet

(* The members, the coordinators and the sweeps do not set a run back.     *)
Finishing == \A r \in Runs : run'[r].status = run[r].status \/ run'[r].status \notin Unfinished

LEMMA Finished ==
    ASSUME IInv, NEW x \in Runs, \/ WriteRun(x, "failed") \/ Reject(x)
                                \/ \E d, via : Approve(x, d, via)
    PROVE  Finishing
  <1>1. run \in [Runs -> RunRow] /\ run[x] \in RunRow
    BY DEF IInv, RunsGood
  <1>2. CASE WriteRun(x, "failed") \/ Reject(x)
    <2>1. PICK st \in {"failed", "rejected"} : run' = [run EXCEPT ![x] = [run[x] EXCEPT !.status = st]]
      BY <1>2 DEF WriteRun, Reject
    <2>2. [run[x] EXCEPT !.status = st].status = st
      BY <1>1 DEF RunRow
    <2> QED
      BY <1>1, <2>1, <2>2 DEF Finishing, Unfinished
  <1>3. ASSUME NEW d, NEW via, Approve(x, d, via) PROVE Finishing
    <2> DEFINE row == [run[x] EXCEPT !.status = "approved",
                            !.applied = Append(run[x].applied, [draft |-> d, via |-> via])]
    <2>1. row.status = "approved"
      BY <1>1 DEF RunRow
    <2>2. run' = [run EXCEPT ![x] = row]
      BY <1>3 DEF Approve
    <2> HIDE DEF row
    <2> QED
      BY <1>1, <2>1, <2>2 DEF Finishing, Unfinished
  <1> QED
    BY <1>2, <1>3

LEMMA Settles ==
    ASSUME IInv, \/ \E m \in Members : MemberReads(m) \/ MemberApproves(m) \/ MemberRejects(m)
                 \/ \E p \in Procs : CoordStep(p) \/ SweepRun(p)
    PROVE  /\ Finishing /\ UNCHANGED <<job, slot, aged, cut, up>>
           /\ \A p \in Procs, r \in Runs :
                r \in sweep[p] => r \in sweep'[p] \/ run'[r].status \notin Unfinished
  <1>0. CASE UNCHANGED <<run, sweep, job, slot, aged, cut, up>>
    BY <1>0 DEF Finishing
  <1>1. ASSUME NEW m \in Members, MemberReads(m) \/ MemberApproves(m) \/ MemberRejects(m)
        PROVE  Finishing /\ UNCHANGED <<sweep, job, slot, aged, cut, up>>
    <2>1. UNCHANGED <<sweep, job, slot, aged, cut, up>>
      BY <1>1 DEF MemberReads, MemberApproves, MemberRejects, rows, bounds
    <2>2. UNCHANGED run \/ \E x \in Runs : Reject(x) \/ \E d, via : Approve(x, d, via)
      BY <1>1 DEF MemberReads, MemberApproves, MemberRejects, rows, IInv, MembersGood, MemberRow
    <2>3. UNCHANGED run => Finishing
      BY DEF Finishing
    <2> QED
      BY <2>1, <2>2, <2>3, Finished
  <1>2. ASSUME NEW p \in Procs, CoordStep(p)
        PROVE  Finishing /\ UNCHANGED <<sweep, job, slot, aged, cut, up>>
    <2>1. UNCHANGED <<sweep, job, slot, aged, cut, up>>
      BY <1>2 DEF CoordStep, ListWorkbench, ListArticles, CoordDone, AutoReads, AutoApproves,
                  AutoRejects, ArticleFails, rows, bounds
    <2>2. \/ UNCHANGED run
          \/ \E x \in Runs : Reject(x) \/ WriteRun(x, "failed") \/ \E d, via : Approve(x, d, via)
      <3>1. coord[p].pc \in {"approving", "rejecting", "publishing", "failing"} => coord[p].run \in Runs
        BY DEF IInv, CoordsGood, CoordGood
      <3>2. CASE ListWorkbench(p) \/ ListArticles(p) \/ CoordDone(p) \/ AutoReads(p)
        BY <3>2 DEF ListWorkbench, ListArticles, CoordDone, AutoReads, rows
      <3>3. CASE AutoApproves(p)
        <4>1. UNCHANGED run \/ \E d, via : Approve(coord[p].run, d, via)
          BY <3>3 DEF AutoApproves
        <4> QED
          BY <3>1, <3>3, <4>1 DEF AutoApproves
      <3>4. CASE AutoRejects(p)
        BY <3>1, <3>4 DEF AutoRejects
      <3>5. CASE ArticleFails(p)
        BY <3>1, <3>5 DEF ArticleFails
      <3> QED
        BY <1>2, <3>2, <3>3, <3>4, <3>5 DEF CoordStep
    <2>3. UNCHANGED run => Finishing
      BY DEF Finishing
    <2> QED
      BY <2>1, <2>2, <2>3, Finished
  <1>3. ASSUME NEW p \in Procs, SweepRun(p)
        PROVE  /\ Finishing /\ UNCHANGED <<job, slot, aged, cut, up>>
               /\ \A q \in Procs, r \in Runs :
                    r \in sweep[q] => r \in sweep'[q] \/ run'[r].status \notin Unfinished
    <2>1. PICK x \in sweep[p] :
            /\ IF run[x].status \in Unfinished THEN WriteRun(x, "failed") ELSE UNCHANGED run
            /\ sweep' = [sweep EXCEPT ![p] = sweep[p] \ {x}]
      BY <1>3 DEF SweepRun
    <2>2. x \in Runs /\ sweep \in [Procs -> SUBSET Runs] /\ run \in [Runs -> RunRow]
      BY DEF IInv, RestGood, RunsGood
    <2>3. run'[x].status \notin Unfinished
      <3>1. WriteRun(x, "failed") => run'[x].status = "failed"
        BY <2>2, WriteOne, Constants DEF WriteRun
      <3> QED
        BY <2>1, <3>1 DEF Unfinished
    <2>4. Finishing
      BY <2>1, <2>2, Finished DEF Finishing
    <2>5. UNCHANGED <<job, slot, aged, cut, up>>
      BY <1>3 DEF SweepRun, bounds
    <2> QED
      BY <2>1, <2>2, <2>3, <2>4, <2>5
  <1> QED
    BY <1>1, <1>2, <1>3

LEMMA RivalsAside ==
    ASSUME IInv, TicketsInv, RivalsInv, NEW w \in Workers, NEW x \in Runs, Elsewhere(x),
           cut \subseteq cut', \A v \in Workers \ {w} : slot'[v] = slot[v],
           \A r \in Runs \ {x} : ~At(w, r)'
    PROVE  \A r \in Runs \ {x} : Rivals(r)'
  <1> SUFFICES ASSUME NEW r \in Runs \ {x} PROVE Rivals(r)'
    OBVIOUS
  <1>1. \A v \in Workers : At(v, r)' => slot'[v] = slot[v] /\ At(v, r)
    BY DEF At
  <1> QED
    BY <1>1, RivalsKept DEF Stays, RivalsInv, Elsewhere

LEMMA RivalsClaim ==
    ASSUME IInv, TicketsInv, RivalsInv, MaxAttempts <= 2, NEW w \in Workers, Claim(w) PROVE RivalsInv'
  <1>1. PICK x \in Runs :
          /\ Claimable(x)
          /\ job' = [job EXCEPT ![x] = [job[x] EXCEPT !.status = "leased", !.owner = OwnerOf(w),
                                       !.live = TRUE, !.attempts = job[x].attempts + 1]]
          /\ SlotTo(w, [pc |-> "starting", run |-> x, attempt |-> job[x].attempts + 1, denied |-> FALSE])
    BY DEF Claim
  <1>2. /\ slot'[w].pc = "starting" /\ slot'[w].run = x
        /\ \A v \in Workers \ {w} : slot'[v] = slot[v]
    BY <1>1 DEF Claim, SlotTo, IInv, SlotsGood
  <1>3. Elsewhere(x) /\ run' = run /\ cut' = cut
    BY <1>1 DEF Claim, Elsewhere, bounds, IInv, JobsGood
  <1>4. \A r \in Runs \ {x} : Rivals(r)'
    BY <1>2, <1>3, RivalsAside DEF At
  <1>5. job[x].attempts < MaxAttempts /\ job[x].attempts \in Nat /\ MaxAttempts \in Nat
    BY <1>1, JobFacts, Constants DEF Claimable
  <1>6. \A v \in Workers : At(v, x)' => v = w \/ (slot'[v] = slot[v] /\ At(v, x))
    BY <1>2 DEF At
  <1>7. ASSUME NEW v \in Workers, At(v, x)', slot'[v].pc \in Ending, run'[x].status \in Unfinished
        PROVE  FALSE
    <2>1. At(v, x) /\ slot[v].pc \in Ending
      BY <1>2, <1>6, <1>7 DEF Ending
    <2>2. job[x].attempts >= 2
      BY <1>3, <1>7, <2>1 DEF RivalsInv, Rivals
    <2> QED
      BY <1>5, <2>2
  <1>8. Rivals(x)'
    BY <1>2, <1>3, <1>6, <1>7 DEF RivalsInv, Rivals, Begun
  <1> QED
    BY <1>4, <1>8 DEF RivalsInv

LEMMA RivalsSlot ==
    ASSUME IInv, TicketsInv, RivalsInv, MaxAttempts <= 2, NEW w \in Workers, SlotMoves(w)
    PROVE  RivalsInv'
  <1>0. PICK x \in Runs : x = slot[w].run
    BY SlotMoved, SlotFacts
  <1>1. /\ At(w, x) /\ \A v \in Workers \ {w} : slot'[v] = slot[v]
        /\ \A v \in Workers : Stays(v, x)
        /\ \A r \in Runs \ {x} : ~At(w, r)'
    BY <1>0, SlotMoved, SlotStays, IdleRun DEF At
  <1>2. Elsewhere(x) /\ job'[x].attempts = job[x].attempts /\ cut \subseteq cut'
    BY <1>0, LaunchWrites, SubmitWrites, QuietWrites, GiveBackWrites DEF SlotMoves, Quiet
  <1>3. \A r \in Runs \ {x} : Rivals(r)'
    BY <1>1, <1>2, RivalsAside
  <1>4. CASE Quiet(w)
    <2>1. run'[x].status = run[x].status \/ run'[x].status \notin Unfinished
      BY <1>0, <1>4, QuietWrites DEF Unfinished
    <2>2. \A v \in Workers : At(v, x)' =>
            /\ slot'[v].pc \in Ending => slot[v].pc \in Ending
            /\ slot'[v].pc \in Entering => slot[v].pc \in Entering
            /\ slot'[v].pc \in Begun => slot[v].pc \in Begun
      BY <1>1, <1>4, QuietSlot
    <2>3. Rivals(x)
      BY DEF RivalsInv
    <2>4. Rivals(x)'
      BY <1>1, <1>2, <2>1, <2>2, <2>3, RivalsKept
    <2> QED
      BY <1>3, <2>4 DEF RivalsInv
  <1>5. CASE Submit(w)
    <2>1. run'[x].status = "awaiting_approval"
      BY <1>0, <1>5, SubmitWrites
    <2>2. Rivals(x)'
      BY <2>1 DEF Rivals, Unfinished
    <2> QED
      BY <1>3, <2>2 DEF RivalsInv
  <1>6. CASE Launch(w)
    <2>1. run'[x].status = "running" /\ job' = job /\ slot'[w].pc = "working"
      BY <1>0, <1>6, LaunchWrites, SlotGoes
    <2>2. ASSUME NEW v \in Workers, At(v, x)', slot'[v].pc \in Ending
          PROVE  /\ job'[x].attempts >= 2
                 /\ \A u \in Workers : At(u, x)' => slot'[u].pc \notin Entering
      <3>1. v # w /\ At(v, x) /\ slot'[v] = slot[v]
        BY <1>1, <2>1, <2>2 DEF Ending, Stays
      <3>2. job[x].attempts = 2 /\ \A u \in Workers : At(u, x) => u = v \/ u = w
        BY <1>1, <3>1, OnlyTwo
      <3> QED
        BY <1>1, <2>1, <2>2, <3>1, <3>2 DEF Ending, Entering, Stays
    <2>3. Rivals(x)'
      BY <2>1, <2>2 DEF Rivals
    <2> QED
      BY <1>3, <2>3 DEF RivalsInv
  <1>7. CASE GiveBack(w)
    <2>1. slot'[w].pc = "idle"
      BY <1>7, SlotGoes
    <2>2. \A v \in Workers : At(v, x)' => v # w /\ At(v, x) /\ slot'[v] = slot[v]
      BY <1>1, <2>1 DEF At, Stays
    <2>3. CASE run'[x].status = run[x].status \/ run'[x].status \notin Unfinished
      <3>1. Rivals(x)
        BY DEF RivalsInv
      <3>2. Rivals(x)'
        BY <1>1, <1>2, <2>2, <2>3, <3>1, RivalsKept
      <3> QED
        BY <1>3, <3>2 DEF RivalsInv
    <2>4. CASE /\ run'[x].status = "queued" /\ (job[x].attempts >= MaxAttempts => x \in cut')
      <3>1. ASSUME NEW v \in Workers, At(v, x)'
            PROVE  /\ job'[x].attempts >= 2 /\ x \in cut'
                   /\ \A u \in Workers : At(u, x)' => u = v
        <4>1. job[x].attempts = 2 /\ MaxAttempts = 2 /\ \A u \in Workers : At(u, x) => u = v \/ u = w
          BY <1>1, <2>2, <3>1, OnlyTwo
        <4> QED
          BY <1>2, <2>2, <2>4, <4>1
      <3>2. Rivals(x)'
        BY <2>2, <3>1 DEF Rivals, Ending, Entering
      <3> QED
        BY <1>3, <3>2 DEF RivalsInv
    <2> QED
      BY <1>0, <1>7, <2>3, <2>4, GiveBackWrites DEF Unfinished
  <1> QED
    BY <1>4, <1>5, <1>6, <1>7 DEF SlotMoves, Quiet

LEMMA RivalsNext == ASSUME IInv, TicketsInv, RivalsInv, MaxAttempts <= 2, [Next]_vars PROVE RivalsInv'
  <1>1. ASSUME Finishing, \A r \in Runs : job'[r].attempts = job[r].attempts,
               cut \subseteq cut', UNCHANGED slot
        PROVE  RivalsInv'
    <2> SUFFICES ASSUME NEW r \in Runs PROVE Rivals(r)'
      BY DEF RivalsInv
    <2> QED
      BY <1>1, SameStays, RivalsKept DEF RivalsInv, Finishing
  <1>2. ASSUME UNCHANGED <<run, job, slot>>, cut \subseteq cut' PROVE RivalsInv'
    BY <1>1, <1>2 DEF Finishing
  <1>3. ASSUME NEW w \in Workers, SlotStep(w) \/ Renew(w) \/ Fault(w) PROVE RivalsInv'
    <2>1. CASE Renew(w)
      <3>1. slot[w].run \in Runs /\ job \in [Runs -> JobRow]
        BY <2>1 DEF Renew, IInv, SlotsGood, JobsGood
      <3>2. \A r \in Runs : job'[r].attempts = job[r].attempts
        BY <2>1, <3>1 DEF Renew, JobRow
      <3> QED
        BY <1>1, <2>1, <3>2 DEF Renew, Finishing, bounds
    <2> QED
      BY <1>3, <2>1, RivalsClaim, RivalsSlot DEF SlotStep, SlotMoves
  <1>4. CASE \/ \E m \in Members : MemberReads(m) \/ MemberApproves(m) \/ MemberRejects(m)
             \/ \E p \in Procs : CoordStep(p) \/ SweepRun(p)
    BY <1>1, <1>4, Settles
  <1>5. CASE \E p \in Procs : CoordFault(p) \/ SweepFault(p)
    BY <1>2, <1>5 DEF CoordFault, SweepFault, rows
  <1>6. ASSUME NEW p \in Procs, Start(p) PROVE RivalsInv'
    <2>1. Finishing
      <3>1. \A r \in Runs : run'[r] = run[r] \/ run'[r] = [run[r] EXCEPT !.status = "failed"]
        BY <1>6 DEF Start
      <3>2. \A r \in Runs : [run[r] EXCEPT !.status = "failed"].status = "failed"
        BY DEF IInv, RunsGood, RunRow
      <3> QED
        BY <3>1, <3>2 DEF Finishing, Unfinished
    <2> QED
      BY <1>1, <1>6, <2>1 DEF Start, bounds
  <1>7. ASSUME NEW p \in Procs, Crash(p) PROVE RivalsInv'
    <2> SUFFICES ASSUME NEW r \in Runs PROVE Rivals(r)'
      BY DEF RivalsInv
    <2>1. UNCHANGED <<run, job>> /\ cut \subseteq cut'
      BY <1>7 DEF Crash, rows
    <2>2. \A v \in Workers : At(v, r)' => slot'[v] = slot[v]
      BY <1>7, CrashStays, IdleRun DEF At
    <2> QED
      BY <1>7, <2>1, <2>2, CrashStays, RivalsKept DEF RivalsInv
  <1>8. ASSUME NEW p \in Procs, SweepJobs(p) PROVE RivalsInv'
    <2>1. \A r \in Runs : job'[r].attempts = job[r].attempts
      BY <1>8 DEF SweepJobs, IInv, JobsGood, JobRow
    <2> QED
      BY <1>1, <1>8, <2>1 DEF SweepJobs, Finishing, bounds
  <1>9. ASSUME NEW x \in Runs, LeaseExpires(x) \/ Stall(x) \/ BecomesDue(x) PROVE RivalsInv'
    <2>1. \A r \in Runs : job'[r].attempts = job[r].attempts
      BY <1>9 DEF LeaseExpires, Stall, BecomesDue, IInv, JobsGood, JobRow
    <2>2. UNCHANGED <<run, slot, cut>>
      BY <1>9 DEF LeaseExpires, Stall, BecomesDue, bounds
    <2> QED
      BY <1>1, <2>1, <2>2 DEF Finishing
  <1>10. CASE (\E s \in Sessions : SessionChanges(s)) \/ UNCHANGED vars
    BY <1>2, <1>10 DEF SessionChanges, bounds, vars
  <1> QED
    BY <1>3, <1>4, <1>5, <1>6, <1>7, <1>8, <1>9, <1>10 DEF Next, SweepStep

(* Who moves a run.                                                        *)
Enders == {"working", "submitting", "recording"}
Moving(r) == run[r].status \in Unfinished =>
    \/ job[r].status = "pending" /\ job[r].attempts < MaxAttempts
    \/ job[r].status = "leased"
    \/ \E p \in Procs : r \in sweep[p]
    \/ \E w \in Workers : At(w, r) /\ slot[w].pc \in Enders
    \/ run[r].status = "running" /\ r \in aged /\ up # Procs
    \/ r \in cut
MovingInv == \A r \in Runs : Moving(r)

LEMMA MovingKept ==
    ASSUME NEW r \in Runs, Moving(r),
           run'[r].status = run[r].status \/ run'[r].status \notin Unfinished,
           job'[r].status = job[r].status, job'[r].attempts = job[r].attempts,
           \A p \in Procs : r \in sweep[p] =>
              r \in sweep'[p] \/ run'[r].status \notin Unfinished \/ r \in cut',
           \A w \in Workers : At(w, r) /\ slot[w].pc \in Enders =>
              At(w, r)' /\ slot'[w].pc \in Enders,
           aged \subseteq aged', cut \subseteq cut', up # Procs => up' # Procs
    PROVE  Moving(r)'
  BY DEF Moving

LEMMA MovingAside ==
    ASSUME MovingInv, NEW w \in Workers, NEW x \in Runs, Elsewhere(x), cut \subseteq cut',
           UNCHANGED <<sweep, aged, up>>, \A v \in Workers \ {w} : slot'[v] = slot[v],
           \A r \in Runs \ {x} : ~At(w, r)
    PROVE  \A r \in Runs \ {x} : Moving(r)'
  <1> SUFFICES ASSUME NEW r \in Runs \ {x} PROVE Moving(r)'
    OBVIOUS
  <1>1. \A v \in Workers : At(v, r) => slot'[v] = slot[v] /\ At(v, r)'
    BY DEF At
  <1> QED
    BY <1>1, MovingKept DEF MovingInv, Elsewhere

LEMMA MovingClaim == ASSUME IInv, MovingInv, NEW w \in Workers, Claim(w) PROVE MovingInv'
  <1>1. PICK x \in Runs :
          job' = [job EXCEPT ![x] = [job[x] EXCEPT !.status = "leased", !.owner = OwnerOf(w),
                                       !.live = TRUE, !.attempts = job[x].attempts + 1]]
          /\ SlotTo(w, [pc |-> "starting", run |-> x, attempt |-> job[x].attempts + 1, denied |-> FALSE])
    BY DEF Claim
  <1>2. job'[x].status = "leased" /\ \A r \in Runs \ {x} : job'[r] = job[r]
    BY <1>1 DEF IInv, JobsGood, JobRow
  <1>3. Elsewhere(x) /\ UNCHANGED <<sweep, aged, up, cut>>
    BY <1>2 DEF Claim, Elsewhere, bounds
  <1>4. slot[w].pc = "idle" /\ \A v \in Workers \ {w} : slot'[v] = slot[v]
    BY <1>1 DEF Claim, SlotTo, IInv, SlotsGood
  <1>5. \A r \in Runs \ {x} : Moving(r)'
    BY <1>3, <1>4, MovingAside DEF At
  <1>6. Moving(x)'
    BY <1>2 DEF Moving
  <1> QED
    BY <1>5, <1>6 DEF MovingInv

(* The slot that ends its lease leaves a neighbour that will write the run,*)
(* or the loss is named.                                                   *)
LEMMA MovingComplete ==
    ASSUME IInv, TicketsInv, RivalsInv, NEW w \in Workers, Complete(w),
           NEW x \in Runs, x = slot[w].run, Moving(x)
    PROVE  Moving(x)'
  <1>1. slot[w].pc = "completing" /\ At(w, x) /\ \A v \in Workers \ {w} : slot'[v] = slot[v]
    BY SlotMoved DEF SlotMoves, Complete, At
  <1>2. run' = run /\ UNCHANGED <<sweep, aged, up>> /\ cut \subseteq cut'
    BY CompleteWrites
  <1>3. CASE job[x].owner # OwnerOf(w)
    <2>1. job' = job
      BY <1>3 DEF Complete
    <2>2. \A v \in Workers : At(v, x) /\ slot[v].pc \in Enders => At(v, x)' /\ slot'[v].pc \in Enders
      BY <1>1 DEF Enders, At
    <2> QED
      BY <1>2, <2>1, <2>2, MovingKept
  <1>4. CASE job[x].owner = OwnerOf(w) /\ Abandoned(w)
    <2>1. x \in cut'
      BY <1>4 DEF Complete
    <2> QED
      BY <2>1 DEF Moving
  <1>5. CASE run[x].status \in Unfinished /\ ~Abandoned(w)
    <2>1. PICK v \in Workers \ {w} :
            slot[v].run = x /\ slot[v].pc \notin {"charging", "completing", "returning"}
      BY <1>5 DEF Abandoned
    <2>2. At(v, x)
      BY <2>1, Constants DEF At, TicketsInv, Resting
    <2>3. slot[v].pc \notin Entering
      BY <1>1, <1>5, <2>2 DEF RivalsInv, Rivals, Ending
    <2>4. slot[v].pc \in Enders
      BY <2>1, <2>2, <2>3, SlotFacts DEF At, SlotPc, Entering, Enders
    <2>5. At(v, x)' /\ slot'[v].pc \in Enders
      BY <1>1, <2>1, <2>2, <2>4 DEF At
    <2> QED
      BY <2>5 DEF Moving
  <1>6. CASE run[x].status \notin Unfinished
    BY <1>2, <1>6 DEF Moving
  <1> QED
    BY <1>3, <1>4, <1>5, <1>6

LEMMA MovingGiveBack ==
    ASSUME IInv, NEW w \in Workers, GiveBack(w), NEW x \in Runs, x = slot[w].run, Moving(x)
    PROVE  Moving(x)'
  <1>1. slot[w].pc = "returning" /\ \A v \in Workers \ {w} : slot'[v] = slot[v]
    BY SlotMoved DEF SlotMoves, GiveBack
  <1>2. UNCHANGED <<sweep, aged, up>> /\ cut \subseteq cut' /\ job'[x].attempts = job[x].attempts
    BY GiveBackWrites
  <1>3. CASE run' = run /\ job' = job
    <2>1. \A v \in Workers : At(v, x) /\ slot[v].pc \in Enders => At(v, x)' /\ slot'[v].pc \in Enders
      BY <1>1 DEF Enders, At
    <2> QED
      BY <1>2, <1>3, <2>1, MovingKept
  <1>4. CASE job'[x].status = "pending" /\ (job[x].attempts >= MaxAttempts => x \in cut')
    <2>1. job[x].attempts \in Nat /\ MaxAttempts \in Nat
      BY JobFacts, Constants
    <2> QED
      BY <1>2, <1>4, <2>1 DEF Moving
  <1>5. CASE run'[x].status = "failed"
    BY <1>5 DEF Moving, Unfinished
  <1> QED
    BY <1>3, <1>4, <1>5, GiveBackWrites

(* An error in the catch block is made up for by the lease, or is named.   *)
LEMMA MovingFault ==
    ASSUME IInv, NEW w \in Workers, Fault(w), NEW x \in Runs, x = slot[w].run, Moving(x)
    PROVE  Moving(x)'
  <1>1. At(w, x) /\ \A v \in Workers \ {w} : slot'[v] = slot[v]
    BY SlotMoved DEF SlotMoves, At
  <1>2. UNCHANGED <<run, job, sweep, aged, up>> /\ cut \subseteq cut'
    BY DEF Fault, rows
  <1>3. CASE slot[w].pc = "recording" /\ job[x].owner # OwnerOf(w)
    <2>1. x \in cut'
      BY <1>3 DEF Fault
    <2> QED
      BY <2>1 DEF Moving
  <1>4. CASE slot[w].pc = "recording" /\ job[x].owner = OwnerOf(w)
    <2>1. job[x].status = "leased"
      BY <1>4, JobFacts, SlotFacts
    <2> QED
      BY <1>2, <2>1 DEF Moving
  <1>5. CASE slot[w].pc # "recording"
    <2>1. slot[w].pc \in Enders => slot'[w].pc \in Enders /\ At(w, x)'
      <3>1. slot[w].pc \in Enders => slot[w].pc = "submitting" /\ slot'[w].pc = "recording"
        <4>1. slot[w].pc \in Enders => slot[w].pc = "submitting" /\ SlotAt(w, "recording")
          BY <1>5 DEF Fault, Enders
        <4>2. SlotAt(w, "recording") => slot'[w].pc = "recording"
          BY DEF SlotAt, SlotTo, IInv, SlotsGood, SlotRow
        <4> QED
          BY <4>1, <4>2
      <3> QED
        BY <1>1, <3>1, SlotMoved, IdleRun DEF SlotMoves, At, Enders
    <2>2. \A v \in Workers : At(v, x) /\ slot[v].pc \in Enders => At(v, x)' /\ slot'[v].pc \in Enders
      BY <1>1, <2>1 DEF At
    <2> QED
      BY <1>2, <2>2, MovingKept
  <1> QED
    BY <1>3, <1>4, <1>5

LEMMA MovingSlot ==
    ASSUME IInv, TicketsInv, RivalsInv, MovingInv, NEW w \in Workers, SlotMoves(w)
    PROVE  MovingInv'
  <1>0. PICK x \in Runs : x = slot[w].run
    BY SlotMoved, SlotFacts
  <1>1. /\ At(w, x) /\ \A v \in Workers \ {w} : slot'[v] = slot[v]
        /\ \A r \in Runs \ {x} : ~At(w, r)
    BY <1>0, SlotMoved DEF At
  <1>2. Elsewhere(x) /\ cut \subseteq cut' /\ UNCHANGED <<sweep, aged, up>>
    BY <1>0, LaunchWrites, SubmitWrites, QuietWrites, GiveBackWrites DEF SlotMoves, Quiet
  <1>3. \A r \in Runs \ {x} : Moving(r)'
    BY <1>1, <1>2, MovingAside
  <1>4. Moving(x)
    BY DEF MovingInv
  <1>5. ASSUME Launch(w) PROVE Moving(x)'
    <2>1. slot'[w].pc = "working" /\ slot'[w].run = x
      BY <1>0, <1>5, SlotGoes, SlotMoved, IdleRun
    <2>2. At(w, x)' /\ slot'[w].pc \in Enders
      BY <2>1 DEF At, Enders
    <2> QED
      BY <2>2 DEF Moving
  <1>6. ASSUME Submit(w) \/ Record(w) PROVE Moving(x)'
    <2>1. run'[x].status \notin Unfinished
      BY <1>0, <1>6, SubmitWrites, RecordWrites DEF Unfinished
    <2> QED
      BY <2>1 DEF Moving
  <1>7. ASSUME Begin(w) \/ Work(w) \/ Charge(w) PROVE Moving(x)'
    <2>1. UNCHANGED <<run, job>>
      BY <1>7 DEF Begin, Work, Charge, rows
    <2>2. slot[w].pc \in Enders => slot'[w].pc \in Enders
      BY <1>7, SlotGoes DEF Begin, Work, Charge, Enders
    <2>3. slot'[w].pc \in Enders => At(w, x)'
      BY <1>0, <1>1, SlotMoved, IdleRun DEF At, Enders
    <2>4. \A v \in Workers : At(v, x) /\ slot[v].pc \in Enders => At(v, x)' /\ slot'[v].pc \in Enders
      BY <1>1, <2>2, <2>3 DEF At
    <2> QED
      BY <1>2, <1>4, <2>1, <2>4, MovingKept
  <1>8. Moving(x)'
    BY <1>0, <1>4, <1>5, <1>6, <1>7, MovingComplete, MovingGiveBack, MovingFault DEF SlotMoves
  <1> QED
    BY <1>3, <1>8 DEF MovingInv

(* A crash takes the slots of a process; a lease of theirs runs out, a slot*)
(* without one is on an old run, which the start of the process finds.     *)
LEMMA MovingCrash ==
    ASSUME IInv, TicketsInv, RivalsInv, MovingInv, NEW p \in Procs, Crash(p) PROVE MovingInv'
  <1> SUFFICES ASSUME NEW r \in Runs PROVE Moving(r)'
    BY DEF MovingInv
  <1>1. UNCHANGED <<run, job, aged>> /\ cut' = cut \cup sweep[p] /\ up' # Procs
    BY DEF Crash, rows
  <1>2. \A q \in Procs : r \in sweep[q] => r \in sweep'[q] \/ r \in cut'
    BY <1>1 DEF Crash, IInv, RestGood
  <1>3. CASE \E w \in Workers : At(w, r) /\ slot[w].pc \in Enders
    <2>1. PICK w \in Workers : At(w, r) /\ slot[w].pc \in Enders
      BY <1>3
    <2>2. run[r].status # "queued" \/ r \in cut
      BY <2>1 DEF RivalsInv, Rivals, Begun, Enders
    <2>3. r \in aged \/ job[r].status = "leased"
      BY <2>1 DEF TicketsInv, Tickets
    <2> QED
      BY <1>1, <2>2, <2>3 DEF Moving, Unfinished
  <1>4. CASE ~\E w \in Workers : At(w, r) /\ slot[w].pc \in Enders
    BY <1>1, <1>2, <1>4, MovingKept DEF MovingInv
  <1> QED
    BY <1>3, <1>4

LEMMA MovingStart ==
    ASSUME IInv, TicketsInv, MovingInv, NEW p \in Procs, Start(p) PROVE MovingInv'
  <1> SUFFICES ASSUME NEW r \in Runs PROVE Moving(r)'
    BY DEF MovingInv
  <1>1. UNCHANGED <<job, slot, sweep, aged, cut>>
    BY DEF Start, bounds
  <1>2. run'[r] = run[r] \/ run'[r] = [run[r] EXCEPT !.status = "failed"]
    BY DEF Start
  <1>3. r \in aged /\ run[r].status = "running" /\ ~JobOpen(r) =>
            run'[r] = [run[r] EXCEPT !.status = "failed"]
    BY DEF Start
  <1>4. [run[r] EXCEPT !.status = "failed"].status = "failed"
    BY DEF IInv, RunsGood, RunRow
  <1>5. CASE run'[r].status \notin Unfinished
    BY <1>5 DEF Moving
  <1>6. CASE run'[r].status \in Unfinished
    <2>1. run'[r] = run[r]
      BY <1>2, <1>4, <1>6 DEF Unfinished
    <2>2. r \in aged /\ run[r].status = "running" => JobOpen(r)
      BY <1>3, <1>4, <1>6 DEF Unfinished
    <2>3. JobOpen(r) => \/ job[r].status = "pending" /\ job[r].attempts < MaxAttempts
                        \/ job[r].status = "leased" \/ r \in cut
      BY DEF JobOpen, TicketsInv, Tickets
    <2> QED
      BY <1>1, <1>6, <2>1, <2>2, <2>3 DEF Moving, MovingInv, At
  <1> QED
    BY <1>5, <1>6

LEMMA MovingNext ==
    ASSUME IInv, TicketsInv, RivalsInv, MovingInv, [Next]_vars PROVE MovingInv'
  <1>1. ASSUME Finishing, UNCHANGED <<slot, up>>, aged \subseteq aged', cut \subseteq cut',
               \A r \in Runs : job'[r].status = job[r].status /\ job'[r].attempts = job[r].attempts,
               \A p \in Procs, r \in Runs : r \in sweep[p] =>
                  r \in sweep'[p] \/ run'[r].status \notin Unfinished \/ r \in cut'
        PROVE  MovingInv'
    <2> SUFFICES ASSUME NEW r \in Runs PROVE Moving(r)'
      BY DEF MovingInv
    <2>1. \A w \in Workers : At(w, r) /\ slot[w].pc \in Enders => At(w, r)' /\ slot'[w].pc \in Enders
      BY <1>1 DEF At
    <2> QED
      BY <1>1, <2>1, MovingKept DEF MovingInv, Finishing
  <1>2. ASSUME UNCHANGED <<run, slot, sweep, up, cut>>, aged \subseteq aged',
               \A r \in Runs : job'[r].status = job[r].status /\ job'[r].attempts = job[r].attempts
        PROVE  MovingInv'
    BY <1>1, <1>2 DEF Finishing
  <1>3. ASSUME NEW w \in Workers, SlotStep(w) \/ Renew(w) \/ Fault(w) PROVE MovingInv'
    <2>1. CASE Renew(w)
      <3>1. slot[w].run \in Runs /\ job \in [Runs -> JobRow]
        BY <2>1 DEF Renew, IInv, SlotsGood, JobsGood
      <3>2. \A r \in Runs : job'[r].status = job[r].status /\ job'[r].attempts = job[r].attempts
        BY <2>1, <3>1 DEF Renew, JobRow
      <3> QED
        BY <1>2, <2>1, <3>2 DEF Renew, bounds
    <2> QED
      BY <1>3, <2>1, MovingClaim, MovingSlot DEF SlotStep, SlotMoves
  <1>4. CASE \/ \E m \in Members : MemberReads(m) \/ MemberApproves(m) \/ MemberRejects(m)
             \/ \E p \in Procs : CoordStep(p) \/ SweepRun(p)
    BY <1>1, <1>4, Settles
  <1>5. ASSUME NEW p \in Procs, SweepFault(p) PROVE MovingInv'
    <2>1. \A q \in Procs, r \in Runs : r \in sweep[q] => r \in sweep'[q] \/ r \in cut'
      BY <1>5 DEF SweepFault, IInv, RestGood
    <2> QED
      BY <1>1, <1>5, <2>1 DEF SweepFault, Finishing, rows
  <1>6. ASSUME NEW p \in Procs, SweepJobs(p) PROVE MovingInv'
    <2> SUFFICES ASSUME NEW r \in Runs PROVE Moving(r)'
      BY DEF MovingInv
    <2>1. CASE r \in Exhausted
      <3>1. r \in sweep'[p]
        BY <1>6, <2>1 DEF SweepJobs, IInv, RestGood
      <3> QED
        BY <3>1 DEF Moving
    <2>2. CASE r \notin Exhausted
      <3>1. job'[r] = job[r] /\ UNCHANGED <<run, slot, up, cut, aged>>
        BY <1>6, <2>2 DEF SweepJobs, bounds
      <3>2. \A q \in Procs : r \in sweep[q] => r \in sweep'[q]
        BY <1>6 DEF SweepJobs, IInv, RestGood
      <3>3. \A w \in Workers : At(w, r) /\ slot[w].pc \in Enders => At(w, r)' /\ slot'[w].pc \in Enders
        BY <3>1 DEF At
      <3> QED
        BY <3>1, <3>2, <3>3, MovingKept DEF MovingInv
    <2> QED
      BY <2>1, <2>2
  <1>7. ASSUME NEW x \in Runs, LeaseExpires(x) \/ Stall(x) \/ BecomesDue(x) PROVE MovingInv'
    <2>1. \A r \in Runs : job'[r].status = job[r].status /\ job'[r].attempts = job[r].attempts
      BY <1>7 DEF LeaseExpires, Stall, BecomesDue, IInv, JobsGood, JobRow
    <2>2. UNCHANGED <<run, slot, sweep, up, cut>> /\ aged \subseteq aged'
      BY <1>7 DEF LeaseExpires, Stall, BecomesDue, bounds
    <2> QED
      BY <1>2, <2>1, <2>2
  <1>8. CASE (\E p \in Procs : CoordFault(p)) \/ (\E s \in Sessions : SessionChanges(s)) \/ UNCHANGED vars
    BY <1>2, <1>8 DEF CoordFault, SessionChanges, rows, bounds, vars
  <1> QED
    BY <1>3, <1>4, <1>5, <1>6, <1>7, <1>8, MovingCrash, MovingStart DEF Next, SweepStep

LEMMA InitMoving == Init => TicketsInv /\ RivalsInv /\ MovingInv
  <1> SUFFICES ASSUME Init PROVE TicketsInv /\ RivalsInv /\ MovingInv
    OBVIOUS
  <1>1. \A w \in Workers : slot[w].pc = "idle" /\ slot[w].run = None
    BY IdleRun DEF Init
  <1>2. \A r \in Runs : job[r].status = "pending" /\ job[r].attempts < MaxAttempts
    BY Constants DEF Init
  <1>3. \A r \in Runs, w \in Workers : ~At(w, r)
    BY <1>1 DEF At
  <1> QED
    BY <1>1, <1>2, <1>3 DEF TicketsInv, Resting, Tickets, Expired, RivalsInv, Rivals, MovingInv, Moving

(* queue-recovery.ts:3: with the two attempts enqueueAgentDraft gives a    *)
(* draft, a run that is not finished is never left without somebody who    *)
(* will claim, end, sweep or find it, unless one of the named losses cut it*)
(* off.  With three it could be: a slot that lost its first lease ends that*)
(* of a neighbour that has not begun its third.                            *)
THEOREM MovingSafe == ASSUME MaxAttempts <= 2 PROVE Spec => []RunIsMoving
  <1> DEFINE Inv == TicketsInv /\ RivalsInv /\ MovingInv
  <1>1. Inv /\ IInv /\ [Next]_vars => Inv'
    BY TicketsNext, RivalsNext, MovingNext
  <1>2. Inv => RunIsMoving
    BY DEF MovingInv, Moving, RunIsMoving, Enders, At
  <1> HIDE DEF Inv
  <1>3. Init => Inv
    BY InitMoving DEF Inv
  <1> QED
    BY <1>1, <1>2, <1>3, Inductive, PTL DEF Spec
=============================================================================
