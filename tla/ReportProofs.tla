---------------------------- MODULE ReportProofs ----------------------------
(***************************************************************************)
(* Proofs about the report workflow, for any number of drafts, snapshots,  *)
(* attempts and requests, and after them about the files of a report, for  *)
(* any number of jobs, workers, requests and upsets.                       *)
(*                                                                         *)
(* An approved draft stays as it was approved until an attempt of its own  *)
(* writes over it, and then it is in undone (Kept).  So what was true of   *)
(* the narrative and the review when a report was frozen stays true of     *)
(* those that are not.  That the review has read the text that is frozen,  *)
(* though the freezing compares ids, is an invariant about every review    *)
(* and every attempt at one: what it was given is still the text of its    *)
(* narrative, unless the approval of that was undone (Reads).              *)
(* The workflow goes by the newest narrative and the freezing by the one   *)
(* approved last.  They are the same as long as no narrative was queued    *)
(* while an earlier one of its snapshot was under way (InTurn), so the     *)
(* workflow, which looks for a report of the former, cannot freeze the     *)
(* latter twice.  A draft can be approved again only while it is under     *)
(* way, so this survives the undone approvals.                             *)
(***************************************************************************)
EXTENDS ReportWorkflow, TLAPS, SequenceTheorems, WellFoundedInduction

RunsGood ==
    /\ run \in Seq(RunType) /\ Len(run) <= MaxRuns
    /\ attempt \subseteq AttemptType
    /\ undone \subseteq Runs

(* Approvals are numbered in one order. *)
Numbered ==
    /\ approvals \in Nat
    /\ \A i \in Runs : run[i].at <= approvals
    /\ \A i, j \in Approved(Runs) : run[i].at = run[j].at => i = j

(* Unless two narratives of one snapshot were under way at once, the later *)
(* one was queued when the earlier one was over: it is approved later too. *)
InTurn == crossed \/ \A i, j \in Narratives :
    i < j /\ run[i].metric = run[j].metric =>
        /\ ~Underway(i)
        /\ run[i].status = "approved" /\ run[j].status = "approved" => run[i].at < run[j].at

(* A review was given this text of narrative n. *)
Reads(n, text) == n # 0 =>
    /\ n \in Runs
    /\ n \in undone \/ (run[n].status = "approved" /\ run[n].draft.text = text)

ReadsGood ==
    /\ \A i \in Runs : Reads(run[i].draft.bound, run[i].draft.about)
    /\ \A s \in attempt : Reads(s.bound, s.about)

ReportsGood ==
    /\ report \in Seq(ReportType) /\ Len(report) <= MaxReports
    /\ \A k \in 1..Len(report) : report[k].narrative \in Runs /\ report[k].quality \in Runs

RestGood ==
    /\ scheduled \in BOOLEAN /\ metric \in 0..MaxMetrics /\ measured \in 0..MaxMetrics
    /\ read \subseteq Runs /\ next \in BOOLEAN /\ crossed \in BOOLEAN /\ lost \in BOOLEAN
    /\ extras \in 0..MaxExtras

Drafts == RunsGood /\ Numbered /\ InTurn /\ ReadsGood
Reports == ReportsGood /\ FrozenIsReviewedUnlessUndone /\ FrozenOnceUnlessCrossed

IInv == Drafts /\ Reports /\ RestGood

(* What no step does to a draft. *)
Kept ==
    /\ Len(run) <= Len(run') /\ undone \subseteq undone'
    /\ \A i \in Runs :
        /\ run'[i].purpose = run[i].purpose /\ run'[i].metric = run[i].metric
        /\ run[i].status = "approved" /\ i \notin undone' =>
             run'[i].status = "approved" /\ run'[i].draft = run[i].draft
    /\ crossed => crossed'

-----------------------------------------------------------------------------
LEMMA ConstantFacts ==
    /\ MaxMetrics \in Nat \ {0} /\ MaxRuns \in Nat \ {0} /\ MaxReports \in Nat \ {0}
    /\ MaxTries \in Nat \ {0} /\ MaxExtras \in Nat
  BY WorkflowAssumption

(* A nonempty set of bounded numbers has a greatest one. *)
LEMMA Greatest ==
    ASSUME NEW N \in Nat, NEW S, NEW f, S # {}, \A i \in S : f[i] \in 0..N
    PROVE  \E i \in S : \A j \in S : f[j] <= f[i]
  <1> DEFINE T == {N - f[i] : i \in S}
             R == {ss \in Nat \X Nat : ss[1] < ss[2]}
  <1>1. T \subseteq Nat /\ T # {}
    OBVIOUS
  <1>2. IsWellFoundedOn(R, Nat)
    BY NatLessThanWellFounded DEF OpToRel
  <1> HIDE DEF R
  <1>3. PICK x \in T : \A y \in T : ~(<<y, x>> \in R)
    BY <1>1, <1>2, WFMin
  <1>4. \A y \in T : ~(y < x)
    BY <1>1, <1>3 DEF R
  <1>5. PICK i \in S : x = N - f[i]
    BY <1>3
  <1>6. ASSUME NEW j \in S PROVE f[j] <= f[i]
    <2>1. ~(N - f[j] < N - f[i])
      BY <1>4, <1>5
    <2> QED
      BY <2>1
  <1> QED
    BY <1>6

LEMMA RunFacts ==
    ASSUME RunsGood
    PROVE  /\ Len(run) \in 0..MaxRuns /\ Runs = 1..Len(run) /\ Runs \subseteq 1..MaxRuns
           /\ \A i \in Runs : run[i] \in RunType
  <1>1. Len(run) \in 0..MaxRuns /\ \A i \in Runs : run[i] \in RunType
    BY LenProperties, ElementOfSeq, ConstantFacts DEF RunsGood, Runs
  <1> QED
    BY <1>1, ConstantFacts DEF Runs

(* There is a draft approved last, and one that is the newest. *)
LEMMA LatestExists ==
    ASSUME Drafts, NEW S \in SUBSET Runs, S # {}
    PROVE  LatestApproved(S) \in S /\ \A j \in S : run[j].at <= run[LatestApproved(S)].at
  <1> DEFINE f == [i \in Runs |-> run[i].at]
  <1>1. approvals \in Nat /\ \A i \in S : f[i] \in 0..approvals
    BY RunFacts DEF RunType, Drafts, Numbered
  <1>2. \E i \in S : \A j \in S : f[j] <= f[i]
    BY <1>1, Greatest
  <1>3. \E i \in S : \A j \in S : run[j].at <= run[i].at
    BY <1>2
  <1> QED
    BY <1>3 DEF LatestApproved

LEMMA NewestExists ==
    ASSUME RunsGood, NEW S \in SUBSET Runs, S # {}
    PROVE  Newest(S) \in S /\ \A j \in S : j <= Newest(S)
  <1> DEFINE f == [i \in Runs |-> i]
  <1>1. MaxRuns \in Nat /\ \A i \in S : f[i] \in 0..MaxRuns
    BY RunFacts, ConstantFacts
  <1>2. \E i \in S : \A j \in S : f[j] <= f[i]
    BY <1>1, Greatest
  <1>3. \E i \in S : \A j \in S : j <= i
    BY <1>2
  <1> QED
    BY <1>3 DEF Newest

-----------------------------------------------------------------------------
(* A step adds attempts of this draft only. *)
OnlyOf(i) == \A s \in attempt' :
    s \in attempt \/ (s \in AttemptType /\ s.run = i /\ Reads(s.bound, s.about))

(* A write of one draft that is under way, by an attempt, a member or the  *)
(* sweep: it approves nothing, and if it takes an approval away, or the    *)
(* draft that was approved, that is noted.                                 *)
Touches(i, row) ==
    /\ row \in RunType
    /\ run' = [run EXCEPT ![i] = row]
    /\ Underway(i)
    /\ row.purpose = run[i].purpose /\ row.metric = run[i].metric /\ row.at = run[i].at
    /\ row.status = "approved" => run[i].status = "approved"
    /\ undone' \in {undone, undone \cup {i}}
    /\ run[i].status = "approved" =>
         i \in undone' \/ (row.status = "approved" /\ row.draft = run[i].draft)
    /\ Reads(row.draft.bound, row.draft.about)
    /\ OnlyOf(i)
    /\ approvals' = approvals /\ crossed' = crossed

LEMMA WriteFacts ==
    ASSUME RunsGood, NEW i \in Runs, NEW row \in RunType, run' = [run EXCEPT ![i] = row],
           row.purpose = run[i].purpose
    PROVE  /\ run' \in Seq(RunType) /\ Len(run') = Len(run) /\ Runs' = Runs
           /\ \A j \in Runs : run'[j] = IF j = i THEN row ELSE run[j]
           /\ Narratives' = Narratives
  <1>1. Len(run) \in Nat /\ i \in 1..Len(run)
    BY RunFacts
  <1>2. /\ run' \in Seq(RunType) /\ Len(run') = Len(run)
        /\ \A j \in 1..Len(run) : run'[j] = IF j = i THEN row ELSE run[j]
    BY <1>1, ExceptSeq DEF RunsGood
  <1>3. Runs' = Runs
    BY <1>2 DEF Runs
  <1>4. Narratives' = Narratives
    BY <1>2, <1>3 DEF Narratives, Runs
  <1> QED
    BY <1>2, <1>3, <1>4 DEF Runs

LEMMA RunWritten ==
    ASSUME Drafts, NEW i \in Runs, NEW row, Touches(i, row)
    PROVE  Drafts' /\ Kept
  <1>1. /\ run' \in Seq(RunType) /\ Len(run') = Len(run) /\ Runs' = Runs
        /\ \A j \in Runs : run'[j] = IF j = i THEN row ELSE run[j]
        /\ Narratives' = Narratives
    BY WriteFacts DEF Drafts, Touches
  <1>2. AttemptType' = AttemptType
    BY <1>1 DEF AttemptType
  <1>3. RunsGood'
    BY <1>1, <1>2 DEF Drafts, RunsGood, Touches, OnlyOf
  <1>4. \A j \in Runs : /\ run'[j].at = run[j].at /\ run'[j].metric = run[j].metric
                        /\ run'[j].purpose = run[j].purpose
                        /\ run'[j].status = "approved" => run[j].status = "approved"
    BY <1>1 DEF Touches
  <1>5. Approved(Runs)' \subseteq Approved(Runs)
    BY <1>1, <1>4 DEF Approved
  <1>6. Numbered'
    <2>1. approvals' \in Nat /\ \A j \in Runs' : run'[j].at <= approvals'
      BY <1>1, <1>4 DEF Drafts, Numbered, Touches
    <2>2. ASSUME NEW j \in Approved(Runs)', NEW k \in Approved(Runs)', run'[j].at = run'[k].at
          PROVE  j = k
      <3>1. j \in Approved(Runs) /\ k \in Approved(Runs) /\ j \in Runs /\ k \in Runs
        BY <1>5 DEF Approved
      <3> QED
        BY <1>4, <2>2, <3>1 DEF Drafts, Numbered
    <2> QED
      BY <2>1, <2>2 DEF Numbered
  <1>7. InTurn'
    <2> SUFFICES ASSUME ~crossed, NEW j \in Narratives, NEW k \in Narratives, j < k,
                        run'[j].metric = run'[k].metric
                 PROVE  /\ ~Underway(j)'
                        /\ run'[j].status = "approved" /\ run'[k].status = "approved"
                             => run'[j].at < run'[k].at
      BY <1>1 DEF InTurn, Touches
    <2>1. j \in Runs /\ k \in Runs /\ run[j].metric = run[k].metric
      BY <1>4 DEF Narratives
    <2>2. /\ ~Underway(j)
          /\ run[j].status = "approved" /\ run[k].status = "approved" => run[j].at < run[k].at
      BY <2>1 DEF Drafts, InTurn
    <2>3. j # i /\ run'[j] = run[j]
      BY <1>1, <2>1, <2>2 DEF Touches
    <2>4. Attempts(j)' = {}
      BY <2>2, <2>3 DEF Underway, Attempts, Touches, OnlyOf
    <2>5. ~Underway(j)'
      BY <2>2, <2>3, <2>4 DEF Underway
    <2> QED
      BY <1>4, <2>1, <2>2, <2>5
  <1>8. ASSUME NEW n, NEW text, Reads(n, text) PROVE Reads(n, text)'
    <2>1. undone \subseteq undone'
      BY DEF Touches
    <2>2. ASSUME n # 0 PROVE n \in Runs
      BY <1>8, <2>2 DEF Reads
    <2>3. ASSUME n # 0, n \notin undone'
          PROVE  run'[n].status = "approved" /\ run'[n].draft.text = text
      <3>1. n \in Runs /\ run[n].status = "approved" /\ run[n].draft.text = text
        BY <1>8, <2>1, <2>3 DEF Reads
      <3>2. run'[n].status = "approved" /\ run'[n].draft = run[n].draft
        BY <1>1, <2>3, <3>1 DEF Touches
      <3> QED
        BY <3>1, <3>2
    <2> QED
      BY <1>1, <2>2, <2>3 DEF Reads
  <1>9. ReadsGood'
    <2>1. ASSUME NEW j \in Runs PROVE Reads(run[j].draft.bound, run[j].draft.about)'
      <3>1. PICK n, text : n = run'[j].draft.bound /\ text = run'[j].draft.about
        OBVIOUS
      <3>2. Reads(n, text)
        BY <1>1, <3>1 DEF Drafts, ReadsGood, Touches
      <3>3. Reads(n, text)'
        BY <1>8, <3>2
      <3> QED
        BY <3>1, <3>3 DEF Reads
    <2>2. ASSUME NEW s \in attempt' PROVE Reads(s.bound, s.about)'
      BY <1>8 DEF Drafts, ReadsGood, Touches, OnlyOf
    <2> QED
      BY <1>1, <2>1, <2>2 DEF ReadsGood
  <1>10. Kept
    <2>1. Len(run) <= Len(run') /\ undone \subseteq undone' /\ crossed' = crossed
      BY <1>1, RunFacts DEF Touches, Drafts
    <2>2. \A j \in Runs : run[j].status = "approved" /\ j \notin undone' =>
            run'[j].status = "approved" /\ run'[j].draft = run[j].draft
      BY <1>1 DEF Touches
    <2> QED
      BY <1>4, <2>1, <2>2 DEF Kept
  <1> QED
    BY <1>3, <1>6, <1>7, <1>9, <1>10 DEF Drafts

(* An approval takes the next number.  No narrative of its snapshot was    *)
(* queued after it, unless they crossed.                                   *)
LEMMA RunApproved ==
    ASSUME Drafts, NEW i \in Runs, run[i].status = "awaiting_approval",
           NEW row \in RunType, NEW at, at = approvals + 1,
           run' = [run EXCEPT ![i] = row],
           row.purpose = run[i].purpose, row.metric = run[i].metric, row.draft = run[i].draft,
           row.status = "approved", row.at = at,
           approvals' = at, UNCHANGED <<attempt, undone, crossed>>
    PROVE  Drafts' /\ Kept
  <1>1. run[i] \in RunType /\ \A j \in Runs : run[j] \in RunType
    BY RunFacts DEF Drafts
  <1>2. at \in Nat /\ approvals \in Nat /\ \A j \in Runs : run[j].at < at
    BY <1>1 DEF RunType, Drafts, Numbered
  <1>5. /\ run' \in Seq(RunType) /\ Len(run') = Len(run) /\ Runs' = Runs
        /\ \A j \in Runs : run'[j] = IF j = i THEN row ELSE run[j]
        /\ Narratives' = Narratives
    BY WriteFacts DEF Drafts
  <1>6. RunsGood'
    BY <1>5 DEF Drafts, RunsGood, AttemptType
  <1>7. Numbered'
    <2>1. ASSUME NEW j \in Runs' PROVE run'[j].at <= approvals'
      <3>1. CASE j = i
        BY <1>2, <1>5, <3>1
      <3>2. CASE j # i
        <4>1. run'[j].at = run[j].at /\ run[j].at \in Nat /\ run[j].at < at
          BY <1>1, <1>2, <1>5, <3>2 DEF RunType
        <4> QED
          BY <1>2, <4>1
      <3> QED
        BY <3>1, <3>2
    <2>2. ASSUME NEW j \in Approved(Runs)', NEW k \in Approved(Runs)', run'[j].at = run'[k].at
          PROVE  j = k
      <3>1. j \in Runs /\ k \in Runs /\ run'[j].status = "approved" /\ run'[k].status = "approved"
        BY <1>5 DEF Approved
      <3>2. CASE j # i /\ k # i
        BY <1>5, <2>2, <3>1, <3>2 DEF Approved, Drafts, Numbered
      <3>3. ASSUME NEW l \in Runs, l # i PROVE run'[l].at # at
        BY <1>1, <1>2, <1>5, <3>3 DEF RunType
      <3> QED
        BY <1>5, <2>2, <3>1, <3>2, <3>3
    <2> QED
      BY <1>2, <2>1, <2>2 DEF Numbered
  <1>8. InTurn'
    <2> SUFFICES ASSUME ~crossed, NEW j \in Narratives, NEW k \in Narratives, j < k,
                        run'[j].metric = run'[k].metric
                 PROVE  /\ ~Underway(j)'
                        /\ run'[j].status = "approved" /\ run'[k].status = "approved"
                             => run'[j].at < run'[k].at
      BY <1>5 DEF InTurn
    <2>1. j \in Runs /\ k \in Runs /\ run[j].metric = run[k].metric
      BY <1>5 DEF Narratives
    <2>2. /\ ~Underway(j)
          /\ run[j].status = "approved" /\ run[k].status = "approved" => run[j].at < run[k].at
      BY <2>1 DEF Drafts, InTurn
    <2>3. j # i
      BY <2>2 DEF Underway, Active
    <2>4. run'[j] = run[j] /\ Attempts(j)' = Attempts(j)
      BY <1>5, <2>1, <2>3 DEF Attempts
    <2>5. CASE k = i
      BY <1>2, <1>5, <2>1, <2>2, <2>4, <2>5 DEF Underway
    <2>6. CASE k # i
      BY <1>5, <2>1, <2>2, <2>4, <2>6 DEF Underway
    <2> QED
      BY <2>5, <2>6
  <1>9. ASSUME NEW n, NEW text, Reads(n, text) PROVE Reads(n, text)'
    BY <1>5, <1>9 DEF Reads
  <1>10. ReadsGood'
    <2>1. ASSUME NEW j \in Runs PROVE Reads(run[j].draft.bound, run[j].draft.about)'
      <3>1. PICK n, text : n = run'[j].draft.bound /\ text = run'[j].draft.about
        OBVIOUS
      <3>2. Reads(n, text)
        BY <1>5, <3>1 DEF Drafts, ReadsGood
      <3>3. Reads(n, text)'
        BY <1>9, <3>2
      <3> QED
        BY <3>1, <3>3 DEF Reads
    <2>2. ASSUME NEW s \in attempt' PROVE Reads(s.bound, s.about)'
      BY <1>9 DEF Drafts, ReadsGood
    <2> QED
      BY <1>5, <2>1, <2>2 DEF ReadsGood
  <1>11. Kept
    BY <1>5, RunFacts DEF Kept, Drafts
  <1> QED
    BY <1>6, <1>7, <1>8, <1>10, <1>11 DEF Drafts

(* A new draft is the newest; if it is a narrative and another one of the  *)
(* snapshot is under way, that is a crossing.                              *)
LEMMA RunAdded ==
    ASSUME Drafts, RestGood, NEW purpose \in Purposes, Enqueue(purpose),
           UNCHANGED <<attempt, approvals, undone>>
    PROVE  Drafts' /\ Kept
  <1> DEFINE row == [purpose |-> purpose, metric |-> metric, status |-> "queued", job |-> "pending",
                     tries |-> 0, draft |-> NoDraft, since |-> approvals, at |-> 0]
             new == Len(run) + 1
  <1>1. /\ RunsGood /\ Len(run) \in Nat /\ Runs = 1..Len(run) /\ approvals \in Nat
        /\ \A j \in Runs : run[j] \in RunType
    BY RunFacts DEF Drafts, Numbered
  <1>2. metric \in 1..MaxMetrics /\ 0 \in 0..MaxRuns /\ 0 \in 0..MaxTries /\ 0 \in Nat
        /\ new \in Nat /\ new <= MaxRuns
    BY <1>1, ConstantFacts DEF Enqueue, RestGood
  <1>3. /\ row \in RunType /\ row.purpose = purpose /\ row.metric = metric /\ row.at = 0
        /\ row.status = "queued" /\ row.draft.bound = 0
    BY <1>1, <1>2 DEF RunType, DraftType, NoDraft, Active
  <1>4. run' = Append(run, row)
    BY DEF Enqueue, Enqueued
  <1> HIDE DEF row
  <1>5. /\ run' \in Seq(RunType) /\ Len(run') = new
        /\ \A j \in 1..Len(run) : run'[j] = run[j]
        /\ run'[new] = row
    BY <1>3, <1>4, AppendProperties DEF Drafts, RunsGood
  <1>6. /\ Runs' = Runs \cup {new} /\ new \notin Runs
        /\ \A j \in Runs : run'[j] = run[j]
    BY <1>1, <1>5 DEF Runs
  <1> HIDE DEF new
  <1>7. RunsGood'
    BY <1>2, <1>5, <1>6 DEF Drafts, RunsGood, AttemptType
  <1>8. Approved(Runs)' = Approved(Runs)
    BY <1>3, <1>5, <1>6 DEF Approved
  <1>9. Numbered'
    <2>1. approvals' \in Nat /\ \A j \in Runs' : run'[j].at <= approvals'
      BY <1>1, <1>3, <1>5, <1>6 DEF Drafts, Numbered
    <2>2. \A j, k \in Approved(Runs)' : run'[j].at = run'[k].at => j = k
      BY <1>6, <1>8 DEF Drafts, Numbered, Approved
    <2> QED
      BY <2>1, <2>2 DEF Numbered
  <1>10. crossed' = (crossed \/ Crosses(purpose))
    BY DEF Enqueue
  <1>11. InTurn'
    <2> SUFFICES ASSUME ~crossed', NEW j \in Narratives', NEW k \in Narratives', j < k,
                        run'[j].metric = run'[k].metric
                 PROVE  /\ ~Underway(j)'
                        /\ run'[j].status = "approved" /\ run'[k].status = "approved"
                             => run'[j].at < run'[k].at
      BY DEF InTurn
    <2>1. ~crossed /\ ~Crosses(purpose)
      BY <1>10
    <2>2. j \in Runs \cup {new} /\ k \in Runs \cup {new}
          /\ run'[j].purpose = "narrative" /\ run'[k].purpose = "narrative"
      BY <1>6 DEF Narratives
    <2>3. j \in Runs
      BY <1>1, <2>2 DEF new
    <2>4. j \in Narratives /\ run'[j] = run[j] /\ Attempts(j)' = Attempts(j)
      BY <1>6, <2>2, <2>3 DEF Narratives, Attempts
    <2>5. CASE k \in Runs
      <3>1. k \in Narratives /\ run'[k] = run[k]
        BY <1>6, <2>2, <2>5 DEF Narratives
      <3> QED
        BY <2>1, <2>4, <3>1 DEF Drafts, InTurn, Underway
    <2>6. CASE k = new
      <3>1. run'[k] = row /\ purpose = "narrative" /\ run[j].metric = metric
        BY <1>3, <1>5, <2>2, <2>4, <2>6
      <3>2. ~Underway(j)
        BY <2>1, <2>4, <3>1 DEF Crosses
      <3> QED
        BY <1>3, <2>4, <3>1, <3>2 DEF Underway
    <2> QED
      BY <2>2, <2>5, <2>6
  <1>12. ReadsGood'
    <2>1. ASSUME NEW n, NEW text, Reads(n, text) PROVE Reads(n, text)'
      BY <1>6, <2>1 DEF Reads
    <2>2. ASSUME NEW j \in Runs' PROVE Reads(run[j].draft.bound, run[j].draft.about)'
      <3>1. PICK n, text : n = run'[j].draft.bound /\ text = run'[j].draft.about
        OBVIOUS
      <3>2. Reads(n, text)
        BY <1>3, <1>5, <1>6, <3>1 DEF Drafts, ReadsGood, Reads
      <3>3. Reads(n, text)'
        BY <2>1, <3>2
      <3> QED
        BY <3>1, <3>3 DEF Reads
    <2>3. ASSUME NEW s \in attempt' PROVE Reads(s.bound, s.about)'
      BY <2>1 DEF Drafts, ReadsGood
    <2> QED
      BY <2>2, <2>3 DEF ReadsGood
  <1>13. Kept
    <2>1. Len(run) <= Len(run')
      BY <1>1, <1>5 DEF new
    <2> QED
      BY <1>6, <1>10, <2>1 DEF Kept
  <1> QED
    BY <1>7, <1>9, <1>11, <1>12, <1>13 DEF Drafts

-----------------------------------------------------------------------------
(* Reports that stay, apart from their files. *)
LEMMA ReportFacts ==
    ASSUME ReportsGood
    PROVE  /\ Len(report) \in Nat /\ DOMAIN report = 1..Len(report)
           /\ \A k \in 1..Len(report) : report[k] \in ReportType
  BY LenProperties, ElementOfSeq DEF ReportsGood

LEMMA ReportsStay ==
    ASSUME IInv, RunsGood', Kept, report' = report
    PROVE  Reports'
  <1>1. Runs \subseteq Runs'
    BY RunFacts, LenProperties DEF IInv, Drafts, Kept, Runs, RunsGood
  <1>2. ReportsGood'
    BY <1>1 DEF IInv, Reports, ReportsGood
  <1>3. FrozenIsReviewedUnlessUndone'
    BY DEF IInv, Reports, ReportsGood, FrozenIsReviewedUnlessUndone, Kept
  <1>4. FrozenOnceUnlessCrossed'
    BY DEF IInv, Reports, FrozenOnceUnlessCrossed, FrozenOnce, Kept
  <1> QED
    BY <1>2, <1>3, <1>4 DEF Reports

LEMMA DocsWritten ==
    ASSUME IInv, NEW k, NEW docs \in {"none", "queued", "ready"}, run' = run, undone' = undone,
           crossed' = crossed, report' = [report EXCEPT ![k].docs = docs]
    PROVE  Reports'
  <1>1. /\ report \in Seq(ReportType) /\ Len(report) \in Nat /\ DOMAIN report = 1..Len(report)
        /\ \A l \in 1..Len(report) : report[l] \in ReportType
    BY ReportFacts DEF IInv, Reports, ReportsGood
  <1>2. CASE k \in 1..Len(report)
    <2> DEFINE row == [report[k] EXCEPT !.docs = docs]
    <2>1. /\ row \in ReportType /\ row.metric = report[k].metric /\ row.by = report[k].by
          /\ row.narrative = report[k].narrative /\ row.quality = report[k].quality
          /\ row.text = report[k].text /\ row.reviewed = report[k].reviewed
      BY <1>1, <1>2 DEF ReportType
    <2>2. report' = [report EXCEPT ![k] = row]
      BY <1>1, <1>2
    <2> HIDE DEF row
    <2>3. /\ report' \in Seq(ReportType) /\ Len(report') = Len(report)
          /\ \A l \in 1..Len(report) : report'[l] = IF l = k THEN row ELSE report[l]
      BY <1>1, <1>2, <2>1, <2>2, ExceptSeq
    <2>4. \A l \in 1..Len(report') : /\ l \in 1..Len(report)
                                     /\ report'[l].metric = report[l].metric
                                     /\ report'[l].narrative = report[l].narrative
                                     /\ report'[l].quality = report[l].quality
                                     /\ report'[l].by = report[l].by
                                     /\ report'[l].text = report[l].text
                                     /\ report'[l].reviewed = report[l].reviewed
      BY <2>1, <2>3
    <2>5. ReportsGood'
      BY <2>3, <2>4 DEF IInv, Reports, ReportsGood, Runs
    <2>6. FrozenIsReviewedUnlessUndone'
      BY <2>4 DEF IInv, Reports, FrozenIsReviewedUnlessUndone
    <2>7. FrozenOnceUnlessCrossed'
      BY <2>4 DEF IInv, Reports, FrozenOnceUnlessCrossed, FrozenOnce
    <2> QED
      BY <2>5, <2>6, <2>7 DEF Reports
  <1>3. CASE k \notin 1..Len(report)
    <2>1. report' = report
      BY <1>1, <1>3
    <2>2. ReportsGood' /\ FrozenIsReviewedUnlessUndone'
      BY <2>1, ZenonT(40) DEF IInv, Reports, ReportsGood, FrozenIsReviewedUnlessUndone, Runs
    <2>3. FrozenOnceUnlessCrossed'
      BY <2>1 DEF IInv, Reports, FrozenOnceUnlessCrossed, FrozenOnce
    <2> QED
      BY <2>2, <2>3 DEF Reports
  <1> QED
    BY <1>2, <1>3

(* A report that is frozen; a second one of a narrative only by a member.  *)
LEMMA ReportFrozen ==
    ASSUME IInv, Freezable, run' = run, undone' = undone, crossed' = crossed,
           NEW by \in {"workflow", "member"},
           NEW docs \in {"none", "queued", "ready"}, report' = Frozen(by, docs),
           Len(report) < MaxReports,
           \/ by = "member"
           \/ crossed
           \/ ReportsOf(LatestApproved(Current(Approved(Narratives)))) = {}
    PROVE  Reports'
  <1> DEFINE n == LatestApproved(Current(Approved(Narratives)))
             q == LatestApproved(ReviewsOf(n))
             row == [metric |-> metric, narrative |-> n, text |-> run[n].draft.text,
                     quality |-> q, reviewed |-> run[q].draft.about, by |-> by, docs |-> docs]
  <1>1. Current(Approved(Narratives)) \in SUBSET Runs /\ ReviewsOf(n) \in SUBSET Runs
    BY DEF Current, Approved, Narratives, ReviewsOf, Reviews
  <1>2. n \in Current(Approved(Narratives)) /\ q \in ReviewsOf(n)
    BY <1>1, LatestExists DEF Freezable, IInv
  <1>3. /\ n \in Runs /\ run[n].status = "approved" /\ run[n].metric = metric
        /\ q \in Runs /\ run[q].status = "approved" /\ run[q].metric = metric
        /\ run[q].draft.bound = n /\ run[q].draft.verdict = "pass"
    BY <1>2 DEF Current, Approved, Narratives, ReviewsOf, Reviews, Freezable
  <1>4. report' = Append(report, row)
    BY DEF Frozen
  <1>5. /\ n \in 1..MaxRuns /\ q \in 1..MaxRuns /\ metric \in 1..MaxMetrics
        /\ run[n].draft.text \in 0..MaxTries /\ run[q].draft.about \in 0..MaxTries
    <2>1. run[n].draft \in DraftType /\ run[q].draft \in DraftType
      BY <1>3, RunFacts DEF IInv, Drafts, RunType
    <2> QED
      BY <1>3, <2>1, RunFacts, ConstantFacts DEF IInv, Drafts, RestGood, Freezable, DraftType
  <1>6. n \notin undone => run[n].draft.text = run[q].draft.about
    <2>1. Reads(n, run[q].draft.about) /\ n # 0
      BY <1>3, <1>5 DEF IInv, Drafts, ReadsGood
    <2> QED
      BY <2>1 DEF Reads
  <1>7. /\ \/ by = "member"
           \/ crossed
           \/ \A k \in 1..Len(report) : report[k].narrative # n
    BY DEF ReportsOf
  <1> HIDE DEF n, q
  <1>8. /\ row \in ReportType /\ row.metric = metric /\ row.narrative = n /\ row.quality = q
        /\ row.by = by /\ row.text = run[n].draft.text /\ row.reviewed = run[q].draft.about
    BY <1>5 DEF ReportType
  <1> HIDE DEF row
  <1>9. report \in Seq(ReportType) /\ Len(report) \in Nat
    BY ReportFacts DEF IInv, Reports, ReportsGood
  <1>10. /\ report' \in Seq(ReportType) /\ Len(report') = Len(report) + 1
         /\ \A k \in 1..Len(report) : report'[k] = report[k]
         /\ report'[Len(report) + 1] = row
    BY <1>4, <1>8, <1>9, AppendProperties
  <1>11. \A k \in 1..Len(report') : k \in 1..Len(report) \/ k = Len(report) + 1
    BY <1>9, <1>10
  <1>12. Runs' = Runs /\ Len(report') <= MaxReports
    BY <1>9, <1>10, ConstantFacts DEF Runs
  <1>13. ReportsGood'
    BY <1>3, <1>8, <1>10, <1>11, <1>12 DEF IInv, Reports, ReportsGood
  <1>14. FrozenIsReviewedUnlessUndone'
    BY <1>3, <1>6, <1>8, <1>10, <1>11 DEF IInv, Reports, FrozenIsReviewedUnlessUndone
  <1>15. FrozenOnceUnlessCrossed'
    <2> SUFFICES ASSUME ~crossed, NEW k \in 1..Len(report'), NEW l \in 1..Len(report'), k < l,
                        report'[l].by = "workflow"
                 PROVE  report'[k].narrative # report'[l].narrative
      BY DEF FrozenOnceUnlessCrossed, FrozenOnce
    <2>1. k \in 1..Len(report) /\ report'[k] = report[k]
      BY <1>9, <1>10, <1>11
    <2>2. CASE l \in 1..Len(report)
      BY <1>10, <2>1, <2>2 DEF IInv, Reports, FrozenOnceUnlessCrossed, FrozenOnce
    <2>3. CASE l = Len(report) + 1
      BY <1>7, <1>8, <1>10, <2>1, <2>3
    <2> QED
      BY <1>11, <2>2, <2>3
  <1> QED
    BY <1>13, <1>14, <1>15 DEF Reports

(* The newest approved narrative of the snapshot, which the workflow goes  *)
(* by, is the one approved last, which the freezing takes.                 *)
LEMMA NewestIsLatest ==
    ASSUME Drafts, ~crossed, Current(Approved(Narratives)) # {}
    PROVE  Newest(Current(Approved(Narratives))) = LatestApproved(Current(Approved(Narratives)))
  <1> DEFINE S == Current(Approved(Narratives))
             n == Newest(S)
             m == LatestApproved(S)
  <1>1. S \in SUBSET Runs /\ RunsGood
    BY DEF Current, Approved, Narratives, Drafts
  <1>2. n \in S /\ \A j \in S : j <= n
    BY <1>1, NewestExists
  <1>3. m \in S /\ \A j \in S : run[j].at <= run[m].at
    BY <1>1, LatestExists
  <1>4. /\ \A j \in S : /\ j \in Narratives /\ run[j].metric = metric
                        /\ run[j].status = "approved"
        /\ m \in Nat /\ n \in Nat /\ run[m].at \in Nat /\ run[n].at \in Nat
    <2>1. \A j \in Runs : j \in Nat /\ run[j].at \in Nat
      BY <1>1, RunFacts DEF RunType
    <2> QED
      BY <1>1, <1>2, <1>3, <2>1 DEF Current, Approved
  <1> HIDE DEF S, n, m
  <1>5. ASSUME m < n PROVE FALSE
    <2>1. run[m].at < run[n].at
      BY <1>2, <1>3, <1>4, <1>5 DEF Drafts, InTurn
    <2> QED
      BY <1>2, <1>3, <1>4, <2>1
  <1>6. n = m
    BY <1>2, <1>3, <1>4, <1>5
  <1> QED
    BY <1>6 DEF n, m, S

-----------------------------------------------------------------------------
(* What an attempt knows and may do. *)
LEMMA AttemptFacts ==
    ASSUME Drafts, NEW s \in attempt
    PROVE  /\ s \in AttemptType /\ s.run \in Runs /\ run[s.run] \in RunType
           /\ Underway(s.run) /\ Reads(s.bound, s.about)
  <1>1. s \in AttemptType /\ s.run \in Runs
    BY DEF Drafts, RunsGood, AttemptType
  <1>2. s \in Attempts(s.run)
    BY DEF Attempts
  <1> QED
    BY <1>1, <1>2, RunFacts DEF Underway, Drafts, ReadsGood

(* The attempts after a step that adds none, or only this one. *)
LEMMA AttemptMoves ==
    ASSUME Drafts, NEW s \in attempt, NEW pc \in {"working", "upset", "returning"}, AttemptTo(s, pc),
           NEW r \in attempt'
    PROVE  r \in attempt \/ (r \in AttemptType /\ r.run = s.run /\ Reads(r.bound, r.about))
  <1> DEFINE moved == [s EXCEPT !.pc = pc]
  <1>1. /\ moved \in AttemptType /\ moved.run = s.run
        /\ moved.bound = s.bound /\ moved.about = s.about
    BY AttemptFacts DEF AttemptType
  <1>2. r \in attempt \/ r = moved
    BY DEF AttemptTo
  <1> HIDE DEF moved
  <1>3. Reads(moved.bound, moved.about)
    BY <1>1, AttemptFacts
  <1> QED
    BY <1>1, <1>2, <1>3

LEMMA SubjectFacts ==
    ASSUME Drafts, NEW i \in Runs
    PROVE  /\ Subject(i) \in 0..MaxRuns
           /\ Subject(i) # 0 => Subject(i) \in Runs /\ run[Subject(i)].status = "approved"
  <1>1. Approved(Narratives) \in SUBSET Runs /\ RunsGood
    BY DEF Drafts, Approved, Narratives
  <1>2. CASE run[i].purpose = "quality" /\ Approved(Narratives) # {}
    <2>1. LatestApproved(Approved(Narratives)) \in Approved(Narratives)
      BY <1>1, <1>2, LatestExists
    <2>2. Subject(i) \in Approved(Narratives)
      BY <1>2, <2>1 DEF Subject
    <2> QED
      BY <1>1, <2>2, RunFacts, ConstantFacts DEF Approved
  <1>3. CASE ~(run[i].purpose = "quality" /\ Approved(Narratives) # {})
    BY <1>3, ConstantFacts DEF Subject
  <1> QED
    BY <1>2, <1>3

LEMMA NewAttemptFacts ==
    ASSUME Drafts, NEW i \in Runs, NEW pc \in {"working", "upset", "returning"},
           run[i].tries < MaxTries
    PROVE  /\ NewAttempt(i, pc) \in AttemptType /\ NewAttempt(i, pc).run = i
           /\ Reads(NewAttempt(i, pc).bound, NewAttempt(i, pc).about)
  <1> DEFINE n == Subject(i)
             about == IF n = 0 THEN 0 ELSE run[n].draft.text
             try == run[i].tries + 1
             new == [run |-> i, try |-> try, pc |-> pc, bound |-> n, about |-> about]
  <1>1. n \in 0..MaxRuns /\ (n # 0 => n \in Runs /\ run[n].status = "approved")
    BY SubjectFacts
  <1>2. NewAttempt(i, pc) = new
    BY DEF NewAttempt
  <1> HIDE DEF n
  <1>3. about \in 0..MaxTries
    <2>1. ASSUME n # 0 PROVE run[n].draft.text \in 0..MaxTries
      <3>1. run[n].draft \in DraftType
        BY <1>1, <2>1, RunFacts DEF Drafts, RunType
      <3> QED
        BY <3>1 DEF DraftType
    <2> QED
      BY <2>1, ConstantFacts
  <1>4. try \in 1..MaxTries
    <2>1. run[i].tries \in 0..MaxTries
      BY RunFacts DEF Drafts, RunType
    <2> QED
      BY <2>1, ConstantFacts
  <1>5. Reads(n, about)
    BY <1>1 DEF Reads
  <1> HIDE DEF about, try
  <1> QED
    BY <1>1, <1>2, <1>3, <1>4, <1>5 DEF AttemptType

LEMMA ClaimFacts ==
    ASSUME Drafts, NEW i \in Runs, run[i].tries < MaxTries
    PROVE  /\ Claimed(i) \in RunType /\ Claimed(i).purpose = run[i].purpose
           /\ Claimed(i).metric = run[i].metric /\ Claimed(i).at = run[i].at
           /\ Claimed(i).status = run[i].status /\ Claimed(i).draft = run[i].draft
  <1> DEFINE tries == run[i].tries + 1
             leased == [run[i] EXCEPT !.job = "leased"]
             row == [leased EXCEPT !.tries = tries]
  <1>1. run[i] \in RunType
    BY RunFacts DEF Drafts
  <1>2. tries \in 0..MaxTries
    BY <1>1, ConstantFacts DEF RunType
  <1>3. Claimed(i) = row
    BY <1>1, Zenon DEF Claimed, RunType
  <1> HIDE DEF tries
  <1>4. /\ leased \in RunType /\ leased.purpose = run[i].purpose
        /\ leased.metric = run[i].metric /\ leased.at = run[i].at
        /\ leased.status = run[i].status /\ leased.draft = run[i].draft
    BY <1>1 DEF RunType
  <1> HIDE DEF leased
  <1> QED
    BY <1>2, <1>3, <1>4 DEF RunType

(* The steps of one draft. *)
LEMMA DraftStep ==
    ASSUME IInv, NEW i \in Runs, NEW row, Touches(i, row), report' = report
    PROVE  Drafts' /\ Reports' /\ Kept
  <1>1. Drafts' /\ Kept
    BY RunWritten DEF IInv
  <1> QED
    BY <1>1, ReportsStay DEF Drafts

(* A step by an attempt that writes the row whatever its status.           *)
LEMMA WriteTouches ==
    ASSUME IInv, NEW i \in Runs, NEW row \in RunType, Write(i, row), Underway(i),
           row.purpose = run[i].purpose, row.metric = run[i].metric, row.at = run[i].at,
           row.status # "approved", Reads(row.draft.bound, row.draft.about),
           OnlyOf(i),
           UNCHANGED <<approvals, crossed, report>>
    PROVE  Drafts' /\ Reports' /\ Kept
  <1>1. run' = [run EXCEPT ![i] = row]
    BY DEF Write
  <1>2. undone' \in {undone, undone \cup {i}} /\ (run[i].status = "approved" => i \in undone')
    BY DEF Write
  <1>3. Touches(i, row)
    BY <1>1, <1>2 DEF Touches
  <1> QED
    BY <1>3, DraftStep

LEMMA BeginsStep ==
    ASSUME IInv, NEW i \in Runs, Underway(i), NEW others \in SUBSET attempt, Begins(i, others)
    PROVE  Drafts' /\ Reports' /\ Kept
  <1> DEFINE running == [Claimed(i) EXCEPT !.status = "running"]
             row == [running EXCEPT !.draft = NoDraft]
             new == NewAttempt(i, "working")
  <1>1. run[i].tries < MaxTries
    BY DEF Begins
  <1>2. /\ running \in RunType /\ running.status = "running" /\ running.purpose = run[i].purpose
        /\ running.metric = run[i].metric /\ running.at = run[i].at
    BY <1>1, ClaimFacts DEF IInv, RunType, Active
  <1>3. NoDraft \in DraftType /\ NoDraft.bound = 0
    BY ConstantFacts DEF NoDraft, DraftType
  <1>4. Write(i, row) /\ attempt' = others \cup {new} /\ UNCHANGED <<approvals, crossed, report>>
    BY Zenon DEF Begins, requests
  <1> HIDE DEF running
  <1>5. /\ row \in RunType /\ row.status = "running" /\ row.purpose = run[i].purpose
        /\ row.metric = run[i].metric /\ row.at = run[i].at /\ row.draft = NoDraft
    BY <1>2, <1>3 DEF RunType
  <1>6. new \in AttemptType /\ new.run = i /\ Reads(new.bound, new.about)
    BY <1>1, NewAttemptFacts DEF IInv
  <1> HIDE DEF row, new
  <1>7. Reads(row.draft.bound, row.draft.about)
    BY <1>3, <1>5 DEF Reads
  <1>8. OnlyOf(i)
    BY <1>4, <1>6 DEF OnlyOf
  <1> QED
    BY <1>4, <1>5, <1>7, <1>8, WriteTouches

LEMMA RefusedStep ==
    ASSUME IInv, NEW i \in Runs, DraftRefused(i)
    PROVE  Drafts' /\ Reports' /\ Kept
  <1> DEFINE row == Claimed(i)
             new == NewAttempt(i, "returning")
  <1>1. run[i].tries < MaxTries /\ Underway(i)
    BY DEF DraftRefused, Underway
  <1>2. /\ run' = [run EXCEPT ![i] = row] /\ attempt' = attempt \cup {new}
        /\ UNCHANGED <<approvals, undone, crossed, report>>
    BY DEF DraftRefused
  <1>3. /\ row \in RunType /\ row.status = run[i].status /\ row.purpose = run[i].purpose
        /\ row.metric = run[i].metric /\ row.at = run[i].at /\ row.draft = run[i].draft
    BY <1>1, ClaimFacts DEF IInv
  <1>4. new \in AttemptType /\ new.run = i /\ Reads(new.bound, new.about)
    BY <1>1, NewAttemptFacts DEF IInv
  <1> HIDE DEF row, new
  <1>5. Touches(i, row)
    BY <1>1, <1>2, <1>3, <1>4 DEF Touches, OnlyOf, IInv, Drafts, ReadsGood
  <1> QED
    BY <1>2, <1>5, DraftStep

LEMMA SubmittedFacts ==
    ASSUME Drafts, NEW s \in attempt, NEW verdict \in {"none", "pass", "blocked"}
    PROVE  LET row == Submitted(s, verdict) IN
           /\ row \in RunType /\ row.status = "awaiting_approval"
           /\ row.purpose = run[s.run].purpose /\ row.metric = run[s.run].metric
           /\ row.at = run[s.run].at /\ row.draft.bound = s.bound /\ row.draft.about = s.about
  <1> DEFINE draft == [text |-> s.try, bound |-> s.bound, about |-> s.about, verdict |-> verdict]
             waiting == [run[s.run] EXCEPT !.status = "awaiting_approval"]
             row == [waiting EXCEPT !.draft = draft]
  <1>1. draft \in DraftType /\ draft.bound = s.bound /\ draft.about = s.about
    BY AttemptFacts, ConstantFacts DEF AttemptType, DraftType
  <1>2. /\ waiting \in RunType /\ waiting.status = "awaiting_approval"
        /\ waiting.purpose = run[s.run].purpose /\ waiting.metric = run[s.run].metric
        /\ waiting.at = run[s.run].at
    BY AttemptFacts DEF RunType, Active
  <1>3. Submitted(s, verdict) = row
    BY Zenon DEF Submitted
  <1> HIDE DEF draft, waiting
  <1>4. /\ row \in RunType /\ row.status = waiting.status /\ row.purpose = waiting.purpose
        /\ row.metric = waiting.metric /\ row.at = waiting.at /\ row.draft = draft
    BY <1>1, <1>2 DEF RunType
  <1> HIDE DEF row
  <1> QED
    BY <1>1, <1>2, <1>3, <1>4

LEMMA ClosedFacts ==
    ASSUME NEW s, NEW row \in RunType
    PROVE  /\ Closed(s, row) \in RunType /\ Closed(s, row).status = row.status
           /\ Closed(s, row).purpose = row.purpose /\ Closed(s, row).metric = row.metric
           /\ Closed(s, row).at = row.at /\ Closed(s, row).draft = row.draft
  BY DEF Closed, RunType

LEMMA SubmittedStep ==
    ASSUME IInv, NEW s \in attempt, DraftSubmitted(s)
    PROVE  Drafts' /\ Reports' /\ Kept
  <1>1. PICK verdict \in {"none", "pass", "blocked"} :
          \/ Write(s.run, Closed(s, Submitted(s, verdict))) /\ attempt' = attempt \ {s}
          \/ Write(s.run, Submitted(s, verdict)) /\ AttemptTo(s, "upset")
    BY Zenon DEF DraftSubmitted
  <1> DEFINE submitted == Submitted(s, verdict)
             closed == Closed(s, submitted)
  <1>2. UNCHANGED <<approvals, crossed, report>>
    BY DEF DraftSubmitted
  <1>3. /\ submitted \in RunType /\ submitted.status = "awaiting_approval"
        /\ submitted.purpose = run[s.run].purpose /\ submitted.metric = run[s.run].metric
        /\ submitted.at = run[s.run].at
        /\ submitted.draft.bound = s.bound /\ submitted.draft.about = s.about
    BY SubmittedFacts DEF IInv
  <1>4. /\ s.run \in Runs /\ Underway(s.run) /\ Reads(s.bound, s.about)
    BY AttemptFacts DEF IInv
  <1>5. OnlyOf(s.run)
    <2>1. CASE attempt' = attempt \ {s}
      BY <2>1 DEF OnlyOf
    <2>2. CASE AttemptTo(s, "upset")
      BY <2>2, AttemptMoves DEF IInv, OnlyOf
    <2> QED
      BY <1>1, <2>1, <2>2
  <1> HIDE DEF submitted
  <1>6. /\ closed \in RunType /\ closed.status = submitted.status
        /\ closed.purpose = submitted.purpose /\ closed.metric = submitted.metric
        /\ closed.at = submitted.at /\ closed.draft = submitted.draft
    BY <1>3, ClosedFacts
  <1>7. Write(s.run, closed) \/ Write(s.run, submitted)
    BY <1>1 DEF submitted
  <1> HIDE DEF closed
  <1>8. CASE Write(s.run, closed)
    BY <1>2, <1>3, <1>4, <1>5, <1>6, <1>8, WriteTouches
  <1>9. CASE Write(s.run, submitted)
    BY <1>2, <1>3, <1>4, <1>5, <1>9, WriteTouches
  <1> QED
    BY <1>7, <1>8, <1>9

(* A write that only changes the status, the job and its tries. *)
SameButStatus(i, row) ==
    /\ row \in RunType /\ row.purpose = run[i].purpose /\ row.metric = run[i].metric
    /\ row.at = run[i].at /\ row.draft = run[i].draft

LEMMA RunsAre == ASSUME RunsGood, NEW i \in Runs PROVE run = [run EXCEPT ![i] = run[i]]
  BY RunFacts, LenProperties DEF RunsGood

LEMMA StatusStep ==
    ASSUME IInv, NEW i \in Runs, Underway(i), NEW row, SameButStatus(i, row),
           \/ row.status = run[i].status /\ run' = [run EXCEPT ![i] = row] /\ undone' = undone
           \/ /\ run[i].status # "approved" /\ row.status # "approved"
              /\ run' = [run EXCEPT ![i] = row] /\ undone' = undone
           \/ row.status # "approved" /\ Write(i, row),
           OnlyOf(i), UNCHANGED <<approvals, crossed, report>>
    PROVE  Drafts' /\ Reports' /\ Kept
  <1>1. run' = [run EXCEPT ![i] = row] /\ undone' \in {undone, undone \cup {i}}
    BY DEF Write
  <1>2. run[i].status = "approved" => i \in undone' \/ row.status = "approved"
    BY DEF Write
  <1>3. row.status = "approved" => run[i].status = "approved"
    OBVIOUS
  <1>4. Reads(row.draft.bound, row.draft.about)
    BY DEF IInv, Drafts, ReadsGood, SameButStatus
  <1>5. Touches(i, row)
    BY <1>1, <1>2, <1>3, <1>4, Zenon DEF Touches, SameButStatus
  <1> QED
    BY <1>5, DraftStep

LEMMA StatusFacts ==
    ASSUME Drafts, NEW i \in Runs, NEW status \in Active \cup {"approved", "rejected", "failed"}
    PROVE  LET row == [run[i] EXCEPT !.status = status] IN
           SameButStatus(i, row) /\ row.status = status
  BY RunFacts DEF Drafts, SameButStatus, RunType

LEMMA JobFacts ==
    ASSUME Drafts, NEW i \in Runs, NEW stated, SameButStatus(i, stated),
           NEW closing \in {"pending", "leased", "closed"}
    PROVE  LET row == [stated EXCEPT !.job = closing] IN
           SameButStatus(i, row) /\ row.status = stated.status
  BY DEF SameButStatus, RunType

LEMMA FailsStep ==
    ASSUME IInv, NEW s \in attempt, DraftFails(s)
    PROVE  Drafts' /\ Reports' /\ Kept
  <1> DEFINE row == [run[s.run] EXCEPT !.status = "failed"]
  <1>1. s.run \in Runs /\ Underway(s.run)
    BY AttemptFacts DEF IInv
  <1>2. OnlyOf(s.run)
    BY AttemptMoves DEF DraftFails, OnlyOf, IInv
  <1>3. UNCHANGED <<approvals, crossed, report>>
    BY DEF DraftFails
  <1>4. CASE Fails(s)
    <2>1. Write(s.run, row)
      BY <1>4 DEF Fails
    <2>2. SameButStatus(s.run, row) /\ row.status = "failed"
      BY <1>1, StatusFacts DEF IInv
    <2> HIDE DEF row
    <2> QED
      BY <1>1, <1>2, <1>3, <2>1, <2>2, StatusStep
  <1>5. CASE UNCHANGED <<run, undone>>
    <2>1. run' = [run EXCEPT ![s.run] = run[s.run]]
      BY <1>5, <1>1, RunsAre DEF IInv, Drafts
    <2>2. SameButStatus(s.run, run[s.run])
      BY <1>1, RunFacts DEF SameButStatus, IInv, Drafts
    <2> QED
      BY <1>1, <1>2, <1>3, <1>5, <2>1, <2>2, StatusStep
  <1> QED
    BY <1>4, <1>5, Zenon DEF DraftFails

LEMMA CompletedStep ==
    ASSUME IInv, NEW s \in attempt, DraftCompleted(s)
    PROVE  Drafts' /\ Reports' /\ Kept
  <1> DEFINE row == Closed(s, run[s.run])
  <1>1. s.run \in Runs /\ Underway(s.run) /\ run[s.run] \in RunType
    BY AttemptFacts DEF IInv
  <1>2. OnlyOf(s.run) /\ UNCHANGED <<approvals, undone, crossed, report>>
    BY DEF DraftCompleted, OnlyOf
  <1>3. run' = [run EXCEPT ![s.run] = row]
    BY DEF DraftCompleted
  <1>4. SameButStatus(s.run, row) /\ row.status = run[s.run].status
    BY <1>1, ClosedFacts DEF SameButStatus
  <1> HIDE DEF row
  <1> QED
    BY <1>1, <1>2, <1>3, <1>4, StatusStep

LEMMA ReturnsStep ==
    ASSUME IInv, NEW s \in attempt, DraftReturns(s)
    PROVE  Drafts' /\ Reports' /\ Kept
  <1>1. s.run \in Runs /\ Underway(s.run) /\ run[s.run] \in RunType
    BY AttemptFacts DEF IInv
  <1>2. OnlyOf(s.run) /\ UNCHANGED <<approvals, crossed, report>>
    BY DEF DraftReturns, OnlyOf
  <1>3. ASSUME NEW status \in Active \cup {"approved", "rejected", "failed"},
               NEW closing \in {"pending", "leased", "closed"}, status # "approved",
               Write(s.run, [run[s.run] EXCEPT !.status = status, !.job = closing])
        PROVE  Drafts' /\ Reports' /\ Kept
    <2> DEFINE stated == [run[s.run] EXCEPT !.status = status]
               row == [stated EXCEPT !.job = closing]
    <2>1. SameButStatus(s.run, stated) /\ stated.status = status
      BY <1>1, StatusFacts DEF IInv
    <2>2. Write(s.run, row)
      BY <1>3, Zenon
    <2> HIDE DEF stated
    <2>3. SameButStatus(s.run, row) /\ row.status = status
      BY <1>1, <2>1, JobFacts DEF IInv
    <2> HIDE DEF row
    <2> QED
      BY <1>1, <1>2, <1>3, <2>2, <2>3, StatusStep
  <1>4. CASE UNCHANGED <<run, undone>>
    <2>1. run' = [run EXCEPT ![s.run] = run[s.run]]
      BY <1>4, <1>1, RunsAre DEF IInv, Drafts
    <2>2. SameButStatus(s.run, run[s.run])
      BY <1>1 DEF SameButStatus
    <2> QED
      BY <1>1, <1>2, <1>4, <2>1, <2>2, StatusStep
  <1>5. /\ "queued" \in Active /\ "queued" # "approved" /\ "failed" # "approved"
    BY DEF Active
  <1>6. \/ Write(s.run, [run[s.run] EXCEPT !.status = "queued", !.job = "pending"])
        \/ Write(s.run, [run[s.run] EXCEPT !.status = "failed", !.job = "closed"])
        \/ UNCHANGED <<run, undone>>
    BY Zenon DEF DraftReturns
  <1> QED
    BY <1>3, <1>4, <1>5, <1>6, Zenon

LEMMA SweptStep ==
    ASSUME IInv, NEW i \in Runs, DraftSwept(i)
    PROVE  Drafts' /\ Reports' /\ Kept
  <1> DEFINE status == IF run[i].status \in {"queued", "running"} THEN "failed" ELSE run[i].status
             closed == [run[i] EXCEPT !.job = "closed"]
             row == [closed EXCEPT !.status = status]
  <1>1. run[i] \in RunType /\ Underway(i)
    BY RunFacts DEF IInv, Drafts, DraftSwept, Underway
  <1>2. run' = [run EXCEPT ![i] = row] /\ UNCHANGED <<approvals, undone, crossed, report>>
    BY Zenon DEF DraftSwept
  <1>3. OnlyOf(i)
    BY DEF DraftSwept, OnlyOf
  <1>4. /\ status \in Active \cup {"approved", "rejected", "failed"}
        /\ status = run[i].status \/ (run[i].status # "approved" /\ status # "approved")
    BY <1>1 DEF RunType
  <1> HIDE DEF status
  <1>5. SameButStatus(i, closed)
    BY <1>1 DEF SameButStatus, RunType
  <1> HIDE DEF closed
  <1>6. SameButStatus(i, row) /\ row.status = status
    BY <1>4, <1>5 DEF SameButStatus, RunType
  <1> HIDE DEF row
  <1> QED
    BY <1>1, <1>2, <1>3, <1>4, <1>6, StatusStep

LEMMA RejectStep ==
    ASSUME IInv, NEW i \in Runs, Reject(i)
    PROVE  Drafts' /\ Reports' /\ Kept
  <1> DEFINE row == [run[i] EXCEPT !.status = "rejected"]
  <1>1. /\ run' = [run EXCEPT ![i] = row] /\ run[i].status = "awaiting_approval"
        /\ UNCHANGED <<attempt, approvals, undone, crossed, report>>
    BY DEF Reject
  <1>2. Underway(i) /\ run[i].status # "approved" /\ OnlyOf(i)
    BY <1>1 DEF Underway, Active, OnlyOf
  <1>3. SameButStatus(i, row) /\ row.status = "rejected"
    BY StatusFacts DEF IInv
  <1> HIDE DEF row
  <1> QED
    BY <1>1, <1>2, <1>3, StatusStep

LEMMA DraftSteps ==
    ASSUME IInv, NEW i \in Runs,
           \/ DraftStarts(i) \/ DraftStartsAgain(i) \/ DraftRefused(i) \/ DraftSwept(i) \/ Reject(i)
    PROVE  Drafts' /\ Reports' /\ Kept
  <1>1. CASE DraftStarts(i) \/ DraftStartsAgain(i)
    <2>1. run[i].job # "closed" /\ \E others \in SUBSET attempt : Begins(i, others)
      BY <1>1, Zenon DEF DraftStarts, DraftStartsAgain
    <2> QED
      BY <2>1, BeginsStep DEF Underway
  <1> QED
    BY <1>1, RefusedStep, SweptStep, RejectStep

LEMMA AttemptSteps ==
    ASSUME IInv, NEW s \in attempt,
           DraftSubmitted(s) \/ DraftFails(s) \/ DraftCompleted(s) \/ DraftReturns(s)
    PROVE  Drafts' /\ Reports' /\ Kept
  BY SubmittedStep, FailsStep, CompletedStep, ReturnsStep

(* Steps that leave the drafts alone. *)
LEMMA RunsStay ==
    ASSUME Drafts, UNCHANGED <<drafts, crossed>>
    PROVE  Drafts' /\ Kept
  <1> USE DEF drafts
  <1>1. RunsGood' /\ Kept
    BY RunFacts DEF Drafts, RunsGood, Kept, Runs, AttemptType
  <1>2. Runs' = Runs /\ Approved(Runs)' = Approved(Runs) /\ Narratives' = Narratives
    BY DEF Runs, Approved, Narratives
  <1>3. Numbered'
    BY <1>2 DEF Drafts, Numbered
  <1>4. InTurn'
    BY <1>2 DEF Drafts, InTurn, Underway, Attempts
  <1>5. ReadsGood'
    BY <1>2 DEF Drafts, ReadsGood, Reads
  <1> QED
    BY <1>1, <1>3, <1>4, <1>5 DEF Drafts

LEMMA ApproveStep == ASSUME IInv, NEW i \in Runs, Approve(i) PROVE Drafts' /\ Reports' /\ Kept
  <1>1. UNCHANGED <<attempt, undone, report, crossed>>
    BY DEF Approve
  <1>2. Drafts' /\ Kept
    <2>1. CASE Decidable(i)
      <3> DEFINE approved == [run[i] EXCEPT !.status = "approved"]
                 at == approvals + 1
                 row == [approved EXCEPT !.at = at]
      <3>1. /\ SameButStatus(i, approved) /\ approved.status = "approved"
        BY StatusFacts DEF IInv
      <3>2. at \in Nat
        BY DEF IInv, Drafts, Numbered
      <3>3. run' = [run EXCEPT ![i] = row] /\ approvals' = at
        BY <2>1, Zenon DEF Approve
      <3>4. run[i].status = "awaiting_approval"
        BY <2>1 DEF Decidable
      <3> HIDE DEF approved
      <3>5. at = approvals + 1
        OBVIOUS
      <3> HIDE DEF at
      <3>6. /\ row \in RunType /\ row.purpose = run[i].purpose /\ row.metric = run[i].metric
            /\ row.draft = run[i].draft /\ row.status = "approved" /\ row.at = at
        BY <3>1, <3>2 DEF SameButStatus, RunType
      <3> HIDE DEF row
      <3> QED
        BY <1>1, <3>3, <3>4, <3>5, <3>6, RunApproved DEF IInv
    <2>2. CASE ~Decidable(i)
      BY <1>1, <2>2, RunsStay DEF Approve, IInv, drafts
    <2> QED
      BY <2>1, <2>2
  <1> QED
    BY <1>1, <1>2, ReportsStay DEF Drafts

LEMMA ReportSteps ==
    ASSUME IInv, UNCHANGED <<drafts, crossed>>,
           \/ report' = report
           \/ \E k : \E docs \in {"none", "queued", "ready"} : report' = [report EXCEPT ![k].docs = docs]
           \/ /\ Freezable /\ Len(report) < MaxReports
              /\ \/ report' = Frozen("member", "none")
                 \/ /\ \/ crossed
                       \/ ReportsOf(LatestApproved(Current(Approved(Narratives)))) = {}
                    /\ report' = Frozen("workflow", "queued")
    PROVE  Drafts' /\ Reports' /\ Kept
  <1>1. Drafts' /\ Kept
    BY RunsStay DEF IInv
  <1>2. Reports'
    BY <1>1, ReportsStay, DocsWritten, ReportFrozen DEF Drafts, drafts
  <1> QED
    BY <1>1, <1>2

LEMMA AddStep ==
    ASSUME IInv, NEW purpose \in Purposes, Enqueue(purpose),
           UNCHANGED <<attempt, approvals, undone, report>>
    PROVE  Drafts' /\ Reports' /\ Kept
  <1>1. Drafts' /\ Kept
    BY RunAdded DEF IInv
  <1> QED
    BY <1>1, ReportsStay DEF Drafts

LEMMA Documents == \A docs : Requested(docs) \in {"none", "queued", "ready"}
  BY DEF Requested

(* The steps of the workflow, whichever of them is due. *)
LEMMA DeliverStep ==
    ASSUME IInv, Current(Approved(Narratives)) # {},
           Deliver(Newest(Current(Approved(Narratives)))),
           UNCHANGED <<attempt, approvals, undone>>
    PROVE  Drafts' /\ Reports' /\ Kept
  <1> DEFINE n == Newest(Current(Approved(Narratives)))
  <1>1. crossed \/ n = LatestApproved(Current(Approved(Narratives)))
    BY NewestIsLatest DEF IInv
  <1> HIDE DEF n
  <1>2. Deliver(n)
    BY DEF n
  <1>3. UNCHANGED <<drafts, crossed>>
    BY <1>2 DEF Deliver, drafts
  <1>4. CASE ReportsOf(n) # {}
    <2> DEFINE k == Newest(ReportsOf(n))
               docs == Requested(report[k].docs)
    <2>1. report' = [report EXCEPT ![k].docs = docs] /\ docs \in {"none", "queued", "ready"}
      BY <1>2, <1>4, Documents DEF Deliver
    <2> HIDE DEF k, docs
    <2> QED
      BY <1>3, <2>1, ReportSteps
  <1>5. CASE ReportsOf(n) = {} /\ Freezable
    <2>1. Len(report) < MaxReports /\ report' = Frozen("workflow", "queued")
      BY <1>2, <1>5 DEF Deliver
    <2> QED
      BY <1>1, <1>3, <1>5, <2>1, ReportSteps
  <1>6. CASE ReportsOf(n) = {} /\ ~Freezable
    <2>1. report' = report
      BY <1>2, <1>6 DEF Deliver
    <2> QED
      BY <1>3, <2>1, ReportSteps
  <1> QED
    BY <1>4, <1>5, <1>6

LEMMA AdvanceStep ==
    ASSUME IInv, NEW retry \in BOOLEAN, NEW restart \in BOOLEAN, Advance(retry, restart)
    PROVE  Drafts' /\ Reports' /\ Kept
  <1> DEFINE n == Newest(Current(Approved(Narratives)))
  <1>1. \/ Keep
        \/ \E purpose \in Purposes : QueueDraft(purpose)
        \/ Current(Approved(Narratives)) # {} /\ Deliver(n)
    BY DEF Advance, ReviewSteps, Purposes
  <1>2. UNCHANGED <<attempt, approvals, undone>>
    BY DEF Advance
  <1>3. CASE Keep
    BY <1>2, <1>3, ReportSteps DEF Keep, drafts
  <1>4. CASE \E purpose \in Purposes : QueueDraft(purpose)
    BY <1>2, <1>4, AddStep DEF QueueDraft
  <1>5. CASE Current(Approved(Narratives)) # {} /\ Deliver(n)
    BY <1>2, <1>5, DeliverStep
  <1> QED
    BY <1>1, <1>3, <1>4, <1>5

-----------------------------------------------------------------------------
(* The rest of the types. *)
LEMMA RestStep == ASSUME IInv, [Next]_vars, Kept, RunsGood' PROVE RestGood'
  <1>1. Runs \subseteq Runs'
    BY RunFacts, LenProperties DEF IInv, Drafts, Kept, Runs, RunsGood
  <1>2. ASSUME Extra PROVE extras' \in 0..MaxExtras
    BY <1>2, ConstantFacts DEF Extra, IInv, RestGood
  <1>3. scheduled' \in BOOLEAN /\ metric' \in 0..MaxMetrics /\ measured' \in 0..MaxMetrics
    <2>1. CASE Measured \/ Reparse
      BY <2>1, ConstantFacts DEF Measured, Reparse, IInv, RestGood
    <2>2. CASE UNCHANGED <<scheduled, metric, measured>>
      BY <2>2 DEF IInv, RestGood
    <2> QED
      BY <2>1, <2>2 DEF Next, vars, measurement, requests, AskForDraft, DraftStarts,
         DraftStartsAgain, Begins, DraftRefused, DraftSwept, DraftSubmitted, DraftFails,
         DraftCompleted, DraftReturns, Reject, ApprovalReads, Approve, FreezeByHand,
         AskForDocuments, DocumentsArrive, Scan, Press, Continue, Advance, ContinuationLost
  <1>4. read' \subseteq Runs' /\ next' \in BOOLEAN /\ lost' \in BOOLEAN
    <2>1. CASE \E i \in Runs : ApprovalReads(i) \/ Approve(i)
      BY <1>1, <2>1 DEF ApprovalReads, Approve, IInv, RestGood
    <2>2. CASE read' = read /\ next' \in BOOLEAN /\ lost' \in BOOLEAN
      BY <1>1, <2>2 DEF IInv, RestGood
    <2> QED
      BY <2>1, <2>2 DEF Next, vars, measurement, requests, IInv, RestGood, Measured, Reparse,
         AskForDraft, DraftStarts, DraftStartsAgain, Begins, DraftRefused, DraftSwept,
         DraftSubmitted, DraftFails, DraftCompleted, DraftReturns, Reject, FreezeByHand,
         AskForDocuments, DocumentsArrive, Scan, Press, Continue, Advance, ContinuationLost
  <1>5. crossed' \in BOOLEAN
    <2>1. CASE \E purpose \in Purposes : Enqueue(purpose)
      BY <2>1 DEF Enqueue, IInv, RestGood
    <2>2. CASE crossed' = crossed
      BY <2>2 DEF IInv, RestGood
    <2>3. ASSUME NEW retry \in BOOLEAN, NEW restart \in BOOLEAN, Advance(retry, restart)
          PROVE  crossed' = crossed \/ \E purpose \in Purposes : Enqueue(purpose)
      BY <2>3 DEF Advance, ReviewSteps, Keep, QueueDraft, Deliver, Purposes
    <2> QED
      BY <2>1, <2>2, <2>3 DEF Next, vars, measurement, requests, Measured, Reparse, AskForDraft,
         DraftStarts, DraftStartsAgain, Begins, DraftRefused, DraftSwept, DraftSubmitted,
         DraftFails, DraftCompleted, DraftReturns, Reject, ApprovalReads, Approve, FreezeByHand,
         AskForDocuments, DocumentsArrive, Scan, Press, Continue, ContinuationLost
  <1>6. extras' \in 0..MaxExtras
    BY <1>2 DEF IInv, RestGood, Next, vars, measurement, requests, Measured, Reparse, AskForDraft,
       DraftStarts, DraftStartsAgain, Begins, DraftRefused, DraftSwept, DraftSubmitted,
       DraftFails, DraftCompleted, DraftReturns, Reject, ApprovalReads, Approve, FreezeByHand,
       AskForDocuments, DocumentsArrive, Scan, Press, Continue, Advance, ContinuationLost
  <1> QED
    BY <1>3, <1>4, <1>5, <1>6 DEF RestGood

LEMMA Initial == Init => IInv
  <1> SUFFICES ASSUME Init PROVE IInv
    OBVIOUS
  <1>1. run \in Seq(RunType) /\ Len(run) = 0 /\ report \in Seq(ReportType) /\ Len(report) = 0
    BY EmptySeq DEF Init
  <1>2. Runs = {}
    BY <1>1 DEF Runs
  <1>3. Drafts
    BY <1>1, <1>2, ConstantFacts DEF Init, Drafts, RunsGood, Numbered, InTurn, ReadsGood,
       Approved, Narratives
  <1>4. Reports
    BY <1>1, ConstantFacts DEF Reports, ReportsGood, FrozenIsReviewedUnlessUndone,
       FrozenOnceUnlessCrossed, FrozenOnce
  <1>5. RestGood
    <2>1. 0 \in 0..MaxMetrics /\ 0 \in 0..MaxExtras
      BY ConstantFacts
    <2> QED
      BY <2>1 DEF Init, RestGood
  <1> QED
    BY <1>3, <1>4, <1>5 DEF IInv

LEMMA Step == IInv /\ [Next]_vars => IInv'
  <1> SUFFICES ASSUME IInv, [Next]_vars PROVE IInv'
    OBVIOUS
  <1>1. Drafts' /\ Reports' /\ Kept
    <2>1. CASE Measured \/ Reparse \/ ContinuationLost \/ UNCHANGED vars
      BY <2>1, ReportSteps DEF Measured, Reparse, ContinuationLost, vars, drafts
    <2>2. CASE AskForDraft
      BY <2>2, AddStep DEF AskForDraft
    <2>3. ASSUME NEW i \in Runs, ApprovalReads(i) PROVE Drafts' /\ Reports' /\ Kept
      BY <2>3, ReportSteps DEF ApprovalReads
    <2>4. CASE FreezeByHand
      BY <2>4, ReportSteps DEF FreezeByHand
    <2>5. ASSUME NEW k \in 1..Len(report), AskForDocuments(k) \/ DocumentsArrive(k)
          PROVE  Drafts' /\ Reports' /\ Kept
      <3>1. PICK docs \in {"none", "queued", "ready"} : report' = [report EXCEPT ![k].docs = docs]
        BY <2>5, Documents DEF AskForDocuments, DocumentsArrive
      <3> QED
        BY <2>5, <3>1, ReportSteps DEF AskForDocuments, DocumentsArrive
    <2>6. CASE Scan \/ Press \/ Continue
      BY <2>6, AdvanceStep DEF Scan, Press, Continue
    <2> QED
      BY <2>1, <2>2, <2>3, <2>4, <2>5, <2>6, DraftSteps, AttemptSteps, ApproveStep DEF Next
  <1> QED
    BY <1>1, RestStep DEF IInv, Drafts

LEMMA Inductive == Spec => []IInv
  BY Initial, Step, PTL DEF Spec

(* Types, and with them: every approval has a number of its own, a draft   *)
(* is tried at most MaxTries times, and every report names drafts that     *)
(* exist.                                                                  *)
THEOREM TypeCorrect == Spec => []TypeOK
  <1>1. IInv => TypeOK
    <2> SUFFICES ASSUME IInv PROVE TypeOK
      OBVIOUS
    <2>1. \A i \in Runs : run[i] \in RunType
      BY RunFacts DEF IInv, Drafts
    <2>2. \A k \in 1..Len(report) : report[k] \in ReportType
      BY ReportFacts DEF IInv, Reports
    <2> QED
      BY <2>1, <2>2 DEF IInv, Drafts, RunsGood, Numbered, Reports, ReportsGood, RestGood, TypeOK
  <1> QED
    BY <1>1, Inductive, PTL

(* architecture.md:97: a report is frozen only from an approved narrative  *)
(* and an approved, passed review of that very narrative, both about the   *)
(* snapshot of the report.  As long as no attempt writes over the approval *)
(* of the narrative or of the review, they stay as they were frozen, and   *)
(* the review has read the very text that is in the report.                *)
THEOREM FrozenSafe == Spec => []FrozenIsReviewedUnlessUndone
  <1>1. IInv => FrozenIsReviewedUnlessUndone
    BY DEF IInv, Reports
  <1> QED
    BY <1>1, Inductive, PTL

(* operations.md:74: as long as no two narratives of one snapshot were     *)
(* under way at once, the workflow freezes no narrative that has a report, *)
(* whoever calls it how often, and however often drafts are executed and   *)
(* approved again.                                                         *)
THEOREM FrozenOnceSafe == Spec => []FrozenOnceUnlessCrossed
  <1>1. IInv => FrozenOnceUnlessCrossed
    BY DEF IInv, Reports
  <1> QED
    BY <1>1, Inductive, PTL

-----------------------------------------------------------------------------
(***************************************************************************)
(* The files of a report, module ReportDocuments: an instance, with its    *)
(* own state beside that of the workflow, so the assumption on its         *)
(* constants is a hypothesis here.  Objects and keys are only added.  So   *)
(* what a worker has seen or written still holds when it writes the next   *)
(* row, even if others took its lease in between and did the same: Steady  *)
(* says what its place implies.                                            *)
(***************************************************************************)
CONSTANTS Jobs, Procs, Members, None, MaxAttempts, MaxUpsets
VARIABLES stored, keys, job, slot, asking, beats, orphan, upsets

D == INSTANCE ReportDocuments

JobRow == [status : {None, "pending", "leased", "complete", "failed"},
           owner : Procs \cup {None}, live : BOOLEAN, attempts : 0..MaxAttempts]
SlotState == [pc : D!SlotPc, job : Jobs \cup {None}]

Files == stored \subseteq D!Kinds /\ keys \subseteq stored
JobsGood == job \in [Jobs -> JobRow]
SlotsGood == slot \in [Procs -> SlotState] /\ \A p \in Procs : slot[p].pc # "idle" => slot[p].job \in Jobs
QueueGood ==
    /\ D!DocumentsAssumption
    /\ asking \subseteq Members /\ beats \subseteq Procs \X Jobs /\ orphan \subseteq Jobs
    /\ upsets \in 0..MaxUpsets

Places(pc) ==
    /\ pc = "pdf_row" => "pdf" \in stored
    /\ pc \in {"word_look", "word_put", "word_row", "ending"} => "pdf" \in keys
    /\ pc = "word_row" => "word" \in stored
    /\ pc = "ending" => "word" \in keys

Steady == \A p \in Procs : Places(slot[p].pc)

DocumentsInv == Files /\ JobsGood /\ SlotsGood /\ QueueGood /\ Steady /\ D!CompleteIsReady

-----------------------------------------------------------------------------
LEMMA DocumentsFacts ==
    ASSUME D!DocumentsAssumption
    PROVE  /\ None \notin {"pending", "leased", "complete", "failed"}
           /\ MaxAttempts \in Nat /\ MaxAttempts # 0 /\ MaxUpsets \in Nat
  BY DEF D!DocumentsAssumption

LEMMA DocumentsInitial == D!DocumentsAssumption /\ D!Init => DocumentsInv
  <1> SUFFICES ASSUME D!DocumentsAssumption, D!Init PROVE DocumentsInv
    OBVIOUS
  <1>1. JobsGood /\ D!CompleteIsReady
    BY DocumentsFacts DEF D!Init, JobsGood, JobRow, D!CompleteIsReady
  <1>2. SlotsGood /\ Steady
    BY DEF D!Init, SlotsGood, SlotState, D!SlotPc, D!IdleSlot, Steady, Places
  <1>3. Files /\ QueueGood
    BY DocumentsFacts DEF D!Init, Files, QueueGood
  <1> QED
    BY <1>1, <1>2, <1>3 DEF DocumentsInv

LEMMA UpsetCounts == ASSUME QueueGood, D!Upset PROVE upsets' \in 0..MaxUpsets
  BY DocumentsFacts DEF QueueGood, D!Upset

(* Files are only added: what the other workers know stays true.           *)
LEMMA SlotGoesOn ==
    ASSUME DocumentsInv, NEW p \in Procs, NEW s \in SlotState, slot' = [slot EXCEPT ![p] = s],
           stored \subseteq stored', keys \subseteq keys',
           s.pc # "idle" => s.job \in Jobs, Places(s.pc)'
    PROVE  SlotsGood' /\ Steady'
  <1>1. slot' \in [Procs -> SlotState] /\ slot'[p] = s /\ \A q \in Procs \ {p} : slot'[q] = slot[q]
    BY DEF DocumentsInv, SlotsGood
  <1>2. SlotsGood'
    BY <1>1 DEF DocumentsInv, SlotsGood
  <1>3. ASSUME NEW q \in Procs PROVE Places(slot[q].pc)'
    <2>1. CASE q = p
      BY <1>1, <2>1 DEF Places
    <2>2. CASE q # p
      BY <1>1, <2>2 DEF DocumentsInv, Steady, Places
    <2> QED
      BY <2>1, <2>2
  <1> QED
    BY <1>2, <1>3 DEF Steady

(* A worker that leaves its job, and one that only moves. *)
LEMMA Leaves ==
    ASSUME DocumentsInv, NEW p \in Procs, slot' = [slot EXCEPT ![p] = D!IdleSlot], UNCHANGED D!files
    PROVE  SlotsGood' /\ Steady'
  <1>1. D!IdleSlot \in SlotState /\ D!IdleSlot.pc = "idle"
    BY DEF D!IdleSlot, SlotState, D!SlotPc
  <1>2. Places(D!IdleSlot.pc)'
    BY <1>1 DEF Places
  <1> QED
    BY <1>1, <1>2, SlotGoesOn DEF D!files

LEMMA MovesTo ==
    ASSUME DocumentsInv, NEW p \in Procs, NEW pc \in D!SlotPc, slot[p].pc # "idle", D!SlotAt(p, pc),
           stored \subseteq stored', keys \subseteq keys', Places(pc)'
    PROVE  SlotsGood' /\ Steady'
  <1> DEFINE s == [slot[p] EXCEPT !.pc = pc]
  <1>1. s \in SlotState /\ s.pc = pc /\ s.job \in Jobs
    BY DEF DocumentsInv, SlotsGood, SlotState
  <1>2. slot' = [slot EXCEPT ![p] = s]
    BY DEF D!SlotAt
  <1> HIDE DEF s
  <1> QED
    BY <1>1, <1>2, SlotGoesOn

(* The steps of a worker that only move it, or add a file.                 *)
LEMMA FileSteps ==
    ASSUME DocumentsInv, NEW p \in Procs, NEW pc \in D!SlotPc, slot[p].pc # "idle", D!SlotAt(p, pc),
           stored \subseteq stored', keys \subseteq keys', Files', Places(pc)',
           upsets' \in 0..MaxUpsets, UNCHANGED <<job, asking, beats, orphan>>
    PROVE  DocumentsInv'
  <1>1. SlotsGood' /\ Steady'
    BY MovesTo
  <1>2. D!CompleteIsReady'
    BY DEF DocumentsInv, Files, D!CompleteIsReady, D!Ready
  <1> QED
    BY <1>1, <1>2 DEF DocumentsInv, JobsGood, QueueGood

LEMMA MoveSteps ==
    ASSUME DocumentsInv, NEW p \in Procs, D!Context(p) \/ D!LookPdf(p) \/ D!LookWord(p) PROVE DocumentsInv'
  <1>1. PICK pc \in {"pdf_look", "pdf_row", "pdf_put", "word_row", "word_put"} :
          /\ D!SlotAt(p, pc) /\ Places(pc)
    BY DEF D!Context, D!LookPdf, D!LookWord, DocumentsInv, Steady, Places
  <1>2. slot[p].pc # "idle" /\ UNCHANGED <<D!files, job, asking, beats, orphan, upsets>>
    BY DEF D!Context, D!LookPdf, D!LookWord
  <1>3. Files' /\ Places(pc)' /\ upsets' \in 0..MaxUpsets
    BY <1>1, <1>2 DEF D!files, DocumentsInv, Files, Places, QueueGood
  <1> QED
    BY <1>1, <1>2, <1>3, FileSteps DEF D!files, D!SlotPc

LEMMA PutSteps == ASSUME DocumentsInv, NEW p \in Procs, D!PutPdf(p) \/ D!PutWord(p) PROVE DocumentsInv'
  <1>1. PICK pc \in {"failing", "pdf_row", "word_row"} :
          /\ D!SlotAt(p, pc) /\ Places(pc)' /\ slot[p].pc # "idle"
    BY DEF D!PutPdf, D!PutWord, D!Put, DocumentsInv, Steady, Places
  <1>2. Files' /\ stored \subseteq stored' /\ keys' = keys /\ upsets' \in 0..MaxUpsets
        /\ UNCHANGED <<job, asking, beats, orphan>>
    BY DEF D!PutPdf, D!PutWord, D!Put, DocumentsInv, Files, D!Kinds, QueueGood
  <1> QED
    BY <1>1, <1>2, FileSteps DEF D!SlotPc

LEMMA RowSteps == ASSUME DocumentsInv, NEW p \in Procs, D!RowPdf(p) \/ D!RowWord(p) PROVE DocumentsInv'
  <1>1. PICK pc \in {"word_look", "ending"} : D!SlotAt(p, pc) /\ Places(pc)' /\ slot[p].pc # "idle"
    BY DEF D!RowPdf, D!RowWord, D!Row, DocumentsInv, Steady, Places
  <1>2. Files' /\ stored' = stored /\ keys \subseteq keys' /\ upsets' \in 0..MaxUpsets
        /\ UNCHANGED <<job, asking, beats, orphan>>
    BY DEF D!RowPdf, D!RowWord, D!Row, DocumentsInv, Steady, Places, Files, D!Kinds, QueueGood
  <1> QED
    BY <1>1, <1>2, FileSteps DEF D!SlotPc

(* A job is only called complete by a worker that has written both rows.   *)
LEMMA EndSteps == ASSUME DocumentsInv, NEW p \in Procs, D!Complete(p) \/ D!Fail(p) PROVE DocumentsInv'
  <1>1. PICK status \in {"complete", "failed", "pending"} :
          D!EndJob(p, status) /\ (status = "complete" => slot[p].pc = "ending") /\ slot[p].pc # "idle"
    BY DEF D!Complete, D!Fail
  <1> DEFINE j == slot[p].job
  <1>2. j \in Jobs /\ job[j] \in JobRow
    BY <1>1 DEF DocumentsInv, SlotsGood, JobsGood
  <1>3. JobsGood' /\ \A k \in Jobs : job'[k].status \in {job[k].status, status}
    BY <1>1, <1>2 DEF D!EndJob, DocumentsInv, JobsGood, JobRow
  <1>4. status = "complete" => D!Ready
    BY <1>1 DEF DocumentsInv, Steady, Places, Files, D!Ready, D!Kinds
  <1>5. D!CompleteIsReady'
    BY <1>1, <1>3, <1>4 DEF D!EndJob, D!files, DocumentsInv, D!CompleteIsReady, D!Ready
  <1>6. SlotsGood' /\ Steady'
    BY <1>1, Leaves DEF D!EndJob
  <1>7. QueueGood' /\ Files'
    BY <1>1 DEF D!EndJob, D!files, DocumentsInv, QueueGood, Files
  <1> QED
    BY <1>3, <1>5, <1>6, <1>7 DEF DocumentsInv

LEMMA ClaimStep == ASSUME DocumentsInv, NEW p \in Procs, D!Claim(p) PROVE DocumentsInv'
  <1>1. PICK j \in Jobs :
          /\ job[j].attempts < MaxAttempts
          /\ job' = [job EXCEPT ![j] = [status |-> "leased", owner |-> p, live |-> TRUE,
                                         attempts |-> job[j].attempts + 1]]
          /\ slot' = [slot EXCEPT ![p] = [pc |-> "context", job |-> j]]
          /\ beats' = beats \cup {<<p, j>>}
    BY DEF D!Claim, D!Claimable, DocumentsInv, JobsGood
  <1>2. job[j].attempts + 1 \in 0..MaxAttempts
    BY <1>1, DocumentsFacts DEF DocumentsInv, QueueGood, JobsGood, JobRow
  <1>3. [status |-> "leased", owner |-> p, live |-> TRUE, attempts |-> job[j].attempts + 1] \in JobRow
    BY <1>2 DEF JobRow
  <1>4. JobsGood' /\ \A k \in Jobs : job'[k].status = "complete" => job[k].status = "complete"
    BY <1>1, <1>3 DEF DocumentsInv, JobsGood
  <1>5. D!CompleteIsReady'
    BY <1>4 DEF D!Claim, D!files, DocumentsInv, D!CompleteIsReady, D!Ready
  <1>6. SlotsGood' /\ Steady'
    <2> DEFINE s == [pc |-> "context", job |-> j]
    <2>1. s \in SlotState /\ s.pc = "context" /\ s.job = j
      BY DEF SlotState, D!SlotPc
    <2>2. Places(s.pc)'
      BY <2>1 DEF Places
    <2>3. stored \subseteq stored' /\ keys \subseteq keys' /\ slot' = [slot EXCEPT ![p] = s]
      BY <1>1 DEF D!Claim, D!files
    <2> HIDE DEF s
    <2> QED
      BY <2>1, <2>2, <2>3, SlotGoesOn
  <1> QED
    BY <1>1, <1>4, <1>5, <1>6 DEF D!Claim, D!files, DocumentsInv, QueueGood, Files

-----------------------------------------------------------------------------
(* Steps that leave the workers and the files where they are. *)
LEMMA JobsOnly ==
    ASSUME DocumentsInv, JobsGood', QueueGood', UNCHANGED <<D!files, slot>>,
           \A k \in Jobs : job'[k].status = "complete" => job[k].status = "complete"
    PROVE  DocumentsInv'
  BY DEF D!files, DocumentsInv, Files, SlotsGood, Steady, Places, D!CompleteIsReady, D!Ready

LEMMA SweptGood == ASSUME DocumentsInv, job' = D!Swept
    PROVE JobsGood' /\ \A k \in Jobs : job'[k].status = "complete" => job[k].status = "complete"
  BY DEF D!Swept, DocumentsInv, JobsGood, JobRow

LEMMA RequestSteps == ASSUME DocumentsInv, NEW m \in Members, D!Ask(m) \/ D!Insert(m) PROVE DocumentsInv'
  <1>1. CASE D!Ask(m)
    <2>1. asking' \subseteq Members
      BY <1>1 DEF D!Ask, DocumentsInv, QueueGood
    <2> QED
      BY <1>1, <2>1, SweptGood, JobsOnly DEF D!Ask, DocumentsInv, QueueGood
  <1>2. CASE D!Insert(m)
    <2>1. JobsGood' /\ \A k \in Jobs : job'[k].status = "complete" => job[k].status = "complete"
      BY <1>2 DEF D!Insert, DocumentsInv, JobsGood, JobRow
    <2> QED
      BY <1>2, <2>1, JobsOnly DEF D!Insert, DocumentsInv, QueueGood
  <1> QED
    BY <1>1, <1>2

LEMMA LeaseSteps ==
    ASSUME DocumentsInv, \/ \E p \in Procs : D!Sweep(p) \/ D!Renew(p) \/ D!Stall(p)
                 \/ \E j \in Jobs : D!LeaseExpires(j)
    PROVE  DocumentsInv'
  <1>1. JobsGood' /\ \A k \in Jobs : job'[k].status = "complete" => job[k].status = "complete"
    <2>1. CASE job' = D!Swept
      BY <2>1, SweptGood
    <2>2. CASE \E j \in Jobs, live \in BOOLEAN : job' = [job EXCEPT ![j].live = live]
      BY <2>2 DEF DocumentsInv, JobsGood, JobRow
    <2> QED
      BY <2>1, <2>2 DEF D!Sweep, D!Renew, D!Stall, D!LeaseExpires
  <1>2. QueueGood'
    BY UpsetCounts DEF D!Sweep, D!Renew, D!Stall, D!LeaseExpires, DocumentsInv, QueueGood
  <1> QED
    BY <1>1, <1>2, JobsOnly DEF D!Sweep, D!Renew, D!Stall, D!LeaseExpires

(* Faults: a worker leaves or goes to its catch block. *)
LEMMA FaultSteps ==
    ASSUME DocumentsInv, NEW p \in Procs, D!ContextFails(p) \/ D!Throws(p) \/ D!FailFails(p) \/ D!Crash(p)
    PROVE  DocumentsInv'
  <1>1. upsets' \in 0..MaxUpsets
    BY UpsetCounts DEF D!ContextFails, D!Throws, D!FailFails, D!Crash, DocumentsInv
  <1>2. CASE D!Throws(p)
    <2>1. Places("failing")' /\ Files'
      BY <1>2 DEF D!Throws, D!files, DocumentsInv, Files, Places
    <2> QED
      BY <1>1, <1>2, <2>1, FileSteps DEF D!Throws, D!files, D!SlotPc
  <1>3. CASE D!ContextFails(p) \/ D!FailFails(p) \/ D!Crash(p)
    <2>1. SlotsGood' /\ Steady'
      BY <1>3, Leaves DEF D!ContextFails, D!FailFails, D!Crash
    <2>2. orphan' \subseteq Jobs /\ beats' \subseteq Procs \X Jobs
      BY <1>3 DEF D!ContextFails, D!FailFails, D!Crash, DocumentsInv, SlotsGood, QueueGood
    <2>3. UNCHANGED <<D!files, job, asking>>
      BY <1>3 DEF D!ContextFails, D!FailFails, D!Crash
    <2> QED
      BY <1>1, <2>1, <2>2, <2>3 DEF D!files, DocumentsInv, Files, JobsGood, QueueGood,
         D!CompleteIsReady, D!Ready
  <1> QED
    BY <1>2, <1>3

-----------------------------------------------------------------------------
LEMMA DocumentsStep == DocumentsInv /\ [D!Next]_(D!vars) => DocumentsInv'
  <1> SUFFICES ASSUME DocumentsInv, [D!Next]_(D!vars) PROVE DocumentsInv'
    OBVIOUS
  <1>1. ASSUME NEW p \in Procs, D!Works(p) PROVE DocumentsInv'
    BY <1>1, ClaimStep, MoveSteps, PutSteps, RowSteps, EndSteps DEF D!Works, D!Attempt
  <1>2. CASE UNCHANGED D!vars
    BY <1>2 DEF D!vars, DocumentsInv, Files, JobsGood, SlotsGood, QueueGood, Steady, Places,
       D!CompleteIsReady, D!Ready
  <1> QED
    BY <1>1, <1>2, RequestSteps, LeaseSteps, FaultSteps DEF D!Next

LEMMA DocumentsInductive == D!DocumentsAssumption /\ D!Spec => []DocumentsInv
  BY DocumentsInitial, DocumentsStep, PTL DEF D!Spec

(* Types; a key of the row is only set when the object is there.           *)
THEOREM DocumentsTypeCorrect == D!DocumentsAssumption /\ D!Spec => []D!TypeOK
  <1>1. DocumentsInv => D!TypeOK
    BY DEF DocumentsInv, Files, JobsGood, SlotsGood, QueueGood, JobRow, SlotState, D!TypeOK
  <1> QED
    BY <1>1, DocumentsInductive, PTL

(* runOneReportJob: a job that says complete left both files behind,       *)
(* whoever took its lease meanwhile.                                       *)
THEOREM CompleteSafe == D!DocumentsAssumption /\ D!Spec => []D!CompleteIsReady
  <1>1. DocumentsInv => D!CompleteIsReady
    BY DEF DocumentsInv
  <1> QED
    BY <1>1, DocumentsInductive, PTL
=============================================================================
