--------------------------- MODULE ReportWorkflow ---------------------------
(***************************************************************************)
(* From a measured batch to a frozen report: the drafts of the narrative   *)
(* and of its quality review, their approvals by members, and the workflow *)
(* that takes the next step each time it is called.                        *)
(*   apps/worker/src/report-snapshots.ts  advanceReportWorkflow,           *)
(*     createReportSnapshot, requestReportPdf, queueScheduledReportSnapshots *)
(*   apps/worker/src/approval-workflow.ts the call after an approval       *)
(*   apps/worker/src/agent.ts             enqueueAgentDraft,               *)
(*     executeAgentDraft, approveAgentRun, rejectAgentRun                  *)
(*   apps/worker/src/agent-jobs.ts        the jobs of the drafts           *)
(*   apps/worker/src/index.ts             the routes of the members        *)
(* One batch, not a retest.  The workflow and an approval hold the row of  *)
(* the batch, so each is one step; what an approval reads before it, and   *)
(* drafts queued or run meanwhile, are not under that lock.                *)
(* The worker names a draft by its id only: what an attempt writes, it     *)
(* writes over whatever became of the draft, so a draft whose worker died  *)
(* between submitting it and completing its job is executed again, also    *)
(* after it was approved or frozen.  Every attempt acts on its own here;   *)
(* module DraftRuns has the slots and statements of the workers,           *)
(* ReportDocuments the lease protocol of the documents.                    *)
(***************************************************************************)
EXTENDS Naturals, Sequences, FiniteSets

CONSTANTS MaxMetrics,  \* snapshots of the batch
          MaxRuns,     \* drafts
          MaxReports,  \* frozen reports
          MaxTries,    \* jobs.max_attempts, 2 for drafts
          MaxExtras    \* attempts and requests that fail or die, and what members
                       \* ask for beside the workflow, together

ASSUME WorkflowAssumption ==
    /\ {MaxMetrics, MaxRuns, MaxReports, MaxTries} \subseteq Nat \ {0}
    /\ MaxExtras \in Nat

VARIABLES
    scheduled,  \* the batch is the last one of its project's schedule
    metric,     \* current_metric_id of the latest parse run, 0 while it has none
    measured,   \* snapshots made so far
    run,        \* agent_runs in the order of created_at, each with its job
    attempt,    \* the attempts that are being executed, also those that lost their lease
    approvals,  \* approvals so far: approved_at
    read,       \* runs whose approval has read the row and the latest narrative
    next,       \* an approval is committed and its request still calls the workflow
    report,     \* report_snapshots in the order of created_at
    crossed,    \* history: two narratives of one snapshot were under way at once
    undone,     \* history: drafts whose approval an attempt of theirs wrote over
    lost,       \* history: a request died between its approval and the workflow
    extras

vars == <<scheduled, metric, measured, run, attempt, approvals, read, next, report,
          crossed, undone, lost, extras>>
measurement == <<scheduled, metric, measured>>
drafts == <<run, attempt, approvals, undone>>
requests == <<read, next, lost>>

Purposes == {"narrative", "quality"}
Active == {"queued", "running", "awaiting_approval"}
Runs == 1..Len(run)
Newest(S) == CHOOSE i \in S : \A j \in S : j <= i

LatestApproved(S) == CHOOSE i \in S : \A j \in S : run[j].at <= run[i].at

Narratives == {i \in Runs : run[i].purpose = "narrative"}
Approved(S) == {i \in S : run[i].status = "approved"}

(* The text of a draft is named after its attempt; a review also has the   *)
(* narrative and the text of it that it is about.                          *)
NoDraft == [text |-> 0, bound |-> 0, about |-> 0, verdict |-> "none"]

(* A draft is over when it is decided or failed, its job is closed, and no *)
(* attempt is left that could still write it.                              *)
Attempts(i) == {s \in attempt : s.run = i}
Underway(i) == run[i].status \in Active \/ run[i].job # "closed" \/ Attempts(i) # {}

Init ==
    /\ scheduled \in BOOLEAN
    /\ metric = 0 /\ measured = 0
    /\ run = <<>> /\ attempt = {} /\ approvals = 0
    /\ report = <<>>
    /\ read = {} /\ next = FALSE
    /\ crossed = FALSE /\ undone = {} /\ lost = FALSE
    /\ extras = 0

Extra == extras < MaxExtras /\ extras' = extras + 1

-----------------------------------------------------------------------------
(* The measurement, as module Measurement leaves it. *)

Measured ==
    /\ metric = 0 /\ measured < MaxMetrics
    /\ measured' = measured + 1 /\ metric' = measured + 1
    /\ UNCHANGED <<scheduled, drafts, requests, report, crossed, extras>>

Reparse ==
    /\ metric # 0 /\ measured < MaxMetrics
    /\ metric' = 0
    /\ UNCHANGED <<scheduled, measured, drafts, requests, report, crossed, extras>>

-----------------------------------------------------------------------------
(* Drafts. *)

Enqueued(purpose) == Append(run,
    [purpose |-> purpose, metric |-> metric, status |-> "queued", job |-> "pending", tries |-> 0,
     draft |-> NoDraft, since |-> approvals, at |-> 0])

Crosses(purpose) ==
    purpose = "narrative" /\ \E i \in Narratives : run[i].metric = metric /\ Underway(i)

(* The INSERT of enqueueAgentDraft; a review needs an approved narrative.  *)
Enqueue(purpose) ==
    /\ metric # 0 /\ Len(run) < MaxRuns
    /\ purpose = "quality" => Approved(Narratives) # {}
    /\ run' = Enqueued(purpose)
    /\ crossed' = (crossed \/ Crosses(purpose))

(* A member or an assistant asks for a draft, whatever is under way.       *)
AskForDraft ==
    /\ Extra
    /\ \E purpose \in Purposes : Enqueue(purpose)
    /\ UNCHANGED <<measurement, attempt, approvals, undone, requests, report>>

(* Every write of a draft by its worker: by its id, whatever its status.   *)
Write(i, row) ==
    /\ run' = [run EXCEPT ![i] = row]
    /\ undone' = IF run[i].status = "approved" THEN undone \cup {i} ELSE undone

Claimed(i) == [run[i] EXCEPT !.job = "leased", !.tries = @ + 1]

(* A review is given the narrative of the batch approved last, of any      *)
(* snapshot, and its text; without one it fails.                           *)
Subject(i) == IF run[i].purpose = "quality" /\ Approved(Narratives) # {}
              THEN LatestApproved(Approved(Narratives)) ELSE 0
NewAttempt(i, pc) ==
    [run |-> i, try |-> run[i].tries + 1, pc |-> pc, bound |-> Subject(i),
     about |-> IF Subject(i) = 0 THEN 0 ELSE run[Subject(i)].draft.text]

(* The claim, the UPDATE to running, and what the review reads after it.   *)
Begins(i, others) ==
    /\ run[i].tries < MaxTries
    /\ Write(i, [Claimed(i) EXCEPT !.status = "running", !.draft = NoDraft])
    /\ attempt' = others \cup {NewAttempt(i, "working")}
    /\ UNCHANGED <<measurement, approvals, requests, report, crossed>>

DraftStarts(i) == run[i].job = "pending" /\ Begins(i, attempt) /\ UNCHANGED extras

(* The lease ran out: the worker died, or it stalls and will go on.        *)
DraftStartsAgain(i) ==
    /\ run[i].job = "leased"
    /\ IF \E s \in Attempts(i) : s.pc = "upset" THEN UNCHANGED extras ELSE Extra
    /\ Begins(i, attempt) \/ Begins(i, attempt \ Attempts(i))

(* Authorization or configuration: it ends before the run is touched.      *)
DraftRefused(i) ==
    /\ Extra
    /\ run[i].job # "closed" /\ run[i].tries < MaxTries
    /\ run' = [run EXCEPT ![i] = Claimed(i)]
    /\ attempt' = attempt \cup {NewAttempt(i, "returning")}
    /\ UNCHANGED <<measurement, approvals, undone, requests, report, crossed>>

AttemptTo(s, pc) == attempt' = (attempt \ {s}) \cup {[s EXCEPT !.pc = pc]}
IsReview(s) == run[s.run].purpose = "quality"
Pointless(s) == IsReview(s) /\ s.bound = 0
Fails(s) == Write(s.run, [run[s.run] EXCEPT !.status = "failed"])

Owns(s) == run[s.run].job = "leased" /\ run[s.run].tries = s.try

Closed(s, row) == IF Owns(s) THEN [row EXCEPT !.job = "closed"] ELSE row

Submitted(s, verdict) == [run[s.run] EXCEPT !.status = "awaiting_approval",
    !.draft = [text |-> s.try, bound |-> s.bound, about |-> s.about, verdict |-> verdict]]

(* The draft, its cost and the completion of the job are three statements: *)
(* an upset may come after the first, with the job still leased.           *)
DraftSubmitted(s) ==
    /\ s.pc = "working"
    /\ ~Pointless(s)
    /\ \E verdict \in IF IsReview(s) THEN {"pass", "blocked"} ELSE {"none"} :
         \/ /\ Write(s.run, Closed(s, Submitted(s, verdict)))
            /\ attempt' = attempt \ {s} /\ UNCHANGED extras
         \/ Extra /\ Write(s.run, Submitted(s, verdict)) /\ AttemptTo(s, "upset")
    /\ UNCHANGED <<measurement, approvals, requests, report, crossed>>

(* Something throws: before the draft is submitted, when its cost is       *)
(* recorded, or when the job is completed, which does not fail the run.    *)
DraftFails(s) ==
    /\ \/ s.pc = "working" /\ Fails(s) /\ IF Pointless(s) THEN UNCHANGED extras ELSE Extra
       \/ s.pc = "upset" /\ Fails(s) /\ UNCHANGED extras
       \/ s.pc = "upset" /\ UNCHANGED <<run, undone, extras>>
    /\ AttemptTo(s, "returning")
    /\ UNCHANGED <<measurement, approvals, requests, report, crossed>>

(* The attempt only stalled. *)
DraftCompleted(s) ==
    /\ s.pc = "upset"
    /\ run' = [run EXCEPT ![s.run] = Closed(s, @)]
    /\ attempt' = attempt \ {s}
    /\ UNCHANGED <<measurement, approvals, undone, requests, report, crossed, extras>>

(* The queue gives the draft back, or gives it up: after the last attempt  *)
(* or a denial.                                                            *)
DraftReturns(s) ==
    /\ s.pc = "returning"
    /\ IF Owns(s)
       THEN \/ /\ s.try < MaxTries
               /\ Write(s.run, [run[s.run] EXCEPT !.status = "queued", !.job = "pending"])
            \/ Write(s.run, [run[s.run] EXCEPT !.status = "failed", !.job = "closed"])
       ELSE UNCHANGED <<run, undone>>
    /\ attempt' = attempt \ {s}
    /\ UNCHANGED <<measurement, approvals, requests, report, crossed, extras>>

(* The sweep of a last attempt whose lease ran out. *)
DraftSwept(i) ==
    /\ run[i].job = "leased" /\ run[i].tries = MaxTries
    /\ run' = [run EXCEPT ![i] = [@ EXCEPT !.job = "closed",
           !.status = IF run[i].status \in {"queued", "running"} THEN "failed" ELSE run[i].status]]
    /\ attempt' \in {attempt, attempt \ Attempts(i)}
    /\ UNCHANGED <<measurement, approvals, undone, requests, report, crossed, extras>>

-----------------------------------------------------------------------------
(* Members decide. *)

Reject(i) ==
    /\ run[i].status = "awaiting_approval"
    /\ run' = [run EXCEPT ![i] = [@ EXCEPT !.status = "rejected"]]
    /\ UNCHANGED <<measurement, attempt, approvals, undone, requests, report, crossed, extras>>

(* A review has to be about the narrative approved last. *)
Binds(i) == /\ Approved(Narratives) # {}
            /\ run[i].draft.bound = LatestApproved(Approved(Narratives))

(* Only a review is decided by what is read before the transaction.        *)
ApprovalReads(i) ==
    /\ run[i].purpose = "quality" /\ run[i].status = "awaiting_approval" /\ i \notin read
    /\ Binds(i)
    /\ read' = read \cup {i}
    /\ UNCHANGED <<measurement, drafts, next, lost, report, crossed, extras>>

Decidable(i) == run[i].status = "awaiting_approval" /\ run[i].metric = metric

(* The transaction looks at the snapshot and the status again, not at the  *)
(* draft; then the request goes on to the workflow.                        *)
Approve(i) ==
    /\ ~next
    /\ run[i].purpose = "quality" => i \in read
    /\ read' = read \ {i}
    /\ IF Decidable(i)
       THEN /\ run' = [run EXCEPT ![i] = [@ EXCEPT !.status = "approved", !.at = approvals + 1]]
            /\ approvals' = approvals + 1
            /\ next' = TRUE
       ELSE UNCHANGED <<run, approvals, next>>
    /\ UNCHANGED <<measurement, attempt, undone, lost, report, crossed, extras>>

-----------------------------------------------------------------------------
(* Freezing. *)

Current(S) == {i \in S : run[i].metric = metric}
Reviews == {i \in Runs : run[i].purpose = "quality"}

(* Mutant of ReviewsOf: any approved review of the snapshot will do. *)
ReviewsOfAny(n) == Current(Approved(Reviews))

ReviewsOf(n) == {i \in Current(Approved(Reviews)) : run[i].draft.bound = n}

(* createReportSnapshot takes the narrative approved last and of its       *)
(* reviews, by the id of the narrative, the one approved last, which has   *)
(* to pass.  The report has the text the narrative has now.                *)
Freezable ==
    /\ metric # 0
    /\ Current(Approved(Narratives)) # {}
    /\ LET n == LatestApproved(Current(Approved(Narratives))) IN
        /\ ReviewsOf(n) # {}
        /\ run[LatestApproved(ReviewsOf(n))].draft.verdict = "pass"

Frozen(by, docs) ==
    LET n == LatestApproved(Current(Approved(Narratives)))
        q == LatestApproved(ReviewsOf(n))
    IN Append(report, [metric |-> metric, narrative |-> n, text |-> run[n].draft.text,
                       quality |-> q, reviewed |-> run[q].draft.about, by |-> by, docs |-> docs])

(* A member freezes without the workflow. *)
FreezeByHand ==
    /\ Extra
    /\ Freezable /\ Len(report) < MaxReports
    /\ report' = Frozen("member", "none")
    /\ UNCHANGED <<measurement, drafts, requests, crossed>>

(* requestReportPdf: a job is added unless the files are there or one is   *)
(* open, so a report that is not ready is "queued" even if a job of it     *)
(* failed; the files arrive as in module ReportDocuments.                  *)
Requested(docs) == IF docs = "ready" THEN "ready" ELSE "queued"

AskForDocuments(k) ==
    /\ Extra
    /\ report' = [report EXCEPT ![k].docs = Requested(@)]
    /\ UNCHANGED <<measurement, drafts, requests, crossed>>

DocumentsArrive(k) ==
    /\ report[k].docs = "queued"
    /\ report' = [report EXCEPT ![k].docs = "ready"]
    /\ UNCHANGED <<measurement, drafts, requests, crossed, extras>>

-----------------------------------------------------------------------------
(* advanceReportWorkflow.  It goes by the order of created_at, and looks   *)
(* for a review of the narrative among those queued after its approval.    *)

NarrativeActive == \E i \in Current(Narratives) : run[i].status \in Active

(* Mutant of ReportsOf: a report that was frozen is not found again. *)
NoReportsOf(n) == {}

ReportsOf(n) == {k \in 1..Len(report) : report[k].narrative = n}

Keep == UNCHANGED <<run, report, crossed>>
QueueDraft(purpose) == Enqueue(purpose) /\ UNCHANGED report

(* Mutant of Deliver: a report that is there already is taken as delivered. *)
DeliverOnlyNew(n) ==
    /\ UNCHANGED <<run, crossed>>
    /\ IF ReportsOf(n) = {} /\ Freezable
       THEN Len(report) < MaxReports /\ report' = Frozen("workflow", "queued")
       ELSE UNCHANGED report

(* The report of narrative n, frozen now if there is none, and its files.  *)
(* The freezing may throw, which rolls back and ends the call.             *)
Deliver(n) ==
    /\ UNCHANGED <<run, crossed>>
    /\ IF ReportsOf(n) # {}
       THEN report' = [report EXCEPT ![Newest(ReportsOf(n))].docs = Requested(@)]
       ELSE IF Freezable THEN Len(report) < MaxReports /\ report' = Frozen("workflow", "queued")
       ELSE UNCHANGED report

ReviewSteps(n, retry) ==
    LET after == {i \in Current(Reviews) : run[i].since >= run[n].at}
        endorsed == {i \in Approved(after) : run[i].draft.bound = n}
    IN IF endorsed # {}
       THEN IF run[Newest(endorsed)].draft.verdict = "pass" THEN Deliver(n)
            ELSE IF retry THEN QueueDraft("narrative")
            ELSE Keep
       ELSE IF \E i \in after : run[i].status \in Active THEN Keep
       ELSE QueueDraft("quality")

Advance(retry, restart) ==
    LET approved == Current(Approved(Narratives)) IN
    /\ IF metric = 0 \/ NarrativeActive THEN Keep
       ELSE IF restart \/ approved = {} THEN QueueDraft("narrative")
       ELSE ReviewSteps(Newest(approved), retry)
    /\ UNCHANGED <<measurement, attempt, approvals, undone, read, lost, extras>>

(* The report worker every 15 s, a member's button, the end of an approval.*)
Scan == scheduled /\ Advance(FALSE, FALSE) /\ UNCHANGED next
Press == (\E restart \in BOOLEAN : Advance(TRUE, restart)) /\ UNCHANGED next
Continue == next /\ next' = FALSE /\ Advance(FALSE, FALSE)

ContinuationLost ==
    /\ Extra
    /\ next /\ next' = FALSE /\ lost' = TRUE
    /\ UNCHANGED <<measurement, drafts, read, report, crossed>>

-----------------------------------------------------------------------------
Next ==
    \/ Measured \/ Reparse \/ AskForDraft
    \/ \E i \in Runs :
        \/ DraftStarts(i) \/ DraftStartsAgain(i) \/ DraftRefused(i) \/ DraftSwept(i)
        \/ Reject(i) \/ ApprovalReads(i) \/ Approve(i)
    \/ \E s \in attempt : DraftSubmitted(s) \/ DraftFails(s) \/ DraftCompleted(s) \/ DraftReturns(s)
    \/ FreezeByHand
    \/ \E k \in 1..Len(report) : AskForDocuments(k) \/ DocumentsArrive(k)
    \/ Scan \/ Press \/ Continue \/ ContinuationLost

Spec == Init /\ [][Next]_vars

(* The timer of the report worker, and the request that goes on.           *)
Fairness == WF_vars(Scan) /\ WF_vars(Continue)

FairSpec == Spec /\ Fairness

-----------------------------------------------------------------------------
DraftType == [text : 0..MaxTries, bound : 0..MaxRuns, about : 0..MaxTries,
              verdict : {"none", "pass", "blocked"}]
RunType == [purpose : Purposes, metric : 1..MaxMetrics,
            status : Active \cup {"approved", "rejected", "failed"},
            job : {"pending", "leased", "closed"}, tries : 0..MaxTries, draft : DraftType,
            since : Nat, at : Nat]
AttemptType == [run : Runs, try : 1..MaxTries, pc : {"working", "upset", "returning"},
             bound : 0..MaxRuns, about : 0..MaxTries]
ReportType == [metric : 1..MaxMetrics, narrative : 1..MaxRuns, text : 0..MaxTries,
               quality : 1..MaxRuns, reviewed : 0..MaxTries,
               by : {"workflow", "member"}, docs : {"none", "queued", "ready"}]

(* Types; approvals are in one order.                                      *)
TypeOK ==
    /\ scheduled \in BOOLEAN /\ metric \in 0..MaxMetrics /\ measured \in 0..MaxMetrics
    /\ Len(run) <= MaxRuns /\ \A i \in Runs : run[i] \in RunType
    /\ attempt \subseteq AttemptType /\ approvals \in Nat
    /\ Len(report) <= MaxReports /\ \A k \in 1..Len(report) : report[k] \in ReportType
    /\ \A i, j \in Approved(Runs) : run[i].at = run[j].at => i = j
    /\ read \cup undone \subseteq Runs /\ {next, crossed, lost} \subseteq BOOLEAN
    /\ extras \in 0..MaxExtras

(* architecture.md:97: a report is frozen only from an approved narrative  *)
(* and an approved, passed review of that very narrative, both about the   *)
(* snapshot of the report.  As long as no attempt writes over the approval *)
(* of the narrative or of the review, they stay as they were frozen, and   *)
(* the review has read the very text that is in the report.                *)
FrozenIsReviewedUnlessUndone == \A k \in 1..Len(report) :
    LET n == run[report[k].narrative]  q == run[report[k].quality] IN
    /\ n.metric = report[k].metric /\ q.metric = report[k].metric
    /\ report[k].narrative \notin undone =>
        /\ n.status = "approved" /\ n.draft.text = report[k].text
        /\ report[k].reviewed = report[k].text
    /\ report[k].quality \notin undone =>
        /\ q.status = "approved" /\ q.draft.verdict = "pass"
        /\ q.draft.bound = report[k].narrative

(* operations.md:74: the workflow does not freeze the same narrative       *)
(* twice, whoever calls it how often.                                      *)
FrozenOnce == \A k, l \in 1..Len(report) :
    k < l /\ report[l].by = "workflow" => report[k].narrative # report[l].narrative

(* FrozenOnce as the code keeps it: two narratives under way at once make  *)
(* the workflow, which goes by the newest, and the freezing, which goes by *)
(* the last approval, disagree.  A narrative is under way also while its   *)
(* job is open or an attempt of it is left, as it may be executed and      *)
(* approved again.                                                         *)
FrozenOnceUnlessCrossed == crossed \/ FrozenOnce

(* A narrative and a review of it, queued after its approval, are approved *)
(* and passed, nothing newer is under way, and there is no report yet.     *)
Awaited == \E i \in Current(Approved(Narratives)) :
    /\ \E q \in ReviewsOf(i) : run[q].draft.verdict = "pass" /\ run[q].since >= run[i].at
    /\ \A q \in ReviewsOf(i) : run[q].draft.verdict = "pass"
    /\ \A j \in Narratives : j <= i
    /\ \A k \in ReportsOf(i) : report[k].docs = "none"

(* operations.md:74, architecture.md:95: a report that is due is frozen    *)
(* and its documents are asked for without anybody pressing a button.      *)
(* Excepted are crossed narratives; an approval whose request died, or a   *)
(* review whose approval was written over, unless the batch is scanned;    *)
(* and the bound MaxReports.                                               *)
PassedIsFrozen == Awaited ~> \/ ~Awaited \/ crossed
                             \/ (lost \/ undone \cap Reviews # {}) /\ ~scheduled
                             \/ Len(report) = MaxReports
=============================================================================
