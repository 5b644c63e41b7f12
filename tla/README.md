# GEO console: verification project

GEO console measures how a brand appears in the answers of search-enabled
language models. A worker leases capture jobs from a PostgreSQL table, asks the
providers, stores their answers as evidence, has the answers parsed by a
semantic pipeline, freezes metric snapshots, and runs an agent whose drafts are
approved by members or, in automatic mode, by a coordinator. Approved drafts
become articles, which are reviewed, ordered and published, and reports, which
are frozen and rendered. Everything that happens later than the request that
caused it goes through rows with leases, guards and retries. That is where the
hard behaviour is, and what this project is about.

Paths below are relative to the repository (`src/` in PROJECT.json);
`worker/` is `apps/worker/src/`, `core/` is `packages/core/src/`.

## Inventory

| Component | State | Operations | Hard behaviour | Module |
|---|---|---|---|---|
| capture queue (`worker/cloud-runner.ts`, `capture-progress.ts`, `core/repository.ts`, parts of `service.ts`) | `jobs`, `query_captures`, `experiment_batches.status` | claim, renew, store, fail, quota breaker, minute sweep, refresh | expiring leases, slots that share an owner, count-then-write, death between two statements | `CaptureQueue`, `SampleLedger` |
| measurement (`worker/measurement.ts`, `semantic-runtime.ts`) | `semantic_parse_runs`, parse jobs, `semantic_selections`, `metric_snapshots` | queue, parse, freeze, review, reparse | jobs queued after the list was read, late commits, reviews during retries | `Measurement` |
| agent drafts (`worker/agent.ts`, `agent-jobs.ts`, `queue-recovery.ts`, part of `workbench.ts`) | `agent_runs`, their job, session flags | execute, approve, reject, auto-approve, sweep, recover at start | two deciders, reads before the transaction, retry of what is done | `DraftRuns` |
| workbench sessions (`worker/workbench.ts`) | `agent_sessions`, events, turns | create, message, answer, cancel, turn, wake up | unguarded status writes, cancellation in two statements, wake-up in two statements | `WorkbenchSession` |
| desktop turns (`worker/desktop-agent.ts`, `apps/web/src/desktop-agent.ts`) | run id, client id, lease, transcript, tool calls | claim, heartbeat, message, tool call, complete | lost answers, duplicate deliveries, takeover of an expired client | `DesktopTurn` |
| articles and publication (`worker/articles.ts`, `article-quality.ts`, `customer-knowledge.ts`, `publications.ts`) | article versions, both reviews, orders, receipts, knowledge assets | edit, assess, review, order, transition | verdicts about a version that changed meanwhile, pages older than the rows | `Publication` |
| quality runs and answer analysis (`worker/article-quality.ts`, `answer-analysis.ts`) | runs, attempts, jobs | request, run | a late worker writes over a run that has ended | `ReviewJobs` |
| report workflow (`worker/report-snapshots.ts`, `approval-workflow.ts`) | narratives, their reviews, `report_snapshots` | draft, approve, reject, advance, freeze | a step taken by whoever comes by, order of creation against order of approval | `ReportWorkflow` |
| report documents (`worker/report-snapshots.ts`, `report-worker.ts`) | objects, keys of the row, document jobs | request, render, sweep | check-then-insert, objects written before their row, a timer left behind | `ReportDocuments` |
| monitoring schedules and the end of a project (`worker/service.ts`, `project-lifecycle.ts`, migration 0027) | `monitoring_schedules`, `projects` | save, tick, start by hand, archive, delete | batch and schedule written separately, two lock orders | `Monitoring` |
| authentication, roles, tenancy, authorization | users, roles, policies | log in, grant, authorize | revocation during execution | refusals in the others |
| crawler, providers, web search | none, or evidence rows | fetch | timeouts, limits | outcomes in the others |
| metrics, comparability, rendering | none | pure functions | missing values | - |
| logging, log service | bounded buffer, log rows | log, flush, prune | overflow | - |
| configuration transfer | revisions | import, export | concurrent edits | - |
| core database, secrets, migrations | connection, keys | query, transaction | isolation | the steps of the models |
| web and desktop user interfaces | view state | - | - | the pages of `DesktopTurn`, `Publication` |

How they interact: members call the HTTP API, which inserts a batch and its
jobs; schedules do the same by a timer; capture processes turn jobs into
evidence and close the batch; the semantic worker finds the evidence, parses it
and freezes a snapshot; the agent reads snapshots, its drafts become articles,
tasks or reports when approved; publication orders freeze an article version;
approved narratives and their reviews become frozen reports. No component calls
another across processes: they meet in the rows, so an interleaving of
statements is an interleaving of the system. The sweep of exhausted leases
(`queue-recovery.ts`) is run by the agent, report and semantic workers, on each
other's jobs.

The modules compose at those rows. `SampleLedger` is what `CaptureQueue` promises
(shown by refinement) and what `Measurement` assumes of a batch. `DraftRuns` says how
a draft ends; `WorkbenchSession` waits for one as a thing that ends, and
`ReportWorkflow` has it start, end, fail and be tried again. `ReviewJobs` produces the
quality run whose verdict `Publication` uses. `ReportWorkflow` asks for the documents
`ReportDocuments` makes. A batch that `CaptureQueue` leaves stranded is `stranded` in
`Monitoring`.

PROJECT.json lists each component with its sources and status, and the hazards
of each, at their lines.

## Conventions of the models

* A statement outside a transaction is one step. A transaction that claims its
  row first is one step, because nobody else writes the row until it commits.
  A transaction that reads several rows without locking them (freezing a
  snapshot) is several steps. The database is READ COMMITTED
  (`core/database.ts`).
* `live` stands for `lease_expires_at > now()`, `due` for `available_at <= now()`.
  Time is otherwise nondeterministic: a lease may run out in any step, also while
  its holder is alive but slow.
* An owner is a process, not a slot: all slots of one process write the same
  `lease_owner`, and the code's guards compare nothing else.
* A crash takes the slots and the coordinator of a process and leaves the rows.
  The process comes back under the same name. For workers that take a new
  random id this loses nothing: after the crash no slot is left whose guards
  the old name could satisfy.
* Any failing statement is a fault: the error goes where the code's `try`/`catch`
  sends it. Crashes, faults, stalls and suspensions are counted together as upsets,
  and bounded by `MaxUpsets` (`MaxFailures` in `Measurement`, `MaxFaults` in
  `WorkbenchSession`). A fault of a sweep is counted once for the rows it leaves.
* The order in which a claim picks jobs, the 30 seconds of a retry, and the
  content of answers, drafts and observations are abstracted. Drafts are named
  by the attempt that wrote them, observations by a counter, versions by a
  number, so a property can tell which one is in force.
* History variables (`cut`, `revived`, `crossed`, `undone`, `orphan`, `aged`, `said`)
  never guard a step of the code. They name what a property excepts, or remember
  what a person approved.
* Operators introduced by "Mutant of X" are faulty versions of X that no
  specification uses. Each is a plausible bug, and shows that the property it is
  paired with in PROJECT.json can fail.

## CaptureQueue and SampleLedger

`CaptureQueue` follows `runOneCloudCapture`: claim, call, check the lease, store
(job and evidence in one transaction), count the remaining jobs, write the
status of the batch, and on a quota answer settle the platform. `failJob`, the
sweep's three statements, renewals, suspension of the organization, expiry and
crash are actions of their own. `sweeper` and `slot` hold what the code keeps
in local variables, in particular the verdict counted but not yet written.

`SampleLedger` is what the queue promises: a sample is open until it is captured
once or lost, a batch closes once and with the right word. `LedgerSpec` is that
specification under the mapping at the end of `CaptureQueue`.

Run `queue`: evidence exactly for completed jobs; a closed batch has only ended
jobs and the right word, although slots and sweeps count in one statement and
write in a later one; a live lease ends only by a slot of its owner at work on
that job; the queue implements the ledger. `ClosingIsAhead`: as long as nothing
died and no statement failed, a batch whose jobs have all ended has a slot or a
sweep that will count it closed, or has; whoever ended the last job, and whoever
else counted or wrote in between. `ConvergesUnlessStranded`: every batch
closes, unless the last refresh was lost. That exception is real: a process that
dies after the store transaction of the last job and before
`refreshBatchStatus` leaves the batch open for ever (`worker/service.ts:1385`),
because the sweep refreshes only batches whose jobs it failed itself. With one slot
and one crash TLC finds it in 25 states; operations.md:64 and the comment at
`worker/cloud-runner.ts:233` say that no batch stays "collecting" for ever.

Fairness: each slot and each sweep keeps running, a call ends (providers' requests
time out after 120 s), time passes, and a lease runs out if no slot of its owner
works on the job. Members and suspensions are not fair.

## Measurement

One batch, from its samples to its snapshot. The environment is what
`SampleLedger` promises: samples are answered or lost once, then the batch
closes. `slot` is `runOneSemanticJob`, `coord` one round of `coordinate()` with
the statements of `finalizeMeasurements` as separate steps under the lock of
the run's row. `Reparse` starts another run, `Review` replaces a selection and
reopens the current run. That the batch closes is an assumption about the
environment (`WF` of `BatchCloses`), which a stranded batch breaks.

Run `measurement`: `SnapshotIsCurrent` (a snapshot covers every answer and
equals the selections in force; no late commit or review gets behind it),
`ReviewStands` (a parse never replaces a selection in force, also when a run was
given up while it was being parsed), `MeasurementEnds`.

One answer is enough for these: jobs of different answers touch different rows,
and they meet only in the counts `NothingOpen` and `NothingMissing`, which
quantify over them; the proofs are for any number. `SnapshotIsCurrent` needs a
single semantic worker, as docs/deployment.md:199 deploys it: of two, one could
queue the job of the last answer between the two counts of the other, and the
snapshot would miss it. Nothing in the code excludes that; PROJECT.json lists it
as a hazard without a property. Suspension of the organization, which stops
queueing and claiming, and `recordMeasurementDrift` are left out.

## DraftRuns

A run, its `agent_draft` job, the flags of its session, the slots, the members,
and per process the coordinator (`resumeWaitingSessions`) and the sweep. The
writes of `executeAgentDraft` are modelled as they are: they name the run only
by its id, whatever its status has become. `Approve` is the transaction of
`approveAgentRun`, which claims the row by `awaiting_approval` and then
materializes the draft that was read before; all refusals are one disjunct.
`applied` records which drafts took effect and by which path.

Run `draft_decisions`: `OneApprovalUnlessArticle` (as long as nothing died,
stalled or was lost), `NoAutoAfterCancel`, `DecisionStands` (once the job has
ended and nobody executes the run, no sweep or coordinator undoes a decision),
`RunIsMoving` (a run that is not finished has a job to claim, a lease, a sweep,
a slot that will write its end, or a start that will find it, or was cut), and
under fairness `RunSettlesUnlessCut` (a run leaves `queued` and `running`,
unless the very statement was lost that would have ended it after its job had
ended) and `AutoDecided` (in a session that stays automatic and live no draft
waits for a member).

Run `draft_article_overwritten` shows a disagreement with the documentation: the
list of article drafts and the unguarded `status='failed'` at
`worker/workbench.ts:1778` overwrite an approval by a member; operations.md:78
says the second approval is merely refused.

The exceptions are real behaviours. A worker that dies between storing the draft
and completing the job has it executed again, after an approval too, and then it
can be approved a second time: no guard of `executeAgentDraft` looks at the
status (hence "as long as nothing died"). The sweep fails jobs in one statement
and their runs in later ones; when it is interrupted nobody looks at the run
again (`cut`). A slot that lost its lease to its neighbour passes the owner check
and returns or completes the neighbour's job (`cut` when no attempt is left).
`aged` names runs that a restarting worker regards as orphaned: a lease and the
age limit of `recoverOrphanedAgentRuns` are both 15 minutes. That these are all
the losses there are rests on the two attempts `enqueueAgentDraft` gives a
draft: with three, TLC finds in 14 steps a slot that lost the first lease and
completes the third, of a neighbour that has not begun, and nothing moves the run.

Fairness: slots, coordinator, sweep and restart go on, unheld leases run out,
retries become due. Members and session changes are not fair.

## WorkbenchSession

A session that runs on the server (`sessions`), and its `agent_session_turn` jobs
(`jobs`). `member` is a request (`sendMessage`, `answerQuestion`, `cancelSession`,
each with its second statement), `slot` is `runOneAgentJob` around
`executeSessionTurn`, `coord` the second part of `resumeWaitingSessions`, `sweep` the
sweep. `waiting` is NULL, a question, or a thing (batch, draft, report) whose end the
environment decides. Which statements ask for the state they were decided on, and
which write whatever the row holds, is kept exactly: the message, the start and the
outcome of a turn and the wake-up are guarded, an answer, a retry and the
coordinator's other writes are not. Of the transcript only `call` is kept: whether it
ends in a call that asks or waits. The plan column, the tools, and the archiving of
the project are left out.

Answers are counted among the faults, since two answers to one question are what
disturbs a session most; `Failing = FALSE` leaves only them.

Run `session`: `CancelHolds` (no earlier turn writes its outcome over a cancellation,
and no turn of a cancelled session begins), `RunningIsServed` (in every state a
running session has somebody who will get to it: a turn that can be claimed or is
leased, a slot that has not left it, a request or wake-up about to queue its turn, a
sweep), `RunningEndsUnlessCut` (so it ends, under fairness), `WaiterIsWoken`. A slot
whose outcome is stored, or whose session was cancelled, is `Leaving`: it completes
its turn without another word about the session, so neither it nor its turn counts. A
message may set the session running again while the slot is leaving, and what saves it
is that `enqueueTurn` never looks for an open turn. `cut` names the sessions whose
last statement was lost: a request or wake-up that failed between its two statements,
an interrupted sweep, a slot that lost its turn, or has a neighbour of the same name
about to complete it, and then dies or fails, a turn returned pending without an
attempt left, and a cancellation overtaken between its two statements, which needs no
failure: the retry or the answer that overtakes it leaves the cancelled session
`running`.

Run `session_answer_detached`: two answers to one question are both accepted, and
their turns run at the same time; the second finds no question, and its answer
becomes a new message after an unanswered call. The comment at
`worker/workbench.ts:1536` says an answer continues as the result of the call.

Fairness: begun requests, slots, coordinator, sweep and restart go on, unheld
leases run out. Nobody has to send, answer or cancel, and no thing has to end.

## DesktopTurn

The protocol between the server and the desktop client, which runs the agent
loop itself: it claims the scheduled turn, appends its messages one by one, has
the server execute the tools the model calls, and completes the turn. `pages` is
the loop of each client, `requests` what the server has accepted: a request is
checked when it arrives and takes effect in later steps, so it outlives the page
that sent it (a reload, a sleeping client, a connection that is lost). `coming`
is the second statement of whoever schedules a turn. `Emits` leaves open whether
the agent library reports the result of a tool that ends the turn as a message;
the library is not part of the repository.

Run `desktop_turns`: `TranscriptInOrder` (each message at the place its client
gave it, one result for a call), `ToolRunsOnce` (a call has its effect once
unless the server was stopped in it), `TurnEnds`.

With a second call TLC also reaches sessions that wait for nothing: the web
client, taking a turn over, replays a tool that ends the turn and saves its
result as a message (`apps/web/src/desktop-agent.ts:457`), which takes back what
the session waits for, while architecture.md:109 has the session wait. The
hazard is listed without a property: what the library emits decides it.

Fairness: requests and the loops of open pages go on, leases run out, and a
member whose turn is unfinished opens the page again, on some client. Without
the last the turn rightly stays where it is: the code leaves it to be resumed.

## Publication

One article with its versions, its quality runs and both reviews, one customer
knowledge asset the runs rest on, and orders on one channel. Every request
writes in one transaction under the lock of the article or the order, so it is
one step; what is older is what a person read before. `page` is what a
reviewer has of the article, `form` what they have of an order, loaded by several
queries. `said` remembers of each version what persons last said of it while
they had it before them; the properties are about that, not about columns.

Run `publication`: `DeliveredWasEndorsed` (what is published or delivered is a
version that persons approved both ways), `StartsAreCurrent` (an order is
prepared and started, also again, only for the current version, as long as the
approvals and the knowledge stand), `VerifiedAsShown` (who verifies had the
newest receipt on the page). Upsets here are events that take something back.

## ReviewJobs

Quality runs and answer analyses follow one protocol: a request finds or inserts
an open run with its job, a slot claims it, marks the run, calls the model,
records the attempt and writes the result. Init chooses the queue; the two
differ where the code does, and most in the mark: a quality worker that lost its
lease writes `running` over a run that has ended (`article-quality.ts:471`).
`revived` names such runs.

Run `review_jobs`: `OneOpenRun` (what is reviewed has one open run, unless one
was revived), `ResultStands` (a result that is shown is on record and not
replaced by a late worker; an analysis that has ended never changes),
`OpenRunIsMoving` (an open run has a job with an attempt left, a lease, or a sweep
that has failed its job and will fail the run, unless that sweep was cut or the run
revived), `RunEndsUnlessCut`. operations.md:7 says a lost lease is given up; a revived run
is in `running` for ever and requests for the same input are given that run.

Fairness: the timers of running processes, restarts, the timeout of the call,
and time.

## ReportWorkflow

From a measured batch to a frozen report. `advanceReportWorkflow` looks at the
batch each time it is called (after an approval, by the scan, by a button) and
takes one step: it queues a narrative, or its quality review, or freezes, or asks
for the documents. The workflow and an approval hold the row of the batch, so
each is one step; what an approval reads before it (`ApprovalReads`) and the
drafts are not under that lock.

`run` is a draft with its job, `attempt` the executions under way, each with the
narrative and the text a review was given. The code writes a draft by its id
only: the start (`worker/agent.ts:779`), the submitted draft (876), the failure
(904) and the return to the queue (`agent-jobs.ts:137`) ask for no status. So an
attempt that stalls or dies after its draft is submitted (`upset`) leaves the job
leased, and `DraftStartsAgain` executes the draft again whatever became of it: it
may be approved, rejected or frozen by then. One id can have several texts, named
after the attempt (`text`, `about`), and be approved more than once; `undone`
names drafts whose approval was written over. Only the completion and the return
of the job ask whether the attempt still owns it.

Kept small: submitting, recording the cost and completing the job are one step
unless an upset comes in between; a review reads its narrative when it starts;
one approving request at a time goes on to the workflow; each attempt has a name
of its own, and the sweep is one step. `DraftRuns` has the shared names and the
single statements.

Run `report_workflow`: `FrozenIsReviewedUnlessUndone` (a report is about its own
snapshot; as long as no attempt wrote over their approvals, its narrative and
review are approved, the review passed and is about that narrative, and has read
the very text in the report), `FrozenOnceUnlessCrossed` (the workflow freezes no
narrative twice), `PassedIsFrozen` (what is due is frozen and its documents are
asked for without a button, unless the request died or a review was undone and
the batch is not scanned).

The two exceptions are where the code does not do what the documentation says.

* `undone`. The freezing compares the id of the narrative
  (`report-snapshots.ts:347`), not its text. A worker stalls after submitting a
  narrative, the narrative is approved and a review of it written, then it is
  executed again and approved again, the review is approved, and a member freezes
  the second text on a review of the first. architecture.md:95 says the review is
  bound to that version, :97 that only reviewed narratives are frozen. TLC finds it
  in 16 states (`reviewed = text` for every report; 1 snapshot, 3 drafts, 2 extras).
* `crossed`. The workflow takes the newest narrative by `created_at`
  (`report-snapshots.ts:147`), freezing the one approved last. A narrative with a
  report is executed and approved again while a second one has been queued by a
  restart, and is frozen twice, which operations.md:74 denies. TLC finds it in 26
  states (`FrozenOnce`; 1 snapshot, 4 drafts, 1 extra).

`crossed` says that a narrative was queued while another one of the snapshot was
active, its job open or an attempt at it under way. Without that, a narrative that
is executed again is still the newest one, and the workflow finds its report.

Fairness: the timer of the report worker, and a request that goes on. No attempt,
approval or member is fair.

## ReportDocuments

The two files of a frozen report. `requestReportPdf` looks for an open job and
inserts one in a second statement, so two requests queue two jobs; each job looks
for the object, puts it, writes the key into the row, for the PDF and then for
Word. Objects are never replaced, keys only added.

Run `report_documents`: `DocumentsArrive`: a report with a job gets both files by
retries alone, or a job failed for as many faults as it has attempts to spare.
`orphan` is the exception: a statement that fails between `setInterval` and the
`try` block (`report-snapshots.ts:837` to 852) leaves a timer that renews the
lease for ever. operations.md:72 says that jobs are retried by their lease once the
environment is repaired; such a job is not until its worker is restarted.

Fairness: the tick of every process, and time.

## Monitoring

The plan of a project, the ticks that start its batches, batches by hand, and
the end of the project. Row locks matter here and are modelled: a transaction
that inserts a batch shares the row of the project, the end of the project takes
it exclusively, and an UPDATE of the plan holds the plan (`row`) while its trigger
waits for the project. The two orders deadlock; the database aborts either.
`owed` numbers the runs of the plan.

Run `monitoring`: `OneBatchPerRun` (a run starts one batch, unless a second tick
took it up or the UPDATE after the batch was lost), `EndedIsFrozen` (an ended
project has no open batch, and nothing under way changes its batches or plan),
`RunIsServedUnlessStranded` (a plan that owes a run gets its batch or says it
failed, however often it is postponed, unless a batch was stranded).

The exceptions (`cut`) are real: a tick that overlaps another, or dies between
the commit of the batch and the UPDATE of the plan, starts a second batch for
one run, and a batch that is committed may be recorded as a failure when that
UPDATE is refused. A batch whose process dies between the end of its last job and
its refresh (`Strands`) is open for good: no fairness closes it, every tick
postpones the plan by an hour, and `last_error` stays empty.

Fairness: dates come, the timer of some process runs, jobs end, whoever ended the
last one refreshes the batch unless that was upset, statements return.

## Runs and bounds

| Run | Instance |
|---|---|
| `queue` | 1 process x 2 slots, 2 jobs of 1 batch and platform, 2 attempts, 1 upset |
| `draft_decisions` | 1 process x 2 slots, 1 member, 1 run of a session (article or other), 2 attempts, 1 upset |
| `draft_article_overwritten` | 1 slot, 1 member, 1 article draft, no upset |
| `measurement` | 1 process x 2 slots, 1 answer, 2 runs, 2 attempts, 1 review, 1 failure |
| `session` | 2 members, 1 process x 2 slots, 1 session, 1 draft to wait for, 1 message, 2 attempts, 1 upset |
| `session_answer_detached` | 2 members, 2 slots, 1 message, 2 answers, no failure |
| `desktop_turns` | 2 clients, 2 turns (a message and what follows it), 1 tool call, 6 claims, 1 upset |
| `publication` | 2 versions, 2 orders, 2 quality runs, 2 revisions of the asset, 1 reviewer, 1 upset |
| `review_jobs` | 2 runs, 2 processes, 2 inputs, 2 attempts, 2 upsets |
| `report_workflow` | 2 snapshots, 3 drafts, 2 tries, 2 reports, 1 extra |
| `report_documents` | 2 jobs, 2 processes, 2 requests, 3 attempts, 2 upsets |
| `monitoring` | 2 ticks, 2 batches, 3 edits, 2 upsets |

Why these are enough. Jobs interact only through the counts of their batch and the
breaker, and for these two are enough. A takeover needs two slots; two slots of one
process show more than two processes, because they share the owner that guards
compare. A retry that exhausts the budget needs two attempts, a lease that no one but
the sweep ends needs one. Sessions, drafts, projects and reports share nothing but the
order of a queue, so one is enough. A verdict about another version needs two
versions; a takeover of a desktop turn needs two clients; two batches for one run need
two batches. `MaxRuns` of `DesktopTurn` is enough because `TurnEnds` would fail if the
claims ran out; `MaxOrderRev` of `Publication` lets one order go through every state
and be started again. In `report_workflow` three
drafts are a narrative, its review and another narrative; one extra is enough to
have a draft executed and approved again.

Two upsets in `draft_decisions` (without an article, 743 000 states) take longer
than a run should; that instance was checked once and holds. So do four drafts in
`report_workflow`, which a second freezing of one narrative takes: with one
snapshot (2.9 million states) `FrozenOnceUnlessCrossed` was checked once and
holds, and it is proved for any number.

Symmetry (orders) is used only in `publication`, which has no liveness property.
Deadlock is checked for `queue`, the drafts and `measurement`, where sweeps and
coordinators never stop. The others may have nothing left to do when the bounds
are used up.

## What is proved

For every value of the constants; each module has one named assumption (types,
NULL is none of the names, at least one attempt). The answers of a batch
(`Measurement`) and the batches (`Monitoring`) are finite, because they are
counted. `SessionProofs` and `ReportProofs` hold the proofs of two modules each.
`SessionProofs` extends both, whose names are disjoint. `ReportProofs` extends
`ReportWorkflow` and takes `ReportDocuments` as an instance `D` with constants and
variables of its own, whose assumption is a hypothesis of the theorem.

Every invariant and every safety action property that a passing run checks is
stated by one of these theorems. The types of `DraftRuns`, `Publication`,
`DesktopTurn` and `ReportWorkflow` are proved and need no run.

| Module | Theorem | Statement |
|---|---|---|
| `CaptureQueueProofs` | `TypeCorrect`, `EvidenceSafe`, `ClosedSafe` | `[]TypeOK`, `[]EvidenceIffComplete`, `[]ClosedBatchIsRight` |
| | `LeaseSafe`, `ClosingSafe` | `LiveLeaseIsExclusive`, `[]ClosingIsAhead` |
| | `QueueImplementsLedger` | `LedgerSpec` |
| `MeasurementProofs` | `SnapshotSafe` | `[]SnapshotIsCurrent`, assuming one semantic worker |
| | `TypeCorrect`, `ReviewSafe` | `[]TypeOK`, `ReviewStands` |
| `DraftRunsProofs` | `TypeCorrect`, `OneApprovalSafe` | `[]TypeOK`, `[]OneApprovalUnlessArticle` |
| | `CancelSafe`, `DecisionSafe` | `NoAutoAfterCancel`, `DecisionStands` |
| | `MovingSafe` | `[]RunIsMoving`, for at most two attempts |
| `PublicationProofs` | `TypeCorrect`, `DeliverySafe` | `[]TypeOK`, `[]DeliveredWasEndorsed` |
| | `StartsSafe`, `VerifiedSafe` | `StartsAreCurrent`, `VerifiedAsShown` |
| `ReviewJobsProofs` | `TypeCorrect`, `OneOpenSafe` | `[]TypeOK`, `[]OneOpenRun` |
| | `ResultSafe`, `MovingSafe` | `ResultStands`, `[]OpenRunIsMoving` |
| `ReportProofs` | `TypeCorrect`, `FrozenSafe` | `[]TypeOK`, `[]FrozenIsReviewedUnlessUndone` of `ReportWorkflow` |
| | `FrozenOnceSafe` | `[]FrozenOnceUnlessCrossed` |
| | `DocumentsTypeCorrect`, `CompleteSafe` | `[]TypeOK`, `[]CompleteIsReady` of `ReportDocuments` |
| `SessionProofs` | `TypeCorrect`, `OrderSafe` | `[]TypeOK`, `[]TranscriptInOrder` of `DesktopTurn` |
| | `OnceSafe` | `[]ToolRunsOnce` |
| | `SessionTypeCorrect`, `CancelSafe` | `[]SessionTypeOK`, `CancelHolds` of `WorkbenchSession` |
| | `ServedSafe` | `[]RunningIsServed` |
| `MonitoringProofs` | `TypeCorrect`, `OneBatchSafe` | `[]TypeOK`, `[]OneBatchPerRun` |
| | `EndedSafe` | `EndedIsFrozen` |

None of the checked invariants is inductive. What was added, and why:

* `CaptureQueueProofs`: the shape of rows (leased exactly when owned, live only
  when leased, pending only with a retry left) and `PendingVerdicts`: a terminal
  verdict a slot or a sweep carries from its count to its write is right at
  every moment in between. It is, because an ended job stays as it is: completed
  rows have no owner, so no guard by owner or lease matches them, and breaker
  and sweep select pending and leased rows only. For the refinement, Store maps
  to Capture, the steps that fail jobs to Lose, the two writes of a status to
  Close, everything else to a stutter. `ClosingIsAhead` is inductive next to these:
  each of the five statements that end jobs leaves its slot or its sweep before a
  count, a count after the last end closes, and a write of what it saw either
  closes the batch or hands over to the breaker, which counts again.
* `MeasurementProofs`: what each read of the coordinator has found stays true
  until it freezes (`FreezeSafe`): an ended job stays as it is, a closed batch gets
  no answers, a selection changes only with a leased job or under the lock, and
  nobody but the coordinator itself queues jobs. The last fails with two workers,
  hence the assumption; `TypeCorrect` and `ReviewSafe` hold for any number. The
  types need a count: a parse selects its observation only where none is
  selected, so observations never outnumber human reviews and answers with a
  selection together.
* `DraftRunsProofs`: approving and executing exclude each other only through the
  job, so the proofs are about who may still write a run. A job that has ended
  stays ended, and only a claim of an open job takes a slot to a run; hence no
  slot reaches a settled one. As long as nothing failed, the only slot on a run
  holds its live lease (`OneHolder`), so there is nothing to sweep, and a run
  still to be executed was never approved (`Fresh`). Articles need a word of
  their own: the coordinator's second list holds nothing else. For `RunIsMoving`
  the attempts are tickets (`Tickets`): slots on one run hold different ones, and
  a slot that lost its lease is on a run known to be old. With two of them no slot
  is about to begin while one of the last attempt is past its draft, and a run is
  set back to `queued` under a slot that works only where `cut` says so (`Rivals`);
  so whoever ends a lease leaves a slot that will write the run, and what a crash
  takes away is found by the next start.
* `PublicationProofs`: the rows of a version (both reviews, the quality run)
  never say more than what was last said by a person who had that version, and
  the receipts on a form belong to the revision of the order on it.
* `ReviewJobsProofs`: slots and rows agree on who works, a job that has ended is
  left alone, and a run is opened only by a request that found none open or by
  a late mark. That what is given back has an attempt left needs the number of the
  attempt in the slot to be that of the job while the slot is its owner
  (`Attempted`).
* `ReportProofs`, workflow: nothing keeps an approved draft as it is, so the proof is
  about who may still write it. A step leaves an approved draft alone or puts it into
  `undone` (`Kept`). What a review was given is still the text of its narrative, or
  that narrative is in `undone`; this is an invariant about every review and every
  attempt at one (`Reads`), and gives the text that is frozen although the freezing
  compares ids. The workflow looks whether the newest narrative has a report, the
  freezing takes the one approved last. They are the same as long as no narrative was
  queued while an earlier one of its snapshot was under way, where a draft with an
  open job or an attempt left is under way (`InTurn`): an earlier one is never written
  or approved again, so the workflow freezes nothing twice; `crossed` says that it
  happened. Documents: files are only added, and a slot that has passed a statement
  finds its file there.
* `SessionProofs`, desktop: nothing locks the transcript between the check of a
  message and its `UPDATE`. A run has one page, a page has one request that it
  still hears (`Heard`), and it goes on behind a message it gave up on (`Passed`).
  So of the messages of the current run one at most is between check and
  `UPDATE`, and it fits the end of the transcript (`InFlight`); those of earlier
  runs find another run in the row. A call gets one result because a page that is
  about a call knows that it has none, or replays it at the place the other
  result would have taken (`PagesUntold`). A tool has its effect once because
  what it has done and what open requests will still do is at most one more than
  the times it was cut off, and no request will do anything while the lease is
  out (`Effects`): this counts over the set of requests.
* `SessionProofs`, server: slots, coordinators, sweeps and requests write one row,
  each in statements of its own. The invariant says what each of them knows of its
  session while at work (`GoodSlot`, `GoodCoord`, `GoodMember`), that a turn stores
  one of the outcomes there are, and which states a cancelled session can be in
  (`GoodSession`): the statement that stores an outcome asks for a session that is
  not cancelled, and so does the one that begins a turn, whatever was loaded before.
  `RunningIsServed` needs two more facts: a turn with an owner is leased
  (`TurnsOwned`) and the turn of a slot exists (`SlotsHold`). A step either leaves
  a session undisturbed (its row, turns, requests and sweeps as they were, and
  each slot as it was, elsewhere, or leaving before and after), and then whoever
  served it still does; or it ends the session, cuts it, or puts somebody in
  place: the slot itself, or a turn that no slot leaves. The attempt to prove it
  corrected the model: two losses had been missing in `cut`. A slot may fail or
  die after its neighbour of the same name stored the outcome of the turn they
  share and before it completes it, and a slot that lost its turn may die while it
  is still loading it; a message in between leaves the session running with nobody.
* `MonitoringProofs`: the project is locked before it is checked, so no batch is
  committed between the check and the end; and of a run nobody interfered with,
  one tick looks after it, which carries the closing write once the batch is
  there. The number of the next run moves on only with a batch: a batch is counted
  once, by the tick that carries its write or by the run that was written
  (`Counted`), so it stays within `Runs`.

Only model-checked: the liveness properties (`ConvergesUnlessStranded`,
`RunSettlesUnlessCut`, `AutoDecided`, `MeasurementEnds`, `RunningEndsUnlessCut`,
`WaiterIsWoken`, `RunEndsUnlessCut`, `TurnEnds`, `PassedIsFrozen`,
`DocumentsArrive`, `RunIsServedUnlessStranded`), because fairness and ENABLED are
beyond the prover; and the two violations, which TLC finds. The inductive invariants were
checked with TLC on the runs' instances before they were proved.

## Roadmap

1. `Measurement`: drift records, and the two-worker case if the deployment ever
   allows it; which part of `SnapshotIsCurrent` is left with two.
2. `ProjectLifecycle` over drafts, parses and sessions: the same two locks as in
   `Monitoring`.
3. An abstract specification of what `DraftRuns` and `ReviewJobs` promise (a run is
   decided once), which both implement up to their named exceptions.
4. Proofs: the safety half of the other liveness properties, that is, that what is
   left open always has an actor that will get to it, as invariants, as
   `RunningIsServed`, `ClosingIsAhead`, `OpenRunIsMoving` and `RunIsMoving` are for
   sessions, batches, reviews and drafts; measurement and the desktop turn first.

## Not modelled, and why

Most of the repository's lines are user interface, schema, prompts, document
layout, crawling and formulas: sequential functions of their input, which unit
tests reach and which a model would copy. So the modules cover the protocols and
a small share of the lines. Authorization is a decision over policy tables whose
outcome the models take as a refusal that may happen at any time. Login, logging
and configuration are single statements or best-effort buffers. User interfaces
keep no state the server relies on, except the pages that `DesktopTurn` and
`Publication` have. Provider APIs are the environment: an answer, a failure, a
quota or payment refusal, or a timeout.

Inside modelled components the following is left out: the baseline pair of a
retest report, transaction-start timestamps, the payload, shares and exports of
reports; events, plan, quotas and the stream of the desktop relay; the plan
column and the tools of a session; drift records of measurement; ordering of
claims. Known hazards beyond PROJECT.json's list, without a property: attempts
counted past the limit by a lease that expires in its last attempt, a wake-up
for another thing than the coordinator looked at (`worker/workbench.ts:1883`),
statements inside `catch` blocks that fail themselves, and drift sets computed
from two reads (`worker/measurement.ts:576`).
