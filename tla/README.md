# Verification of the appraisal review service

TLA+ models of the parts of this repository that decide something over more than one step:
durable review jobs, their outbox, queue and workers; the reviewers whose answers resume them;
the ledger that bounds what a run spends; the shared slot for model calls; the transfer of
documents and the publication of results; the local privacy session; the rules, the review
controller and the PDF writer. TLC checks every module on small instances. TLAPS proves the
central properties of the job plane (both stores), of the durable human tasks, of the run ledger,
of the shared model slot and of restoration for every value of the constants.

All paths below are under `src/src/appraisal_review` unless they start with `src/`.

## 1. The system

A submission becomes a **job** with a first **run**. The job store writes a dispatch **round**
into an outbox in the same transaction. A dispatcher hands the round's message to a queue and
marks it; a worker receives the message, **claims** the run under a lease with a fencing token,
executes the review, heartbeats, stages the result body and publishes a reference to it. An
execution may instead park the job with open **human tasks**; an answer commits a new material
revision and starts the next run of the same job. A reconciler reclaims lapsed leases and
reschedules failures whose worker died. Inside an execution, a bounded workflow asks a model for
the next action and charges the **run ledger** for it; every physical model call of the team
passes one **owner slot**. Documents come in through a create-once transfer from a local privacy
session, results leave as a fenced publication that only entitled readers reach, and the privacy
session restores the original values into them locally.

| Component | State | Operations | Talks to |
|---|---|---|---|
| Job state machine (`application/job_state.py`) | none (a table) | `next_state`, `initial_transition` | every store operation |
| Job store, outbox, results (`adapters/local/job_store.py`, `sqlite_review_store.py`) | job, run and outbox rows, staged bodies, references | create, claim, heartbeat, finish, expire, cancel, schedule retry, reject, resume, mark and reschedule rounds | service, worker, dispatcher, tasks |
| DynamoDB job store (`adapters/aws/job_store.py`) | the same rows, versioned | the same port as read, decide, conditional transaction | service, worker |
| Job service, dispatcher, reconciler (`application/review_jobs.py`, `outbox.py`) | a pass's batch, queued messages | submit, cancel, scan, send, confirm, defer, reclaim, recover | job store, queue |
| Runtime worker (`application/runtime_worker.py`, `adapters/local/integrated_service.py`) | the claimed attempt | `process` | service, result store |
| Durable human tasks (`application/human_tasks.py`, `adapters/local/human_task_store.py`) | tasks, revision heads and chains, receipts | register, respond | job store |
| Local task service (`application/workflow_tasks.py`, `adapters/local/human_tasks.py`) | tasks, confirmations, approvals, revisions | handoff, create, pause, respond, re-enter | case review |
| Run ledger and bounded workflow (`adapters/local/sqlite_workflow_run_ledger.py`, `application/bounded_workflow.py`, `controlled_workflow.py`) | reservation, budget, quarantine, cached result, trace | acquire, checkpoint, quarantine, release, complete, abandon; run, decide | model, tools, job plane |
| Integrated session (`application/integrated_workflow.py`, `adapters/local/workflow_runtime.py`) | the stages of an attempt | pin, review, store, register questions, return | run ledger, tasks, documents |
| Model dispatcher (`application/model_dispatch.py`) | one owner slot | acquire, wait, charge, send, release | every model call |
| Competition clients (`adapters/aws/competition_clients.py`, `competition_budget.py`) | the team's budget row | authorize, reserve, send | model dispatcher |
| Page extraction (`adapters/aws/extraction_execution.py`, `application/extraction_budget.py`) | the extraction ledger | render, preflight, attempt, validate | model clients |
| Document transfer (`application/document_transfer.py`) | allocations, contents, documents, snapshots | ingest, snapshot, read | object storage |
| Artifact publication (`adapters/local/sqlite_publication.py`, `artifact_publication.py`) | staged bytes, grants, manifests, accesses | stage, grant, commit, read, revoke | job store, readers |
| Privacy session (`adapters/local/privacy_bridge.py`, `application/privacy_*.py`) | review, approval, mapping, exports; restorations and OCR reviews | review, export; resolve, restore, confirm, download | document transfer, publication |
| Rules and case review (`domain/factor_engine.py`, `domain/case_review.py`) | none | admit, classify, verify, review | controller |
| Review controller (`application/controller.py`, `adapters/local/approval.py`) | material, approvals, audit trail | assemble, confirm, approve, review, write | case review, PDF writer |
| PDF writer and overlay (`adapters/local/pdf_writer.py`, `pdf_overlay.py`) | files, the interpreter's graphics state | write, verify, publish; interpret | file system |

What is hard here: every store operation is atomic (or a conditional transaction on rows read
before), but the operations of several processes interleave freely. A worker may lose its lease
between any two of its calls and carry on; a process may die between any two calls; messages are
delivered at least once and late; answers are lost; a cancel, a revocation or an expiry may land
between a check and the use of what was checked; `now` is read before a transaction starts.
`PROJECT.json` lists forty such hazards at their lines with the properties about them.

What makes the parts correct: accepted work is never lost and never done under two leases; a stale
attempt changes nothing; a terminal job is final; a committed result is the one its own attempt
staged. An answer is committed once, and confirmations do not outlive the material they were given
for. A run never spends more than its budget and never calls again while the outcome of an earlier
call is unknown. Nothing is sent, handed out, published, restored or written that was not admitted,
authorized, confirmed or verified as it is at that moment.

## 2. Modules

A module per component; `MC*` modules instantiate them for TLC. Where one run checks several
components or several instances of one, its MC module EXTENDS one component, INSTANCEs the others
over variables of their own, and a variable `part` says which instance a behaviour is about: the
others rest in their initial state. The parts share no transitions, so such a run is the union of
independent state spaces under one configuration.

| Module | Models | Checked by |
|---|---|---|
| `JobState` | the transition table, one operator per event | all job modules |
| `ReviewJobs` | local and SQLite job store, outbox, queue, dispatcher, reconciler, worker | `jobs_safety`, `jobs_liveness` |
| `JobRows`, `JobLedger`, `DynamoJobs` | the operations of the port as functions of the rows; the atomic port; the DynamoDB store | `dynamo` |
| `HumanTasks`, `WorkflowTasks` | durable tasks of a job; local task service | `answers` |
| `WorkflowRun`, `IntegratedSession` | run ledger and bounded workflow; the stages of an attempt | `execution`, `progress` |
| `RunAuthority` | a run under job plane and run ledger together | `progress`, `authority_dead_worker` |
| `DocumentTransfer`, `ArtifactPublication` | documents in; the report out | `documents` |
| `PrivacyExport`, `PrivacyRefill` | review, export and mapping; restoration | `privacy` |
| `FactorRules`, `CaseReview` | factor engine; whole-case review | `rules` |
| `ReviewController`, `PdfWrite`, `PdfOverlay` | controller and approvals; PDF writing; page interpretation | `report` |
| `ModelDispatch`, `CompetitionSend`, `PageExtraction` | the owner slot; guarded clients and budget; page extraction | `models` |

### Job plane: `JobState`, `ReviewJobs`, `JobRows`, `JobLedger`, `DynamoJobs`

`ReviewJobs` has one function per column of the job row (`status`, `current`, `attempts`,
`takeovers`, `cancel`, `tasks`, `problem`) and of the run row (`token`, `holder`, `lease`,
`version`, `runStatus`), the outbox as a sequence of rounds per job, the staged bodies, the
committed references, the messages in the queue, the batch of each dispatcher's pass, and where
each worker's call of `process` is with what it has read (`wk`). Each store call is one action; the
local variables of worker and dispatcher carry what the code carries between calls.

- *Time.* A lease is `none`, `valid` or `lapsed`, a round is due or not. The authority check of the
  SQLite store compares the deadline with a `now` read before the transaction, so heartbeat and
  finish may pass on a lapsed lease that nobody has reclaimed; `put` reads the clock inside its
  transaction and needs a valid one; a reclaim needs a lapsed one.
- *Identity.* A claim draws a fresh owner, attempt id and fencing token; the token stands for the
  three. `seen` is the attempt id the worker read back after its claim, which is what the result
  store compares.
- *Delivery.* A message stays in the queue until `process` returns, as `SQLiteDispatchQueue` keeps
  it, so a worker's crash redelivers it.
- *Recovery of retryable failures* has no age test (the scan has one, the write has none), which
  allows more behaviours than the code. Scan limits (25 and 10) exceed the rounds of any instance.

`JobRows` states the operations of the JobStore port as functions from the rows of one job to the
set of rows they may lead to. `JobLedger` applies them atomically: that is the port's promise.
`DynamoJobs` is the DynamoDB implementation: a call reads a snapshot, decides on it, and writes its
rows in one transaction that is conditional on the versions of the rows it read; between read and
write other calls commit, and the answer of a write may be lost. A version is not a number: a
commit ends the calls under way whose conditions name a row it wrote, since their own transaction
would be refused. `DynamoJobs` implements `JobLedger` under the refinement mapping
`ledger <- Rows`.

### Answers: `HumanTasks`, `WorkflowTasks`

`HumanTasks` is one job with its tasks, the chain of material snapshots, its head, the receipts by
idempotency key, and the calls of `respond()`. A call reads the task, reads the receipt (replay
before admission) and commits, each in a transaction of its own, so calls from several tabs and
retries interleave. The worker side prepares the head, registers the questions of its run, parks or
ends; every transaction ends with the closing of a terminal job's open tasks. The job row moves by
`JobState`. A correction is a counter per observation, a confirmation membership in a set; the
questions of a revision are a function of its material. `WorkflowTasks` is the in-memory service
with its purposes (fact, correction, evidence, approval, publication): tasks from a handoff, copies
that people act on later, accepted answers, new revisions and re-entry.

### Execution: `WorkflowRun`, `IntegratedSession`, `RunAuthority`

`WorkflowRun` has the ledger row (`row`), the trace, the state of each attempt's session, and the
calls: a runner is a call of `BoundedWorkflowRunner.run`, a decider one of `decide_once`.
`proc[p].pc` says which call of ledger, trace, model or tool comes next. `live` is the attempt the
job plane holds current. `sent`, `tools` and `lost` are history: what was really called, and
whether some call was given up with its outcome unknown.

- The snapshot's states are the four the integrated session reaches; the state determines the
  action, hence the no-progress fingerprint is the state and the failure's reason.
- Wherever the code compares an allowance or a deadline, the model may find it spent.
- A cancelled task meets its attempt no longer current, since the worker cancels an execution only
  after a cancel request, a lost lease or a recorded failure.
- A call that timed out may still be running; its effect on the session is taken when it is given
  up. The trace append runs in a thread: a process cancelled in it may or may not find its event
  stored.
- Direct decisions have no caller in the service itself; they are part of the coordinator's
  interface, and the runner is written to continue their history.

`IntegratedSession` follows an attempt from claim to outcome: sources pinned, revision installed,
reviewed, stored, then a verified result or registered questions; every stage reads the principal
and asks the store in a transaction whether claim, grants and sources still stand. `RunAuthority`
composes the attempts of the job plane with the run ledger, which is bound to the first attempt.

### Documents: `DocumentTransfer`, `ArtifactPublication`

`DocumentTransfer` makes one create-once object after another; between two of them the process may
die, the storage may fail before or after effect, another call for the same export may run, the
attestation may expire, and somebody may rewrite a key (a second storage version, which pinned reads
must survive). `ArtifactPublication` stages bytes under an attempt's key, asks an authorizer as a
callback between an unlocked read and the transaction, grants and commits, for the SQLite
repository (revocation epoch) and the DynamoDB store (conditional transaction on an earlier `now`).

### Privacy: `PrivacyExport`, `PrivacyRefill`

One local session whose lock admits one request at a time; transfers and restorations run in a
thread while deadlines pass, files change, publications move, the key session locks and the OCR
engine changes. `sent`, `seen` (of the way out), a review's `asked` and `delivered` are history the
properties compare with. An OCR review records a page as seen before the check that may still
withhold its image, records a reading before the check in front of its receipt, and a receipt before
the candidate is prepared; `ViewImage`, `ConfirmReading` and `AdvanceFails` may therefore each stop
half way, with what was recorded kept. `asked` says of each image whether it was returned.

### Review and report: `FactorRules`, `CaseReview`, `ReviewController`, `PdfWrite`, `PdfOverlay`

`FactorRules` and `CaseReview` are pure algorithms with stages as steps; their inputs are enumerated.
A rule set need not have a rule for every factor of the request, and the request may be empty.
A reading given as a ratio is compared as a percentage (`ReadAs`), as `fill_candidates.percent` reads it.
`ReviewController` runs the review await by await while sources and approvals change. `PdfWrite`
shares a file system with programs that save, replace, remove or link the same files between any two
steps, and does not trust the rendering library. Taking the destination's name (`Expose`), removing
the temporary file and returning (`Return`) are separate, the removal may fail silently, and a writer
that dies in between has put a verified file there of which nobody was told. `PdfOverlay` interprets one operator per step beside
a viewer that paints the same operator as the PDF standard defines it.

### Models: `ModelDispatch`, `CompetitionSend`, `PageExtraction`

The slot has no expiry, store calls may fail after effect, and a guard may lose its deadline or
authority at any moment. The budget row is updated by compare-and-set. Extraction calls run in
threads that outlive their callers: `page[r]` is the task that extracts a page, `worker[c]` the
thread of one of its attempts, and a thread keeps its slot and its reservation of the shared
`ledger` until it ends. A proposal is a record of sets (rules, contexts, pairs, slots, observed
values); of its texts only the citations, units, states and marks which the code branches on are
kept. The guard's last check (`PassGuard`) and the send (`Send`) are separate steps of a thread that
shares no lock with the ledger, so a request that was admitted before the ledger stopped may leave
after it. `fetched` is history: the regions whose model metadata was asked for.

## 3. Runs

| Run | Instance | Shows |
|---|---|---|
| `jobs_safety` | 1 job, 2 workers, 1 dispatcher, 1 task, 2 runs, 1 crash, 2 attempts, 2 takeovers, 2 claims | no lost work, honest records, every claim paid, stale attempts fenced, decisions stand |
| `jobs_liveness` | 1 job, 1 worker, 1 dispatcher, 1 run, 1 crash, 2 claims, under `FairSpec` | every job ends or waits for a reviewer, every cancel lands |
| `dynamo` | 2 clients, 1 task, 2 runs, 2 attempts, 2 takeovers, 1 deferral, 2 claims | the rows stay sound; the store implements `JobLedger` |
| `answers` | durable: 2 questions, 2 keys, 2 calls, 3 runs, 2 attempts, 1 takeover, 2 claims; local: 3 people, 3 runs, 3 tasks | questions settled once, honest receipts, material is what was answered, exact retries |
| `execution` | 2 runners, 2 direct decisions, 2 attempts, 2 steps, 3 model calls, 1 retry, 2 sends; sessions of 2 attempts | budget, results earned, no call beside an unsettled one, sessions sound, tasks fenced |
| `progress` | 2 runners, 1 decider, 1 attempt, 1 step, 2 calls; 5 attempts of a run under both authorities, with fairness | calls and runs end; a run is settled once |
| `documents` | ingest, snapshot, versions; 2 workers and 2 runs (SQLite); a reader of 1 or 2 runs (SQLite, DynamoDB); 2 workers (DynamoDB) | readers entitled, what is handed out was admitted, publications authorized, checks binding |
| `privacy` | 2 results, 1 page, permission and engine faults, 1 review, 1 archive; exports of 1 and 2 sources | what is sent is known, what is restored is earned, nothing passes unreviewed |
| `rules` | all two-band rules over two boundaries, altered results of 2 factors, forms with every subset of 4 checks | grounded grades and reviews |
| `report` | 1 run, 2 reviewers, 1 edit; 2 writers; pages of up to 5 operators | outcomes earned, pages and files kept, faithful writes |
| `models` | 2 senders, 2 sends, 3 requests, interval 2; 2 processes at the budget row; 27 calls under 21 profiles; 3 pages of 2 runs with 3 calls and 2 slots; a form page and a criteria page with every answer | sends admitted, pages accounted, nothing sent unpaid, nothing admitted in doubt |
| `authority_dead_worker` | 3 claims under limits of 5 attempts and 3 takeovers | violation, see section 6 |

Jobs do not share rows, so one job with two workers contains every race between attempts; two
attempts and two takeovers reach both sides of each limit; two runs are what a resumed job with
leftovers of its first run needs. `jobs_safety` bounds the claims of a job by a CONSTRAINT
(`ClaimsBounded`); the liveness run has no constraint, because one would cut fair behaviours off.
Two questions and two calls are what a lost answer needs; the third run lets a correction follow a
confirmation and be followed by another answer. A budget of two steps is one review and one request
for a reviewer; three model calls and one retry let the selector's own retry and the runner's meet
at the limit. A crash may happen in any attempt. Two callers, two workers or two writers are enough
for every race on one key, grant or destination. Five operators contain the shortest page that ever
needed a special case of the interpreter: save, move, draw, paint and restore.

`CHECK_DEADLOCK FALSE` is set where the system may stop: when every job, call, run or request has
ended and a bound is reached, nothing is left to do.

*Symmetry* is used for workers, dispatchers, clients, keys, calls, deciders, contents and results,
which no property names, and never in a run that checks liveness.

*Fairness.* `FairSpec` of `ReviewJobs`: the tick loop calls reconciler and dispatcher for ever (weak
fairness of their steps); a send is retried until it succeeds and a queued message is offered again
and again (strong fairness of `Send` and `Claim` per message); the worker's deadline makes it leave
its heartbeat loop (weak fairness of the steps that move it); a lease nobody renews lapses. Crashes
are finite and unfair. `FairSpec` of `WorkflowRun` lets every call that has not died take its next
step: the selector has its own timeout, and a tool is ended by the run's allowance or the worker's
deadline. No call is fairly started. `RunAuthority` assumes the job plane's loops for the same
reason.


## 4. Proofs

`tlapm` checks every theorem of the `*_proofs` modules to its last leaf, for all values of the
constants: any number of jobs, workers, clients, calls, attempts and runs, and every policy and
budget. The constants' assumptions are the code's own or name a bound of the model:
`PolicyAssumption` (`JobPolicy.__post_init__`: limits of at least one), `BoundsAssumption` and
`RowsAssumption` (at least one run), `AttemptAssumption` and `SessionAssumption` (at least one attempt), `WorkflowAssumption` (budgets are naturals, each call belongs
to an attempt, a selector sends at least once, `None` is no process), `TasksAssumption` (there is an
observation to ask about; those to confirm are among them), `DispatchAssumption` and
`RefillAssumption` (bounds are naturals), `PublicationAssumption` and `AbsenceAssumption` (times to
live and bounds are positive; `None`, the row that is not there, is no row), `ControllerAssumption`
(finitely many contexts and at least one, at least one request, material names contexts of the case,
and the bounds on versions and revisions are positive), `PrivacyAssumption` (a source has a page, as
`pages` has `min_length=1`; `NoValue` is none of the values), `TransferAssumption` (attestations
are of finitely many exports; `NoValue` is neither an export nor a run), `TaskAssumption` (plans
are finite and of side tasks; registered material is of the configured subjects), `InputsAssumption`
(a case's lists are lists, no rule set ends before it begins, a computed item has a status and, when
verified, a grade and a percentage), `FactorAssumption` (the types of `factor_models.py`: bounds,
cells, numbers and confidences are numbers, optional fields may be `Absent`) and
`ExtractionAssumption` (the budget's limits are at least one and the attempts and slots within its
calls, as `ExecutionBudget` validates; finitely many requests, each of a run; proposals have the
fields of `PageProposal`). The bounds on runs, claims, deferrals, reviews and
files stay in the guards of the actions, with any value.

**`JobState_proofs`** has the facts about the transition table which every store needs: its type,
that a terminal job refuses everything, which events release the lease, that a pending cancel
outranks them, that the limits are kept, what a job that is given back has paid.

**`ReviewJobs_proofs`** (local and SQLite store)

| Theorem | Says | By |
|---|---|---|
| `TypeCorrect` | types of all rows, messages and locals | one lemma per action |
| `LeaseSound` | a lease exists exactly while the job runs, under the newest token | inductive with the types |
| `WorkIsNeverLost` | a job that waits has a pending round, a message or an open task | `WorkKept`, below |
| `RecordsHonest` | a succeeded job has one result, which its own attempt staged; status, problem, cancel and limits agree | `Records`, below |
| `DecisionsMade` | terminal jobs are final; no claim, round or waiting state follows a cancel | `DecisionStands` of each step |
| `StaleFenced` | an attempt that lost its lease writes nothing | `AttemptsKnown`, and that tokens only grow |
| `ClaimsArePaid` | a job is claimed once per counted attempt, takeover and run at most | `ClaimsPaid`, below |

`NoLostWork` alone is not inductive: a dispatcher that has sent a round but not marked it would
take the last trace of the work off the outbox. `InLine` therefore also asks that what a dispatcher
is about to mark is still in the queue and that no worker is busy with the newest round. For the
records, `AttemptKnown` relates a worker's locals to the rows it read them from: a worker past its
first heartbeat has read its own attempt's id, and one that read another's has lost the lease for
good, since tokens only grow (`TokensMove`). Each action is then shown to disturb one job only
(`Ordinary`).

`EveryClaimIsPaid` needs to know who pays in advance. `ClaimsPaid` adds a claim to the account of
every job that may be claimed (`Owed`); the table counts an attempt or a takeover exactly where it
gives a job back to be claimed (`TablePays`), a response that reopens a job starts a run, and a
granted claim adds one pair of run and token to a finite set (`FS_AddElement`).

**`DynamoJobs_proofs`** (DynamoDB store)

| Theorem | Says |
|---|---|
| `InvHolds` | whoever has a call under way has read the rows as they still are |
| `StoreImplementsLedger` | `Spec => ImplementsLedger`: every change of the table is one atomic call of the port |
| `TableSound` | rows agree with each other, results are those of the attempt that published, work waits in line |
| `HistoryKept` | closed attempts, results, terminal jobs and earlier runs are not rewritten |

The argument has two halves. Every transaction of the store is conditional on the job's row and
writes it, so a commit ends all other calls under way; hence `Snapshots`: the rows a call decided on
are the rows it writes to. With that, a commit is a step of `JobLedger`. What such a step may do is
shown without behaviours: for rows `s` and successor `x` of an operation, `SoundRows(s)` gives
`SoundRows(x)`, and `Lawful(s, n, x)`. The initial state maps to the ledger's, and reads, lost
answers and refused transactions map to stuttering.

**`HumanTasks_proofs`** (the durable tasks; the local task service)

| Theorem | Says |
|---|---|
| `InvHolds` | the invariant below |
| `QuestionsSettledOnce` | concurrent answers, with any keys and from pages of any age, never both commit for a question; open questions could be answered |
| `ReceiptsTrue` | what a receipt says has happened and stays so |
| `MaterialHolds` | the head holds every committed correction, on a linear chain, and no confirmation older than one |
| `RetryHonoured` | an exact retry of a committed answer is never refused (the durable half of `AnswersAreExact`) |
| `LocalTasksSound` | open tasks ask about the active run, counted confirmations were given by one person about the present value, a batch hides no finding |
| `LocalAnswersExact` | what is published is what was shown, when nothing is wrong any more; a repeated accepted command is never refused (the local half) |

A call decides on rows it read steps earlier. All that must be kept of those reads is that an
admitted call has *seen* its question open (`CallsAreAdmitted`), because the commit compares the
seen row with the stored one: if it commits, the question is open now, so no committed receipt can
be about it, which gives `AnsweredOnce`. `TasksAreOfTheirRun` and `BatchIsComplete` say why a
waiting job lists exactly its open questions: the attempt that parks has itself stored every
question of its run. `ChainIsCurrent` is `MaterialIsWhatWasAnswered` for the current run instead of
the head, which is missing until the first run is prepared; it counts the receipts, so the step that
adds a correction adds one to a finite set that did not hold its key (`FS_AddElement`).

For the local service, `ReviewIsOfTheRevision` compares the stored review with the one the current
material would get, except for the receipt, which comes and goes without an answer. From it a task
created now asks what is still wrong (`OpenTasksAskNow`), and an accepted answer that moves the run
leaves no task open (`SupersededTasks`). A handoff may be taken up under another plan, and after a
material approval even in another run; `HandoffCoversTheMaterial` therefore speaks of the blockers,
which any plan that is let through must reproduce. `ConfirmRetains` says what a confirmation keeps:
the sides the same person confirmed since the last other change, with the same value and evidence.

**`WorkflowRun_proofs`**

| Theorem | Says |
|---|---|
| `InvHolds` | the invariant below |
| `BudgetHolds` | all calls of a run stay within its budget; a free run's remaining budget is exactly what they left |
| `ResultsEarned` | a replayed result is the trace's history, a success was executed, no reservation leaks |
| `NoCallBeside` | no model call or tool beside one under way, nor after one whose outcome is unknown |
| `RunSettledOnce` | of the attempts of a run one at most works, and a success shows its own attempt's result |
| `SessionInvHolds` | the session's invariant, below |
| `SessionsSound` | what an attempt stores and returns is its own review, made while it held the run; no blocked finding is left without a question |
| `TasksFenced` | questions are registered only under the live claim, the standing grants and the admitted principal |

`OwnersWork`: only the call that holds the reservation works, for the attempt the run is bound to.
The rest is then about one call: `Accounted` says what it still has to charge for, by the place it
is at, `Informed` that it knows the trace's decisions and how a success it is about to report was
earned. `LostIsSettled` is why a lost call is never followed by another: the row is quarantined, or
its owner is about to abandon it, or has died and holds the reservation for ever. `OwnerStep` shows
once that a step of the owner leaves every other call's part true.

`RunSettledOnce` is about `RunAuthority`. Its invariant `RunSound` ties a process to the ledger by
its place: who works has the row bound to its own attempt, before there is a result, and who settles
finds one. `RunEvents` says what the table makes of each event of a run within the limits; only a
published result makes a job succeed.

`SessionsAreSound` rests on what an attempt has established at its place (`ExecutionSound`). A claim
that lapsed, a cancellation, a fence or a lost source is final for the attempts claimed before
(`Unfounded`): a review that was under way then is `shaken`, and the guard in front of the write will
find what it lacks. The row is written once, by the attempt the run is bound to, so the questions it
registers are those of the stored review (`KeptSound`); `AskedWhole` is the case analysis of `_tasks`.

**`ReviewAndDispatch_proofs`** (review controller; dispatch slot; whole-case review; factor
engine; page extraction)

| Theorem | Says |
|---|---|
| `InvHolds` | the controller's invariant, below |
| `OutcomeEarned` | an answer's status, findings, file and audit trail agree, and are earned by what was read, approved and written |
| `TypeCorrect` | types of the dispatch slot |
| `SendsAdmitted` | one request of the team at a time, within its guard's allowance |
| `SendsSpaced` | a full quiet interval before each request |
| `LostOwnersStop` | a slot whose owner died is never taken over |
| `CaseInvHolds` | the invariant of the whole-case review, below |
| `ReviewGrounded` | no number supports itself, readings are kept, checks hold, the order of the slots does not matter, a verified case is complete |
| `FactorInvHolds` | the invariant of an evaluation, below |
| `GradesGrounded` | admitted rules leave no gap, no partial sum is shown, what the verifier passes can be derived by hand |
| `PagesInvHolds` | the invariant of the pages, below |
| `PagesAccounted` | the ledger's limits hold over late workers, pages report the calls they made, candidates are grounded and questioned |
| `NothingAdmittedAfterDoubt` | no request is admitted once an attempt's fate is unknown or a page was cancelled; only one admitted before can still leave |

`OutcomeIsEarned` speaks of the answer, when the sources, the approvals and the log may have moved
on. `ReviewSound` says, by the place a review has reached, what it must have established by then:
nothing is found before `evaluate`, the sources read are the registered ones when it gets there, and
at `decide` and `write` the result is verified and of approved material. `Told` is what `_record`
leaves of a run, whether or not the logger raises; `Fits` relates an answer to the event that
precedes it. `Decide` lets one comparison or a complete map through, and the request refuses other
fields, hence what the writer is asked for is a whole result (`WholeResult`). For the slot the
inductive parts are `ChargedFirst`, `AllowanceKept` and `WaitsAreQuiet`.

The whole-case review takes contexts and slots one by one, in any order the graph of checks allows.
`ContextsInTurn` says that a context passed so far is either blocked or judged by its one rule set;
`FindingsAreEarned` and `ExpectedIsComputed`, that findings and independent values come from the
inputs alone; `SlotsInOrder`, that a slot was trusted exactly if it passes against what is trusted
now. The last is inductive because a slot's judgement depends only on the slots its checks read
(`JudgedFromInputs`), and the order has put all of them before it: a slot taken later cannot change
it, so the order does not matter, and whatever is trusted last rests on something else.

For the factor engine, `BandsCover` is the reason that valid bands leave no gap: of the bands whose
upper end a number respects the first also has its lower end respected, since the one before it ends
there and gives the boundary away. That there is a first one is the library's well-foundedness of the
naturals (`FirstOne`). `NumberReads` shows that a value converted to the rule's unit compares with a
band as the two lengths do, `Graded` that a classification fails only for a reason in the
observation. The verifier's part, `PassedWhole`, needs no induction: what passes equals what it has
computed again.

For the pages, `PagesInv` relates three things that change in different threads. `CallsSound` says
which attempts of a page have been begun, by the place it is at, and that a thread still running is
of its newest attempt; so no page ever has two, although its caller may have left. `ToldOf` says of
each record what became of its call, which stays true because a thread that has answered does
nothing more. `CountsHold` counts: slots are the threads that run, calls those that were begun, and
the pages of the ledger at least those that began one, all finite sets that a step changes by one
element (`FS_AddElement`, `FS_RemoveElement`). `DoubtStops` is why nothing is admitted after doubt: an
unknown attempt and a cancelled page have stopped the ledger, it never starts again, and the guard
asks it once more right before it lets a thread send. `Earned` carries a candidate's citations and questions from
the step that accepted it; what `_validate` accepted, `Localized` has marked as the model's proposal,
hence every side of it is put to a person.

**`PrivacyRefill_proofs`** (the way back; the way out)

| Theorem | Says |
|---|---|
| `TypeCorrect` | types of the restoration session |
| `RestoredEarned` | readings were made on pages whose images were asked for in that review and stage, receipts are of stages read completely, complete reviews have both, a review writes one file |
| `EvidenceArchived`, `WrittenAuthorized` | no evidence is dropped unarchived; what is written is of the current, pinned publication |
| `SentKnown` | a preview is sent once at most, under a mapping stored before for that very command |
| `Reviewed` | what is sent was seen, page by page, under exactly the selections it was built from |
| `HandlesKept`, `ExportedStable` | no handle is lost and no exported manifest rebound before a restart |

Of a review, `Honest` says that its readings are of its stage and its receipts of cells all read, which
`ReceiptHonest` and `PreparedHonest` show of the two ways a stage moves on, finished or interrupted.
`WorkSound` carries what a restoration under way relies on across the thread it runs in; `Room`
bounds the reviews including the one about to open. Of the way out, `ReviewShown` ties the pages a
review counts as previewed to what was really on the screen, under the selections as they are now.
`TransferSound` says, by the place a transfer has reached, what it may rely on after each callback:
its preview is taken, its mapping is stored for that preview's manifest and command, the preview was
looked at, and at the last admission the review is still the one it was built from. `PreviewFresh`
says that a preview nobody has attempted was not sent, which is why sealing it cannot send it twice.

**`ArtifactPublication_proofs`** (the report out, both stores; documents in)

| Theorem | Says |
|---|---|
| `InvHolds` | the invariant below |
| `ReadersEntitled` | who is given an artifact was entitled to it when he began, and gets the bytes of the result |
| `PublicationAuthorized` | only the attempt that holds the job commits, and nothing after a revocation |
| `TransferInvHolds` | the invariant of the way in, below |
| `HandedOutAdmitted` | one identity per export, one set of entries per run, the signed content in every read, an event for every answer |
| `ChecksBind` | reads of a run go through the records it pinned; a lapsed attestation admits nothing |

The authorizer runs as a callback between two transactions, so what it was called about may be gone
when it answers. `AttemptSound` says what an attempt may still rely on then: that the job is not
behind it, that its approval was begun before any revocation, and that the object under its own key
is what it verified, since staging is create-once (`ObjectsKept`). `CommitGuard` shows that both
stores commit only under `Commits`. A reader passes four authorizations; `ReaderSound` says, by the
round he is in, what he has seen, and that what the job had lost when he began stays lost
(`JobKept`). The DynamoDB store does not look at the job when it reads and also hands out what an
earlier run published; the model records a run as lost only for the store that refuses it, and
`ReadersGetTheResult` speaks of the run that was asked for.

On the way in, a call is a chain of create-once objects that may break anywhere, and keys are written
again by others. All that later steps need is that objects only grow (`FilesGrow`): an allocation is
never rewritten, so `AdmittedAs`, that a reference's identity was allocated for this attestation, stays
true once it is; a storage version stays what it is, so does `Backed`. `CallSound` says by operation
and place what a call has established in these terms, and `CallStays` shows once that others' steps
leave it true. `AllocationsSound` makes numbers fresh, hence two admissions under one number are the
same (`AdmittedOnce`). `DocumentsSound` asks for the content only of the first version of a record,
the one the service wrote.

Every inductive invariant was checked by TLC on the instance of the component's run before it was
proved (those of `rules` on requests of one pair and on the context cases with samples of the forms).

## 5. What is only model-checked

- *Liveness*: `EveryJobSettles`, `CancelLands`, `JobEnds`, `EveryCallEnds`. Fairness, and the
  enabledness it speaks of, are out of this prover's reach.
- `models`: of `NothingIsAdmittedInDoubt` the part of the competition budget (`RevocationStops`,
  `WindowHolds` and `CallsAreAccounted`, which the run checks within it), and of the ledger
  `TokensAreReserved`: sums over all calls are folds, and about folds nothing can be proved here.
- `report`: `PagesAndFilesAreKept`, `WritesAreFaithful`.

## 6. Where code and documentation disagree

`authority_dead_worker` is checked as a violation. `DeadWorkersCostNoAttempt` states
`src/docs/adr/0015` (line 62), that a dead worker consumes no business attempt. The run ledger binds
a run to the attempt id of its first acquisition (`sqlite_workflow_run_ledger.py:67`), so the attempt
that takes over is refused, and its refusal is a retryable error: each dead worker costs attempts,
and in the end the job.

Eight smaller disagreements are stated as definitions that no run checks. TLC finds each violated in
the instance of the last column, with the definition named as the invariant or property (for a
component which the MC module INSTANCEs, through that instance).

| Definition | The code does | Against | Instance |
|---|---|---|---|
| `ReviewJobs!DispatchedIsHandedOver` | a late confirmation of an old run's round moves the new run to dispatched (`adapters/local/job_store.py:574`) | `adapters/aws/job_store.py:774` | `jobs_safety` |
| `ReviewJobs!PublicationSurvivesCancel` | publishing is refused under a pending cancel (`adapters/local/sqlite_review_store.py:553`) | `application/job_state.py:140` | `jobs_safety` |
| `ReviewJobs!OneFailureKeepsThePass` | a failed send of a round that another dispatcher has marked ends the pass (`application/outbox.py:81`) | `application/outbox.py:78` | `jobs_safety` with 2 jobs, 2 dispatchers, 1 worker, 1 run, 1 claim, no crash |
| `FactorRules!BandsAreDisjoint` | admits rules in which a value fits two bands (`domain/factor_models.py:174`) | `domain/factor_models.py:177` | `rules`, `Bands` |
| `PdfOverlay!AnnotationsAreSeen` | an annotation whose rectangle names its corners in another order is not seen (`adapters/local/pdf_overlay.py:459`) | `pdf_overlay.py:336` | `report`, `Style` with `TurnedNotes` |
| `PdfOverlay!StrokesAreBounded` | the corners of a projecting square cap are not counted (`adapters/local/pdf_overlay.py:608`) | `pdf_overlay.py:174` | `report`, `Style` with `CapOps` and 5 operators |
| `CompetitionSend!ReviewOutlivesReservation` | a call is reserved and sent after its data review has expired between the check and the reservation (`adapters/aws/competition_clients.py:129`) | `application/competition_data.py:61` | `models`, `Budget` with `ReviewEnd <- 1`, `WindowEnd <- 3` |
| `PrivacyRefill!ReadPagesWereShown` | a page counts as seen although the second check withheld its image, and is read once the authority is back (`application/privacy_refill_review.py:411`) | `application/privacy_refill_review.py:424` | `privacy` |

## 7. What is not modelled

- The HTTP API: it maps requests to the service calls modelled here, one call each.
- Evaluation, golden data and the synthetic workbench: development tools that read fixtures and
  write reports, with no state the service shares.
- The web workbench: a client of the API.
- The in-memory run ledger, which only tests use; `WorkflowRun` follows the SQLite one.
- Encodings, digests and wording. A digest is the identity of what it digests, an id is fresh; both
  are taken to be collision free.
