# Switchboard, specified and verified

Switchboard (`src/backend/switchboard`) investigates customer requests to move
the endpoint of an integration, turns them into change proposals, and takes a
proposal through independent approval, execution and delivery verification.
All shared state is in one DynamoDB table; API requests, queue workers, workflow
handlers and hourly maintenance are short Lambda invocations that read items one
by one and commit them in conditional transactions. So nearly everything that can
go wrong is an interleaving of such invocations, or one of them that dies in
between. The specifications model invocations at exactly that grain: a read is a
step, a transaction is a step, a call to another service is a step, and an
invocation may be gone after any of them.

## The system

| Component | State it keeps | Operations | Talks to |
| --- | --- | --- | --- |
| Change management (`change_management.py`, `proposals.py`, `delivery_verification.py`, the save/verify half of `dynamodb.py`) | INTEGRATION, TICKET, PROPOSAL, FINGERPRINT, APPROVAL, EXECUTION, VERIFICATION items | validate and save a proposal, approve, execute, verify | directory and registry records, the receiver |
| Receiver (`receiver.py`, `integrations/delivery_service.py`) | one receipt per event id | accept a signed test event | called over HTTP by verification |
| Investigation jobs (`jobs.py`, `investigation/runner.py`, `investigation/workflow.py`, the worker half of `dynamodb.py`) | JOB, IDEMPOTENCY pointer, ACTIVE marker, usage counters, CHECKPOINTs, RUN | submit, dispatch, claim, checkpoint, publish, fail | SQS, Step Functions, the models |
| Workflow callbacks (`workflow.py`, the state machine of `aws/template.yml`) | the executions and their task tokens, FLOW items | start, resolve, register a wait, advance, signal, report an investigation | every committed action, SQS, maintenance |
| Maintenance (`maintenance.py`) | a scan cursor | fail dead-lettered jobs, resend pending jobs, send lost callbacks, clean up | all of the above |
| Workspaces (`dynamodb.py`, `demo/workspaces.py`, `demo/scenarios.py`, `api/context.py`) | META, STAGING and the generation of a workspace | initialise, reset, open, touch, delete, clean up | fences every other write |
| Investigation agent (`investigation/workflow.py`, `report_validation.py`, `runner.py`) | drafts and accepted reports in checkpoints, as chunks and manifests | draft, review, revise once, propose, publish | the models |
| Workflow status (`workflow_status.py`, the reading half of `change_management.py`) | none | show a proposal, list requests | reads all receipts |
| Releases (`scripts/aws.py`, `.github/workflows/deploy.yml`) | the stack and its change sets, the saved previous deployment, a health receipt | release, roll back, check | CloudFormation |
| API, authentication, command line, frontend, infrastructure | none that the above relies on | routes, tokens, presentation | |

Interactions worth a second look:

* Two investigations of one ticket produce **one** proposal (a fingerprint of the
  business snapshot decides), so two executions wait for the same receipts.
* An action is committed first and its execution is told afterwards; the request
  that does both may die in between, and it tells only the run it came from.
* A worker's writes carry three conditions that are added by the store, not by
  the caller: the job is still the claimed body, the generation is still active,
  and the requester still has access.
* What is checked before a transaction (change window, registry, approver) is not
  compared in it; what is compared in it (the integration) is.
* A workspace is replaced by writing a new generation beside the old one and then
  naming it in META. Requests stay bound to the generation they began with, read it
  without protection while maintenance removes it record by record, and are stopped
  at their next write.

### What makes each component correct

* **Change management.** A production execution has an earlier approval by
  somebody else who was entitled to give it; execution receipts are the version
  history of the integration; receipts never change; every caller is told what is
  stored; a delivery is reported only if the receiver has the event and the
  executed configuration is still the current one; the ticket shows the outcome
  of its newest verified execution.
* **Investigation jobs.** One unfinished job per ticket and key, its marker exactly
  as long as it is unfinished; a result if and only if the job is completed; late
  writes of an earlier claim change nothing; a terminal job stays so; exactly the
  created jobs are charged; a job that was saved gets finished.
* **Workflow callbacks.** No wait is passed without a receipt; a waiting execution
  can be found; a committed action advances the executions that wait for it.
* **Workspaces.** A retired generation is never written or read as current; a
  workspace in use is not cleaned up; a reset is all or nothing.
* **Investigation agent.** What is published was reviewed in the form in which it is
  published, whatever an attempt resumed from; a proposal belongs to an accepted
  report; a result can be read whole as soon as it can be found; an attempt is not
  refused because of what it has written itself.
* **Workflow status.** A status that is shown was true at some moment of the reading.
* **Releases.** A blocked release has changed nothing; only a checked change set of
  the running invocation is executed; the receipt says what runs.

## The modules

| Module | Role |
| --- | --- |
| `Items` | tables of stored items and the conditional puts and deletes on them |
| `ChangeManagement` | change management with the receiver and the delivery service |
| `ChangeControl` | the abstract specification of it: every operation atomic |
| `InvestigationJobs` | submission, dispatch, workers, dead letters and rescans |
| `JobLedger` | the abstract specification of it: an open job per ticket, closed once |
| `WorkflowCallbacks` | the state machine, its waits and the callbacks |
| `Workspaces` | generations of one workspace: staging, use, expiry, clean-up |
| `WorkspaceRecords` | the abstract specification of it: records appear and disappear at once |
| `ReportValidation` | the rules on a report as operators: results, verdicts, revision, receipt |
| `InvestigationGraph` | the attempts at one investigation, with chunks and transactions |
| `ReportLedger` | the abstract specification of it: reports saved at once, in order, for good |
| `ProposalReview` | a reader composed with `ChangeManagement` |
| `Release` | releases, rollbacks and CloudFormation |
| `MC...` | the small instances, their symmetry and the values of function constants |
| `...Proofs` | the theorems |

A definition whose comment calls it a *mutant* is no part of a model. It is the
definition next to it with one plausible mistake; substituting it has to break a
property, which shows that the property depends on that line of the code.

### How the models correspond to the code

**Local state.** `request[r]`, `worker[w]` and `process[x]` are running invocations.
`pc` names the next read, call or transaction; the other fields are the local
variables that survive to it. `Idle` is an invocation that has returned, raised or
died; `End` (`Abandon` for a worker) lets it do so anywhere, so every crash is in
the model. Answers are kept (`Answer`) where a property is about what the caller
is told.

**Items.** A kind of item is a function whose domain is the set of existing keys.
`PutIfAbsent` is `put(..., absent=True)` whose loser reads the winner's item, and
`IsUnchanged` is the body comparison of `DynamoStore.replace`. A transaction is one
action whose guard is the conjunction of its conditions; a cancelled transaction is
the action's other branch (409 or the stored receipt, whatever the code does).

**ChangeManagement.** `ValidateProposal` / `RecheckProposal` / `CommitProposal` are
`validate_proposal` and `save_proposal`; `CheckReviewer` / `CommitApproval` are
`approve_proposal`; `CheckExecutor`, `RecheckRecords`, `CheckApproval`,
`ReadConfiguration`, `CommitExecution` are the steps of `execute_proposal` and
`apply_execution`; `CheckVerifier`, `SendEvent`, `Observe`, `LoseResponse`,
`RefuseEvent`, `ReadRequirements`, `CommitVerification` those of
`verify_execution_delivery`. `ReceiveEvent` is the receiver, and an event on the wire
may arrive after its sender has given up. `ChangeEmployee`, `ChangeCustomer` and
`Tick` are the world outside: somebody leaves or returns, the registry is narrowed,
time passes. Text, evidence and hashes are abstract; the fingerprint is the business
snapshot itself, since equality is all it is used for.

**InvestigationJobs.** `Submit` to `Answer` are the reads and transactions of `submit`;
`Send` / `MarkSent` are `dispatch`; `Receive`, `Claim`, `AuthorizeClaim`, `Save`,
`Publish`, `Reject` and `Acknowledge` are the worker with the checkpoints of the
investigation graph (`Stages`: draft, validated, publication); `ReadDead`, `FailDead`
and `Rescan` are maintenance. A lease is an element of `lease` that `Expire` removes at
any time, including while its worker still runs. `Redeliver` is SQS: at most
`MaxReceives` deliveries, then the dead-letter queue. `holder` is what authorisation
depends on: who is assigned to a ticket and still has the role and the customers for it;
`ChangeAccess` takes and gives it. The usage counters are shared by all workspaces, so a
counter starts with what others have used (`Earlier`). Dispatch has two configurations
(`StateMachine`). With a state machine, the one that `aws/template.yml` deploys, `Start`
begins the execution named after the job and `MarkSent` marks the job before any message
exists; `SendMessage` is the execution's `Investigate` state and `FailExecution` its end
before that, after which no later start begins it again. Without one `Send` puts the
message into the queue itself, once more by every invocation that has read the job as
pending. What becomes of the execution after its message is in `WorkflowCallbacks`.

**WorkflowCallbacks.** `phase[run]` is the state of the execution, `token[run]` the
number of its latest task token; `Enter` is what Step Functions does on entering a wait
(a new token, and an invocation of the wait handler). A wait handler is the process
`<<run, token>>`: `ReadPrevious`, `Register`, and then the four steps of `advance` that
API requests and maintenance share: `ReadWaiting`, `ReadReceipt`, `Callback`,
`DeleteWaiting`. `Callback` on a token that is not awaited changes nothing, as
`_callback` swallows the service's refusal. `Commit` stands for an operation of
`ChangeManagement` that has committed; `FinishJob` for one of `InvestigationJobs`.
`Faults` selects what the service may do: fail the first task, retry a wait whose
handler still runs, fail a handler, run out of time. `MaxTokens` bounds the retries and
nothing else: a wait is tried again (`RetryWait`, `HasToken`) only if a token is left for
every wait ahead, so that no callback and no transition is ever held up by the bound.

**Workspaces.** `items[g]` is the partition of generation `g`, `meta` the META item.
`BeginStaging`, `Stage`, `Seed` and `Publish` are `DynamoStore.initialize` with `reset`
inside it; `Reset` and `InitializeImplicitly` are its callers, and the third one,
`open_demo_workspace`, is an initial state, since it stages each workspace once under a
new id. `Open` is `get_request_context`; `ReadTouch` / `Touch` and `ReadDelete` /
`DeleteExpired` are `workspace.touch` and `workspace.delete`, which read META again;
`Fence` and `Commit` are `transaction`. Maintenance acts on what its scan has returned
some time before, hence `ScanMeta` / `ReadExpiry` / `Expire` and `ScanRecord` /
`ReadActive` / `ReadStaging` / `RemoveRecord`. Clock times are ages that `Tick` advances;
`Tick` waits for an invocation that has reached its timeout, as Lambda ends it then.

**InvestigationGraph.** An attempt is one delivery to a worker. `Load` / `Hydrate` are
`load_checkpoint`, `Investigate` the draft, `Review` and `Revise` the rounds of
`validate_investigation_report`, `Prepare` and `Reread` the proposal. Writing goes through
one transaction at a time: `Write` says what it writes (a chunk, a manifest, a result with
the end of the job, the proposal with its fingerprint, a failure), and `Commit`,
`LoseAnswer`, `Conflict` and `Refuse` are the four things that can happen to it in the loop
of `transaction`. `Refuse` is its 409: the claim or the missing fingerprint no longer
holds, or the employee, the ticket or META has been written since it was read. Those three
belong to other components and are written by them at any time, so that is an open choice
(`stale`); `LoseAccess` is the check before the transaction is put together. A report is who drafted it,
its outcome, and who wrote its findings, which is what distinguishes reports that may and
may not be published. `InvestigationJobs` treats the same stages as single steps, as it is
about the claim and the queue.

**ProposalReview.** One reader is added to `ChangeManagement`; `Open`, `ReadExecution`,
`ReadVerification` are the reads of `get_proposal_review`. `since` remembers how far the proposal had come when the reading began.

**Release.** `aws` is the running invocation of `scripts/aws.py`; `Raise` is an exception,
and what becomes of it depends on where it is raised. `Cancel` ends the invocation
anywhere; a change set it has asked for may appear later (`sent`, `CarryOut`), and an
update goes on without it (`FinishUpdate`, which may also undo it). An execution it has
asked for is assumed to be accepted or lost before the next invocation begins: it is a
single call, whereas sam uploads before it creates a change set. What a release saves is
the parameters and the template, read and written one after the other; read around the end
of an update (`Deployed`) or written by halves (`SaveHalf`) they are a mixture, which may
be any template.

## The runs

| Run | Question | Instance | Distinct states |
| --- | --- | --- | --- |
| `change_races` | do racing invocations keep approvals, receipts and answers right while people leave, the registry is narrowed and the window closes, and implement atomic change control? | 1 production integration, 2 employees, 1 ticket, 2 proposal ids, 2 invocations, a clock | 800,000 |
| `change_sandbox` | are receipts the version history, reported deliveries real, and outcomes recorded only of what runs, when two tickets fight for one integration? | 2 tickets, 2 invocations, sandbox | 321,000 |
| `change_sequence` | what do the ticket and the review page show during a long sequence that moves the endpoint back? | a sandbox integration with 2 tickets and another customer's production integration with 1, 3 proposals, 1 invocation, 1 reader | 738,000 |
| `jobs_races` | one unfinished job per ticket, and keys that keep leading to their job? Is exactly what is created charged? Does it implement the ledger? | 2 keys, 2 submissions, 2 job ids, 1 worker, an allowance of 2 of which others may have used 1; messages sent directly | 1,617,000 |
| `jobs_liveness` | does every job finish, and do duplicates, expired leases, lost access and dead letters leave results and states consistent? | 1 submission, 2 workers, 2 receives, access that comes and goes, executions that may fail before their message | 117,000 |
| `workflow_stages` | is any wait passed without its receipt, with every fault? | 1 production execution that may retry a wait, 4 tokens, 1 caller | 4,679,000 |
| `workflow_liveness` | do committed actions and finished jobs always advance the execution of one run, and can a waiting one always be found? | 1 sandbox execution, 3 tokens, 1 caller, failing handlers and tasks, timeouts | 11,400 |
| `workspaces` | is a workspace ever seen half-seeded, written after it was retired, or removed by maintenance while in use? Does it implement records that appear at once? | 2 invocations, maintenance, 3 generations, a demo workspace or one that can be reset | 2,415,000 |
| `investigation` | is anything published or proposed that was not accepted in that form? Do chunks and lost answers implement reports saved at once? | 3 attempts, 2 chunks, 2 tries, 2 issues | 1,078,000 |
| `release` | what has been executed, and what runs, whatever was cancelled before? | 3 invocations, 2 healthy templates and a broken one | 905,000 |
| `jobs_lost_access` | (finding) | 1 submission, access that may be lost | |
| `workflow_retry` | (finding) | 1 sandbox execution, 4 tokens, retried waits | |

**Bounds.** Two invocations suffice for the races of this code: every transaction
compares what *one* invocation read with what *another* committed since; a third would
only repeat the part of the second. `change_sequence` trades the second invocation for a
third proposal, because the hazard there is a long history and not a race; its endpoint
moves back in a sandbox, where nothing waits for an approval, and the other customer's
change shows the reader one that does. `MaxReceives = 2` is the first duplicate and the
dead-letter queue after it; `MaxCopies = 1` bounds the messages of one job that wait in
the queue at once. `MaxTokens` leaves a sandbox execution one token per wait on its way
(investigation, execution, verification) in `workflow_liveness`, where nothing is
retried, and one retry more in `workflow_retry`. In `workflow_stages` a run of the demo
portfolio, whose investigation is done, can retry a wait; that of a new run needs all
four for its path. The service allows ten, as the three waits of a production change are
tried up to three times each. `MaxTime` and `MinutesPerDay` let a change window close
once between a check and its use; `MaxEvents` is a first test event and a repeated one.
In `workspaces` the life of a workspace and the hour of grace are three ticks and an
invocation one; what matters is their order (`TimeoutsAssumption`), and three
generations are a current one, its successor and one that is being cleaned up. An entra
workspace does nothing that one of the command line does not do. One seeded record is
enough there, because every transition between none and all of them is the interesting
one. Three attempts in `investigation` are a late one, its successor that resumes, and
one that resumes from the successor; two chunks are a first and a last one, two tries a
conflict that is tolerated and one that is not. Three invocations in `release` are a
cancelled one, a second one it disturbs, and a rollback after both.

**Deadlock.** The workflow runs do not check it: an execution that has ended and whose
receipts are all committed has nothing left to do. Nor do `investigation`, where a job ends,
and `release`, where the number of invocations is bounded.

**Fairness.** `InvestigationJobs!FairSpec` assumes what SQS and the schedule provide: a
message that can be received again and again is received, and redelivered or moved to
the dead-letter queue afterwards; every lease expires; every invocation ends, at the
latest by its timeout (`Abandon`, `End`); a started execution sends its message or
fails; the hourly scan comes back to every pending job and every dead message, and its
sending and failing steps succeed at some time when they are tried for ever. Nothing is
assumed of the workers: each may die every time, which is why the dead letters matter,
and no employee has to repeat a request. `WorkflowCallbacks!FairSpec` assumes that Step
Functions runs a started task and invokes the wait handler, that the hourly schedule
comes back to every FLOW record, and that each step of advancing one succeeds at some
time if it is tried for ever (strong fairness, because any particular attempt may die).
Nothing is assumed of employees: an approval may never come, and a request may die right
after its commit.

## What is proved

`ChangeManagementProofs` (TLAPS), for any employees, customers, tickets, integrations,
proposals and invocations:

* `TypesAndReliance`: types, and what an in-flight invocation relies on. The inductive
  invariant is `TypeOK /\ ReliedUponStaysTrue`. The second half says for every `pc` what
  the steps before it have established and nobody can take back: the proposal it names
  exists, the approval it read is the stored one, the event it waits for is its own. It
  is needed because the commit steps do not check these facts again.
* `ApprovalBeforeExecution`: every production execution names an approval that is stored,
  earlier, and given by somebody other than the proposer. It follows from the previous
  theorem and `StepKinds`, which sorts the steps by what they write.
* `ReceiptsAreTheHistory` (and `ReceiptsFormAChain`, its second half): the executions of
  an integration have pairwise different resulting versions, fill the interval since the
  initial one, and form a chain of endpoints that ends in the current one. The induction
  extends the history by the one receipt that `CommitExecution` writes, using the body
  comparison of the transaction.
* `RecordTypes`: the types by themselves.
* `SavesAreDeduplicated`: only a saved proposal writes proposals and pointers, and it
  writes both, under the two conditions of its transaction.
* `ReceiptsAreKept`: every kind of step keeps every table (`ReceiptsStay`).
* `DeliveriesAreBacked`: the receiver gets a receipt only for a change that is executed
  and at the executed endpoint (`ReceiverKinds`), because of what an event on the wire
  relies on; a verification that says "delivered" has seen that receipt.
* `TicketsAreCurrent`: a verification commits only while its execution is the newest of
  its integration. That makes it the newest of its ticket only because all proposals for
  a ticket are about one integration (`TicketsKeepTheirIntegration`: a verification
  changes the status of a ticket and nothing else), and because versions are receipts
  one to one (`ReceiptsAreTheHistory`).
* `OutcomesAreCurrent`: the version that the transaction compares is the tested
  execution's, and the history says which endpoint goes with it.
* `AnswersAreTrue`: `AnswerKinds` shows that an invocation that answers has found or
  written the record it answers with; afterwards no record changes. The answer of a save
  that finds a pointer needs `OneProposalPerSnapshot`.
* `RequestsImplementControl`: the refinement of `ChangeControl`. `StepKinds` and
  `ReceiverKinds` leave six kinds of step; one is hidden, each of the others is one
  atomic operation (`RefinesPropose` to `RefinesJudge`).

`ProposalReviewProofs` adds the reader:

* `ShownIsTrue`: a shown status is between what was true at the beginning and at the end
  of the reading. `ReadingIsSound` says what a reader knows of receipts that it has not
  read yet: one that is missing now was missing when the reading began. With the order
  in which receipts come (`ReceiptsComeInOrder`, from `ApprovalBeforeExecution`) the
  furthest receipt that was read tells how many there are.

`InvestigationJobsProofs`, for any employees, tickets, keys, jobs, submissions, workers,
messages and allowances:

* `JobTypes`, `TicketsAreLocked`, `ResultsComplete`, `OneClaimAtATime`,
  `RetriesFindTheirJob`, `JobsOnlyAdvance`, `ClaimsGuardWrites` and `AllowanceIsKept` are
  the safety properties of the runs, all from one inductive invariant, `Inv`. `StepKinds`
  sorts the steps by what they write: a job is created, marked as sent, leased,
  checkpointed, finished or failed, or nothing is written. To the properties `Inv` adds
  that a message in the queue has a delivery left (`VisibleCanBeReceived`), what a
  submission, the scan and a worker know of the job they have read (`KnowsItsJob`,
  `KnowsItsClaim`), and that the jobs are at most the charges (`JobsAreCharged`). Attempts
  only grow (`Grows`), so a version of a job that a worker holds is never stored again
  once it was replaced, and the comparison that each of its transactions makes excludes
  every earlier holder; and a job is claimed only in a version whose lease has ended,
  which is why a lease is always that of the latest claim.
* `JobsImplementLedger`: each of these kinds opens one investigation of `JobLedger`, ends
  one, or is hidden from it.

`InvestigationGraphProofs`, for any attempts, parts of a report, tries and issues:

* `GraphTypes`, `ReportsAreReviewed`, `ProposalsAreBacked` and `NoSelfRefusal`, from one
  inductive invariant. It says what the manifests have to do with each other
  (`ManifestsFollow`) and with their chunks (`ManifestsAreWhole`), and for every attempt
  what it knows at its `pc` whoever holds the claim by now (`Knows`): where a report it
  resumed, reviewed or revised comes from, and which of its chunks are stored.
  `ClaimantKnows` is for the attempt that holds the claim: what is not visible yet, and
  that after it has completed the job it has nothing left to write. Since a transaction
  whose answer was lost is sent again, both distinguish whether the one under way has been
  applied; that is what shows that repeating it is never taken for a conflict. The
  result ends the job it compares and the proposal takes the key that has to be absent, so
  an attempt could well be refused by its own write; `NoSelfRefusal` says that it is
  refused only by others.
* `GraphImplementsLedger`: the refinement of `ReportLedger`, in which a report is saved
  at once. A report appears when its manifest is committed, and `ManifestsAreWhole` says
  that all its chunks are readable then and stay so.

`ReleaseProofs`, for any number of invocations and templates:

* `ReceiptsAreTrue` and `UpdatesAreChecked`. The inductive invariant
  says that change sets and saved deployments belong to past invocations (`IdsAreOld`,
  `ReceiptIsOld`, `SavedOne`) and what the running invocation owns, has done and intends
  at its `pc` (`Fits`). An invocation finds its change set among those that were not
  there before, and an update that runs while it waits deploys its own template, so what
  cancelled invocations have left can stop a release but is never mistaken for its own.

`WorkflowCallbacksProofs`, for any runs, calls, tokens and faults:

* `FlowTypes` and `StagesFollowSavedReceipts`. The strengthening is
  `CallbacksHaveReceipts`: a process at its callback has seen the receipt of its stage;
  `TokensSuffice` is for the types: an execution has a token for every wait ahead of it.
  `PhaseStep` shows that any step takes an execution only to a justified state, and
  `JustifiedStays` that receipts and outcomes are never taken back, so a late, repeated
  or misdirected callback is harmless for safety.
* `WaitingExecutionsAreFound`, for all faults but "retry": a waiting execution is saved
  under its current token, or the handler that will save it is still to do so. The
  inductive invariant `Registration` adds that a handler about to register has the
  current token of its execution (`HandlersAreCurrent`), that nobody knows a token that
  does not exist yet (`TokensExist`), and that a process deletes a saved wait only when
  its token has been used (`DeletedWereUsed`). The argument is that an execution only
  moves forward (`Ranks`, `FlowMoves`), so it enters every wait at most once and a wait
  has one handler. The assumption is needed: `workflow_retry` is what happens without it.

`WorkspacesProofs`, for any requests, generations, records and kinds of workspace, and any
timeouts that keep to `TimeoutsAssumption`:

* `TypeCorrect`, `WorkspacesAreWhole`, `CommitsAreFenced` and `UsedIsKept` are the four
  properties of the run; `WorkspacesImplementRecords` is the refinement, for which
  `RefinesInit` maps the initial state and `RefinesNext` every step to an abstract step or
  a stutter. All are read from one inductive invariant, `Inv`, because none is inductive
  by itself. Nobody else knows a generation that is being staged (`StagersAreAlone`,
  `UnstagedAreUnknown`), so its items are exactly what its stager has written
  (`SeededStays`) and appear at once when META names it. A published generation keeps its
  STAGING record (`ActiveIsWhole`), and if it was published after the scan had found it
  inactive, that record is younger than an invocation and the scan together
  (`ScansSeeStaging`), hence younger than the hour of grace: what maintenance removes is
  retired (`RemovedAreRetired`). What it has read of META is still there or has been used
  since (`ScansAreCurrent`), and who is bound to the active generation has missed nothing
  of it (`ReadsAreWhole`).

`ItemsProofs` holds what the others need to know of puts and deletes.

The proofs use only the named assumptions on the constants: `RecordsAssumption` and
`TimeAssumption` (the initial records have their types, a day has minutes),
`JobsAssumption` (every ticket has an employee, what others have used is within the
allowance, a message is received at least once), `BoundsAssumption` (there are attempts,
a report has parts, a write is tried), `TemplatesAssumption` (what runs first and what
is healthy are templates), `CallbacksAssumption` (a handler is not a call, and there are
more tokens than a production or sandbox change has waits), `TimeoutsAssumption` (an
invocation and a scan together are shorter than the hour of grace and no longer than a
lifetime) and `NamesAssumption` (records and generations have different names). TLC
evaluates them on the runs of the modules that state them.

**Only model-checked.** Every safety property and every refinement that the passing runs
check is a theorem. What is left to TLC is liveness (`JobsFinish`, `CommittedActionsAdvance`,
`FinishedJobsAdvance`): it needs fairness and ENABLED, which the prover has not. The
liveness results hold for the instances above and say nothing of larger ones.

## Findings

* `jobs_lost_access`: maintenance skips a pending job whose requester has lost access, so
  the job stays queued and its marker keeps the ticket locked; `docs/architecture.md:64`
  says that permanent access failures become failed jobs.
* `workflow_retry`: the handler of a first attempt, still running when Step Functions has
  retried the wait, saves its dead token over the new one. The callback goes to the dead
  token and is ignored, the record is deleted, and the execution waits until its day is
  over, although `docs/architecture.md:62` says that an action committed before
  registration still advances and that maintenance recovers lost callbacks.
* Listed as hazards without a property, since the models allow them as the code does:
  an execution that fails in its first task is never started again; a request may delete
  an expired workspace that another one has just touched; a second first initialisation
  replaces the generation the first has published; a rollback cannot begin while the
  update that was waited for in vain goes on.

## What is not modelled

* How the components share one workspace: the other modules describe one workspace in one
  generation. A replaced generation ends their behaviours, since every transaction of a
  request that is bound to it is refused (`WritesFollowWholeReads`).
* What models answer and the text of reports: an answer is a choice among those the code
  tells apart.
* Two releases at once: the deployment workflow runs them one after the other.
* Signatures, tokens, cookies and hosts: decided within one request, without state.
* The frontend, the command line, demo data and evaluations.

## Plan

1. *Done.* `ChangeManagement` with `ChangeControl`, `InvestigationJobs` with `JobLedger`,
   `WorkflowCallbacks`, their runs and first theorems.
2. *Done.* `Workspaces` with `WorkspaceRecords`; `InvestigationGraph` with
   `ReportValidation` and `ReportLedger`; `ProposalReview`; `Release`;
   `WaitsStayRegistered` without retries as a theorem; all properties of `Workspaces`, the
   refinement included, as theorems.
3. Jobs, callbacks and change management composed for one ticket, with the end-to-end
   property that a submitted request ends in a delivery, a refusal or a state that asks
   for a person. Each component alone is at the size TLC can do in minutes, so this needs
   the abstract specifications in place of the detailed ones.
4. *Done.* Theorems for every safety property and refinement of `ChangeManagement`,
   `ProposalReview`, `InvestigationJobs`, `InvestigationGraph` and `Release`.
5. Theorems about the abstract specifications themselves, so that what they promise
   (one version per applied change, one open investigation per ticket) carries over to
   the detailed ones by refinement.
