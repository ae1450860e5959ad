# TLA+ models of OreMedia

OreMedia plans, approves and publishes marketing content to social platforms
and web destinations. These modules describe the parts of it whose correctness
depends on the order in which concurrent actors commit: what lets a post go out
(reviews, approvals, mandates), its publication, the changes of it afterwards, the
credential it is published with, the replies to its comments, the agent runs and generation jobs that
prepare content and the money they spend, the outbox that starts workflows, and the idempotency keys of the
public commands. Every definition is translated from the code under `src/`;
`PROJECT.json` names the lines of each one.

Two rules of the code base shape everything below. The first is ADR-08, "no
blind mutation retries": the database is the only authority on whether a
request may leave for a platform, Temporal the only scheduler. The second is
that every control step is one MySQL transaction under a row lock, and nothing
that talks to the outside happens inside one. So a transaction is one action of
a model, and whatever lies between two of them interleaves.

## 1. The system

| Part | State it keeps | Operations | Interacts with |
|---|---|---|---|
| publication state machine (`domain/state-machines/publication.ts`) | none; a table of 21 moves over 10 states | `transition` | every writer of a publication's state |
| publishing: runtime and commands (`modules/publishing`) | `publications` (state, fencing token, claimed workflow), `publication_attempts` (token, sentAt, outcome) | schedule, release, cancel, reconcile by hand, restore hold, dependency hold; claim, evaluate, open, publish, mark, retry, hold; sweep | workflows, provider adapters, outbox, review |
| workflows (`packages/workflows`) | Temporal executions: position, claim, cancel flag | publication, reconcile loop, signal relay, sweeper | control activities, provider queue |
| provider adapters (`packages/providers`) | none here; the platform keeps posts and jobs | publish, checkStatus, finalize, findByClientReference | platforms |
| outbox (`modules/operations`) | `outbox_events` (claimedBy, leaseUntil, availableAt, dispatchedAt, attempts) | add, dispatchBatch, replayDeadLetter | workers, Temporal starter |
| idempotent commands (`modules/operations/idempotent.ts`) | `idempotency_keys` (state, hash, path, response, expiry) | idempotent(), purgeExpired | every mutating API command |
| spend budgets (`modules/billing/budgets.ts`) | reservations, usage ledger, month and day limits | reserve, consume, consumeIncurred, settle, release | agent runs, generation jobs |
| agent runs (`modules/agents`, `agent-run.workflow.v1.ts`) | `agent_runs`, steps, invocations, proposals, decisions | start, plan, dispatch a tool, propose, wait, apply, finish, cancel, decide | budgets, outbox relays, people |
| studio generation jobs (`creative/generation.ts`, `agents/studio-generation.ts`, their workflow) | `studio_generation_jobs` (state, attempt, reservation, stored output) | start, cancel, retry; begin, reserve, call the model, save, fail, settle | budgets, outbox, documents |
| remote changes (`runtime.ts`, `publications.ts`, remote-change workflow) | `publication_remote_changes`, the publication's remote columns | edit, unpublish, delete; record, sweep stale; read back, check the page | adapters, the site's own editors |
| channels and credentials (`channels.ts`, `broker.ts`, two workflows) | `channel_connections`, `credential_refs` | connect, reconnect, disconnect, refresh, revoke, shred | adapters, outbox, sweeper's floor |
| review (`modules/review`) | requests, decisions, approvals, mandates | request, approve, invalidate, consume, evaluateRelease | content, brand, publications |
| community replies (`modules/community`, comment pulls of `modules/measurement`, reply workflow) | `response_drafts`, `messages` | reply, send once, record the outcome; ingest own comments, confirm a reply by them | adapters, outbox, inbox |
| switches, flags, rate limits | kill switches, Redis counters | set, check, take | review, adapters |
| audit, deletion, retention | append-only log, deletion requests | request, purge | all modules |
| creative, video, assets, brand, content, inbox, skills, destinations, experiments, measurement, reports, overview | versioned records, jobs | see the modules | workflows, storage, models |
| access, tenancy, db | roles, tenant-scoped repositories, `withTransaction` | resolve, scope | all modules |
| apps and UI | none of their own | HTTP, pages, polling | commands |

What is hard here:

* **Concurrency.** Several generations of a publication workflow, reconcile
  loops started by a sweep or a restore, a provider call its workflow has
  given up, the sweeper and a person all move one row. Several workers drain one
  outbox; retries of one command overlap.
* **Stale decisions.** The sweeper asks Temporal and then locks; the dispatcher
  picks and then claims; `idempotent()` looks up and then removes or inserts;
  a workflow acts on a claim it may have lost.
* **Failure.** A worker dies between the committed `sentAt` and the answer, or
  between a start and its mark; a reply or a commit acknowledgement is lost;
  a restored backup says less than the platform knows.
* **Ordering and time.** Timeouts race late answers, leases and TTLs run out
  under their holders, signals arrive after the run they are for, a change is
  confirmed after it was closed as stale.
* **Others at work.** A site's own editors change the article that is edited
  remotely; a brand version is published while a review is decided.

What makes each part correct: one settled send at a time and no unasked second
post (publishing); a move outside the table is refused (state machine);
everything that is due is taken in the end (sweeper, dispatcher); one pass per
row while leases hold and no event lost (outbox); one commit and only own, live
responses per key (idempotency); every call charged once and caps kept (budgets);
an attempt that keeps its own reservation, whatever earlier ones still do (generation);
a proposal applied once, after a person accepted it, and a run that ends (agents);
a record of a remote change that says what the platform did (remote changes); one
credential that opens, never shredded in use and always after use (channels); no
release of anything but what was reviewed, once per target (review); a reply posted
once, and recorded as what became of it (replies). `PROJECT.json` lists the concrete hazards with
the lines where they bite and the properties that would catch them.

## 2. Modules

| Module | What it is |
|---|---|
| `PublicationMachine` | the transition table: `States`, `Moves`, `To`, `Illegal` |
| `SendLedger` | the abstract promise of the attempt ledger (ADR-08) |
| `Publication` | row, ledger, workflow, provider call, sweeper and commands of one publication |
| `MCPublication` | a statement of the documentation, and the runs' entry |
| `PublicationProofs` | its theorems |
| `Outbox`, `MCOutbox` | the dispatcher, a comment's claim |
| `OutboxTenants`, `MCOutboxTenants` | its choice of rows among tenants, the symmetry of a run |
| `Idempotency`, `MCIdempotency` | one key, the runs' entry |
| `OperationsProofs` | the theorems of these three; each names its own steps (`Spec`, `KeySpec`, `LineSpec`), so that one module can extend them all |
| `Budgets` | reservations, charges and caps; operators that `AgentRun` and `Generation` compose |
| `AgentRun`, `MCAgentRun`, `AgentRunProofs` | the agent workflow, its rows, people and relays, EXTENDS `Budgets` |
| `Generation`, `MCGeneration`, `GenerationProofs` | generation jobs, their attempts' workflows and people, over an INSTANCE of `Budgets` |
| `RemoteChange`, `MCRemoteChange`, `RemoteChangeProofs` | changes of one published post |
| `Credentials`, `MCCredentials`, `CredentialsProofs` | the credential of one channel |
| `Release`, `MCRelease`, `ReleaseProofs` | approvals, mandates and what they let out |
| `Replies`, `MCReplies`, `RepliesProofs` | replies to comments, their sends and their ingestion |

The `MC` modules hold symmetry sets and claims that the repository's comments, tests
and documents make; most of those claims are not met, see section 4.
Operators whose comment begins with "Mutant" are plausible bugs. No action uses
them; each is substituted for the definition after it to show that a property
notices.

### Publication

State: `state`, `fence`, `claimant`, `gen` are the `publications` row (state,
fencing token, claimed workflow and run, release generation); `opened`, `sent`
and `outcome` are the `publication_attempts` rows, named by their token,
because there is one attempt per claim; `run` holds the Temporal executions
(publication generations first, then the reconcile workflow of each claim);
`call` is the `publishOnce` activity of each attempt, which goes on without its
workflow; `post` is what the platform holds; `starts`, `relays` and `requested`
executions are undelivered outbox events; `sweepRef` is what the sweeper read
before it locked. `cleared`, `byPerson` and `trespassed` are history only: sends
proven without effect or judged by a person, those a person judged, and whether
a run that lost its claim has moved the row.

| Code | Actions |
|---|---|
| `runPublication` wait, claim, release check | `ReadSchedule`, `CancelIfNotStarted`, `ClaimForDispatch`, `EvaluateRelease`, `Hold`, `ReleaseClaimAndCancel`, `OpenAttempt` |
| `publishOnce` | `CallLoad`, `CallFailsBeforeSend`, `CallFindsHashMismatch`, `PreSendFence`, `ProviderAnswers`, `CallRecords` |
| the outcome switch | `MarkPublished`, `MarkFailed`, `MarkProcessing`, `RetryAfterProvenNoEffect`, `Poll`, `MarkOutcomeUnknown` |
| `runReconcile` | `FindRemotePost`, `MarkRetryEligible`, `HoldForHuman` |
| outbox and Temporal | `DeliverStart`, `DeliverReconcile`, `DeliverCancel`, `PublishTimesOut`, `RunDies` |
| `sweepPublications` | `SweepNow` (read and lock coincide), `SweepFind` then `SweepApply` |
| commands | `Cancel`, `Release`, `RevokeDependency`, `ConfirmPublished`, `ConfirmAbsent`, `HoldRestored` |

Each control activity may have its reply lost (`ReplyWith`): it is then run once
more on the row as it is by that time. An illegal move is not retried and ends
the execution (`Refused`). `Mark` is the shape the `mark*` activities share.

What a reader may miss: `retryable` is a provider's word for "had no effect",
and `ProviderAnswers` takes adapters at their word for `accepted`, `pending`,
`rejected` and `retryable`; only `unknown` leaves the effect open. A lookup
answers `absent` by what the platform lists, and `JobsListed` says whether that
covers a post the platform still processes.

### Outbox

Rows are `claimedBy`, `live` (the lease), `due` (`availableAt`), `dispatched`
and `attempts`; `flow` is the workflow of an event's stable id. `Pick`,
`Claim`, `List`, `Start`, `MarkRow` and `FailRow` are the statements of
`dispatchBatch`; `LeaseExpires` and `BecomesDue` are time; `Crash` and faults
interrupt a pass anywhere; `ReplayDeadLetter` is the operator. `Start` follows
`temporal.ts`: a running id is joined, a failed one run again, a completed one
refused.

### Idempotency

`rec` is the row of one key, `at` each request's position in `idempotent()`.
Every repository call is a statement of its own and one action; the command and
the completion of the record are one transaction (`Commit`). `Others` carry the
key with a different hash or path. `LeaseRunsOut`, `TtlRunsOut` and
`PurgeExpired` are time and the purge; `CommitLosesAck` is a commit whose
acknowledgement does not arrive. `displaced` is history: a live record was
deleted by its key, a lease ran out under its holder, or a marker of another
command was taken over. The safety properties hold until then (section 4).

### Budgets and AgentRun

`Budgets` has the reservations (`held`, `reserved`, `consumed`) and the usage ledger by
idempotency key; each of its operators is one transaction of `budgets.ts`. `AgentRun`
calls them where the code does. `at` is the stage of the workflow inside its
activities, each cut at its transactions; `LoseAttempt` loses an attempt or an
answer at any of them, and Temporal repeats the activity from its `Entry`.

| Code | Actions |
|---|---|
| `agent.run_created`, `resolveRunContext` | `Begin`, `ResolveContext`, `StartRun` |
| `reserveBudget` | `ReserveBudget`, `LinkReservation` |
| `planNextStep` | `PlanNextStep`, `ModelAnswers`, `BillStep` |
| `dispatchTool` | `DispatchTool`, `RunTool`, `RecordResult` or `RecordProposal` |
| `condition` with its 72 hours, `recordDecision` | `WaitEnds`, `WaitExpires`, `LoadDecision`, `ApplyDecision` |
| `finishRun`, `settleBudget` | `FinishRun`, `SettleBudget` |
| people, relays, access | `Cancel`, `ApproveProposal`, `RelayCancel`, `RelayDecision`, `Revoke` |

`accepted` and `applied` are history. `unplanned` counts what a call cost beyond its
reservation or after it was closed; it is the only amount a cap may be passed by.

### Generation

`state`, `attempt`, `linked`, `output` are the `studio_generation_jobs` row; each attempt has
a workflow of its own, `at` and `tries`, cut and repeated as in `AgentRun`. `Budgets` comes
with attempts for its runs and a charge per model call. A cancel or retry changes the row
at once, and the old attempt's workflow goes on until its next answer or the relayed signal
stops it, so several attempts of a job are at work together.

| Code | Actions |
|---|---|
| `generationService` | `Start`, `Cancel`, `Retry` |
| outbox routes | `Deliver`, `RelayCancel` |
| `begin`, `reserve` | `Begin`, `Reserve`, `Link` |
| `callModel` | `PrepareCall`, `ModelAnswers`, `Bill`, `StopCall`, `RecordOutput` |
| `save`, `fail`, `settle` | `Save`, `Fail`, `Settle` |
| requester's access, lost attempts | `Denied`, `LoseAttempt` |

Whether a start, a retry or a save is refused for a document that moved is a choice of the
model, since nothing else depends on it.

### RemoteChange

`change` holds the rows of the changes, `flow` their workflows, and `gone`, `hidden`,
`shown` and `rev` the post itself. `site` tells an article on a website (revisions,
conditional write, page checks) from a post on a channel. `Request`, `Sweep` are
commands and sweeper; `Start`, `Call`, `Send`, `ReadBack`, `Record` the workflow;
`FetchPage` and `RecordCheck` the check of the rendered page, whose fetch holds no
lock; `SiteEdit` is a person on the website, `Lands` a call that nobody waits for
any more. A website refuses an edit as a conflict, or, if it cannot compare and write in
one step, in its limited mode; either refusal carries the article as it is, which becomes
the newest read-back. "stale" is a failed change with a stale closure code, "late" a success
recorded after it.

### Credentials

One connection: `status`, `cred`, `destroyed`; `grant` is the consent a credential stems
from. Refresh attempts (`attempt`, by `Slots`) and revocations (`revoke`) go through
load, open, call and record, each a transaction or a call of its own, and people
reconnect or disconnect in between. `ReadSchedule`, `Wakes`, `DelayEnds`, `TimesOut` are
the refresh workflow; `DeliverStart` the outbox with Temporal's `USE_EXISTING`;
`ShredFloor` the sweeper's last resort.

### Release

One content revision with variants for `Targets`. `live` is text, brand version and
policy as they are, `frozen` what the review request froze, `bound` what the
approval's binding hash covers. Edits check the revision's state in one transaction
and write in another (`BeginEdit`, `CommitEdit`). `PublishBrandVersion` starts the impact
workflow, whose two activities are `InvalidateApprovals` and `Reevaluate`.
`ActivatePolicy` starts nothing: only the release check, which compares the binding with
`live`, refuses an approval of an earlier policy. A publication is claimed, checked, sent
and recorded (`Claim`, `Check`, `Send`, `BeginRecord`, `CommitRecord`), or held, or taken
back to its schedule by an error proven to be before the send (`Retry`); the recording
transaction first reads which targets are out and then spends the approval, so two
of them overlap (`seen`). `Passes` is `evaluateRelease` as far as it depends on order.
`scope` bounds a behaviour: it has the changes, the rescheduling and the publications of
one member of `Scopes`, so that one run has several small worlds instead of a large one.

### Replies

`state` and `link` are a `response_drafts` row, `inbox` the direction a remote comment is
stored with, `posted` and `sends` the platform. `Reply` is the command, `StartWorkflow`
the outbox, which runs a failed workflow again. The workflow is `ReadRoute`, `SendReply`,
`SendTimesOut`, `RecordOutcome`; its send activity, which a timeout does not stop, is
`LoadDraft`, `Boundary` (the committed `sending` before the call), `Post` and `CallDies`. A
pull reads its match and locks it later (`IngestComment`, `ConfirmIngested`); `shows` is
what the platform says of a comment's author and parent; `PostNative` is somebody of the
brand who comments there directly.

### OutboxTenants

`Outbox` lets a pass take every ready row; this module has the choice. `line` has the
tenants of the due rows by age, `keeper` the claims under a running lease, `gone` what is
dispatched; `stage`, `choice` and `queue` are each worker's pass. `PickBatch` ranks the
ready rows within their tenants and takes a batch (`Free`, `Rank`, `InTurn`, `Chosen`),
`ClaimBatch` takes those still free, `ListBatch` puts what the worker holds in turn
(`Order`), and `StartNext` works it off. `Add` is any command that writes an event.
`waited` is history: the starts of others while a tenant waits for a claim of one of its
rows. It counts from any of its rows and not from its oldest: the rows of a dead worker
become free one by one, so an older one may come up between a pick and its claim, and the
tenant's oldest row is then put off again by each. (A form of `TurnComes` on the oldest
row holds on the bounds of section 3 and fails with 18 rows and batches of four.)

## 3. Runs

| Run | Bounds | Shows |
|---|---|---|
| `publication_safety` | 2 generations, 2 tokens, 1 restore, 1 lost reply or dead run | the ledger implements `SendLedger`; no unasked second live post; a failed row has no post, a published one has, through worker loss, takeover and a restore |
| `publication_recovery` | 1 generation, 2 tokens, 1 fault, 1 relayed cancel, 1 slow sweep; fair | every route back to `scheduled` settles the earlier send; a due row is taken, a claim resolved; an outcome in doubt is settled unless a run died |
| `claim_no_blind_retry` | 2 generations, 4 tokens, 1 restore | finding F1 |
| `idempotency` | 5 requests, 2 of them with another hash, 2 crashes, 2 TTLs, 1 lost acknowledgement | one commit per key; only own responses, only live ones |
| `outbox` | 2 workers, 2 events, 1 each of crash, fault, slow pass, replay; fair | exclusive claims; late failures leave claimed rows alone; every event is dispatched, or its workflow has completed |
| `agent_run` | 1 run, 2 steps of 2 tool calls, 1 lost attempt, a cancel, a revoked principal; fair | each call charged once, each proposal applied once and as accepted; an ended workflow holds no money; every run ends |
| `generation` | 2 jobs of 2 brands, 1 cancel, 1 retry, 2 tries of an activity, 1 denied or lost | money spent and promised stays within month and days but for single overruns; an attempt under way keeps its reservation |
| `remote_change` | 2 changes, 2 texts, 1 lost answer, 1 stale closure, 1 visit on the site; fair | the record says what the platform did; an editor's text survives; a late confirmation is recorded |
| `credentials` | 3 credentials, 1 reconnect, 1 disconnect, 2 attempts, 1 fault; fair | one credential opens; none is shredded in use, all after use; an expiry is met |
| `release` | 2 targets, 2 days, quota 2; and 2 publications of the approval with 1 change and 1 rescheduling, or 1 of each authority with 1 change, or 3 of the mandate with 1 rescheduling | approval spent last; no post of what was claimed after its target was on the record; a day's rows within the quota; reviewed text; no valid approval of an earlier brand version |
| `outbox_tenants` | 2 workers, 2 tenants, batches of 2, 6 rows, 1 crash | a waiting tenant gets its turn whatever the other has due |
| `replies` | 1 reply, 2 executions, 2 sends, 2 tries of an activity, 4 faults, 1 comment of other words; fair | posted once; failed means not posted, sent means shown, found means sent; every reply settled |

Why the bounds are enough. Two generations are the least that have a superseded
workflow and a re-release; two tokens let the row be claimed, restored or retried,
and claimed and sent again; `MaxPreSend = 2` lets the pre-send budget
both hold and run out. A fault is spent at any point, before or after a restore, so one
shows every single loss; `SettledBeforeRelease`, whose run has no restore but a sweep that
locks late, is there for every bound by proof. With three requests one can read, a second
replace and a third find the row; of five, two carry another hash, so that a foreign
command can be displaced and retried as well (with four, a violated form of
`ReplayIsOwn` passed). Two workers and two events have every overlap
of two passes, one of the events unrouted. `DeadLetter = 1` keeps the counter
small; the counter only changes the backoff. Two steps of two calls are the least
in which a proposal is followed by another of its step and by a later step; one
run is enough, since runs only meet in the budget. There two generation jobs meet, each with
its brand's day and both on one month; one of them, whichever it is, has a second attempt
beside its first, and an attempt can come to own two reservations. Two changes supersede one
another; `Tries` and `RecordTries` of two let an activity be repeated and run out. Three
credentials are the first, one refreshed and one reconnected. Six rows are two more than
two batches, so that a choice by age alone lets one tenant take all that is in hand. Four
faults fail one execution of a reply in its record (two tries), lose an answer of its send
and leave one for the next. Two publications and
two targets give both two targets of one approval and two publications of one
target; one change overtakes a review. The quota's count includes the row that asks: with
a quota of one no row passes on its own day, with two one passes while others are
scheduled for the day, retried, held and rescheduled beside it, and three rows are the
least that can break it. Two days have a row that is claimed on its day and checked on the
next.

`CHECK_DEADLOCK FALSE` is set where
the system really ends: a published, failed or cancelled row with all its runs
over, a key whose requests have all returned, an agent run or a job whose workflows are over, changes that
are recorded, a disconnected channel, publications that are out, a settled reply. The outbox
never stops (an idle worker polls), so deadlock is checked there.

Fairness. `Publication`: weak fairness of every workflow step, of the delivery
of starts and reconcile requests and of the sweep. The code justifies it with
Temporal, which drives executions and times activities out, with the polled
outbox, and with the sweeper's schedule of one minute. Nothing is assumed of a
provider call, a platform or a person; a call may never answer, and it is the
workflow's timeout that goes on. `Outbox`: weak fairness of each worker's loop
and of time (leases run out, rows become due); started workflows owe nothing.
`AgentRun`: weak fairness of each run's workflow, with its timers; people and relays owe
nothing, so a decision may never arrive and it is the 72 hours that go on.
`RemoteChange`: the workflows, the clock of a request and the sweep. `Credentials`: the
outbox, the refresh workflow and its attempts, and the sweeper's floor; the revoke owes
nothing, since the floor is there for the case that it is lost. `Replies`: the outbox's
start, the workflows and their activities; people and pulls owe nothing. `Release`,
`OutboxTenants` and `Generation` state safety only.

## 4. What the code does otherwise than it says

One disagreement has a run whose counterexample shows it; `PROJECT.json` quotes the
lines it contradicts.

* **F1, the pre-send retry is not fenced.** `retryAfterProvenNoEffect`
  (`runtime.ts:629`) never compares its token with the row's. A workflow that
  lost its claim to a restore hold and a re-release takes the newer claim's
  `dispatching` row back to `scheduled`; the row is claimed once more and a
  second mutation leaves while the first is open.

The models show more, for which no run is kept. Each claim is a definition; to see its
trace, put it in the place of a passing run's properties, with the constants named.

| Claim (module) | Constants | What happens |
|---|---|---|
| `SecondPostNeedsPerson` (`MCPublication`) | as `publication_safety`, `MaxFaults = 0`, `JobsListed = FALSE` | the Facebook lookup lists published posts (`adapter.ts:500`), so a reconciliation while a video is processed proves an absence that is none, and the re-release makes a second post |
| `ServedIsNoDeadLetter` (`MCOutbox`) | 1 event, 1 worker, `DeadLetter = 2` | after a crash between start and mark, `ALLOW_DUPLICATE_FAILED_ONLY` refuses the start of a completed workflow each time: the served event is a dead letter. `outbox-dispatcher.ts:183-184` calls it "at most a no-op duplicate start" |
| `KeyRunsOnce` (`MCIdempotency`) | as `idempotency` | `remove` deletes by key alone and may delete another request's live marker (`idempotent.ts:140`); a retry after the 60-second lease takes over a command that still runs (`:137`); a commit without acknowledgement counts as a failed command (`:174`). `idempotent.ts:121-122` and `BUILD_PROMPT.md:984-986` promise one run |
| `KeyReplaysOwn` (`MCIdempotency`) | as `idempotency` | `complete` updates whatever record the key has (`idempotent.ts:70`), and `takeOverExpired` compares no hash: a request is answered with a foreign response, against `idempotent.ts:120` |
| `AppliedOnlyAccepted` (`MCAgentRun`) | as `agent_run` | two calls of one step each make a proposal; the decision is kept by step, so the answer to the first also applies the second, which nobody has seen. `agents/src/repositories.ts:182` says there is "at most one per step" |
| `WorkflowEndsRun`, `CompletionSettles` (`MCAgentRun`) | as `agent_run`, `MaxFaults = 0` | once the principal is revoked every activity is denied, `finishRun` and `settleBudget` too: the row stays running and the money held, against `BUILD_PROMPT.md:1427` and `:1523` |
| `IncurredIsLedgered` (`MCAgentRun`) | as `agent_run` | an attempt lost between the recorded step and its booking loses the cost ("Cost already incurred is always ledgered", `agents/src/runtime.ts:361`) |
| `ReservedOnce` (`MCGeneration`) | as `generation` | an attempt lost between the reservation and the link that names it reserves again (`generation.ts:748`), against "once" in the comment before it; `AgentRun` has the same |
| `NothingLeft` (`MCGeneration`) | as `generation` | of two reservations `settle` closes one, and a requester whose access is gone is denied `settle` as well (`activities/src/actor.ts:40`): the money stays held after the workflow, and nothing reads a reservation's `expiresAt` |
| `LiveText`, `VerifiedWasChecked` (`MCRemoteChange`) | as `remote_change` | an edit closed as stale is carried out before or after the one that followed it, and the records are written in the other order: the record has the text that is not shown (`repositories.ts:556`); a page check that fetched before an edit is recorded after it |
| `EditConverges` (`MCRemoteChange`) | `MaxVisits = 0` | a repeated edit expects the revision its own first call has replaced and ends in a conflict with itself, against the workflow's lines 14-15 |
| `NothingSentOnceRecorded` (`MCRemoteChange`) | as `remote_change` | the row is closed between the check and the call (`runtime.ts:1473`) |
| `DisconnectIsFinal` (`MCCredentials`) | as `credentials` | a refresh that was calling the platform sets a disconnected row to active, expired or action-required (`runtime.ts:1109`), against `BUILD_PROMPT.md:2131` |
| `ConnectStartsRefresh` (`MCCredentials`) | as `credentials` | the workflow id is the connection's: a completed workflow of the time before a disconnect refuses the start of a reconnect, and one about to end swallows it |
| `ActiveGrantStands` (`MCCredentials`) | as `credentials` | a revocation opens the credential of the reconnected grant, since it reads the connection after the reconnect (`runtime.ts:1232`) |
| `QuotaMeansPosts` (`MCRelease`) | as `release` | the quota counts every publication of the mandate's day that is not cancelled, the one it decides on and those that never went out included (`evaluate-release.ts:487`): under a quota of one, which `contracts/src/publishing.ts:88` allows, a publication passes when it is scheduled and is held when it is dispatched |
| `QuotaPerDay` (`MCRelease`) | as `release` | a row counts on the day it is scheduled for, not on the one it is sent: one claimed before midnight and one of the new day both go out |
| `SingleUse` (`MCRelease`) | as `release` | two publications of one target are claimed before either is recorded, and both go out (`evaluate-release.ts:83`) |
| `ApprovedIsReviewed` (`MCRelease`) | as `release` | the approval binds the brand and policy version of its moment, not the frozen one; and the `markStale` of a refused decision is rolled back by the throw that follows it (`review/service.ts:684-690`) |
| `SpentWhenAllOut` (`MCRelease`) | as `release` | two recordings that overlap each miss the other's target, and the approval stays valid (`runtime.ts:518`) |
| `SentMeansPosted` (`MCReplies`) | `Drafts = {1, 2}`, `Native = {}` | ingestion confirms the oldest reply in doubt of the same words (`community/src/runtime.ts:362`), so the comment of the second reply confirms the first, which was never posted, against `:345-346` |
| `FailedMeansNotPosted` (`MCReplies`) | as `replies` | a workflow that failed while it recorded is started again when the channel can no longer reply: its default result fails a reply that is on the platform (`community/src/runtime.ts:335`), against `response-draft.ts:8` |

Four more, seen in the code while it was modelled. `markFailed` (`runtime.ts:554`) has no
token either: a first workflow's late `markFailed` fails the row that the next
generation is dispatching, while its post goes live. `recordOutcome` (`repositories.ts:501`)
writes the outcome of a superseded claim, which its class comment excludes; the write
is wanted, the comment is off. `connectAccount` does not reset a channel's health. The
refresh lock is kept in the process although `BUILD_PROMPT.md:1903` puts it in Redis.

Properties are stated up to what these do. The safety properties of `Publication` hold up
to `trespassed`: from the moment a superseded run has moved a row that
a newer claim holds, the ledger's promise is void. The reservation is narrow (it
is set only when the mover's claim is not the one in force, or when a later one
has sent), and `NoUnsettledResend` is the same promise without it. In the same way
`Idempotency` has `displaced`, `SpendWithinCap` the overruns, `AppliedWasAccepted`
the premise `OnlyProposal`, `RunEnds` the revoked principal, `TextIsKnown` the premise
`NoDoubt`, `DisabledIsShredded` the row that a refresh set back, `OncePerTarget` the
order of record and claim, `QuotaKept` the row that posts on its own day, `FailedWasNotPosted` the single execution, and
`FoundIsConfirmed` also that no other reply has the same words; the claims of the table are these properties without the
premise.

## 5. Proofs

All theorems hold for every value of the constants that the named assumptions
(`BoundsAssumption`, `OutboxAssumption`, `IdempotencyAssumption`, `TenantsAssumption`,
`CredentialsAssumption`, `ReleaseAssumption`, `BudgetsAssumption`, `AgentRunAssumption`,
`GenerationAssumption`, `RemoteChangeAssumption`, `RepliesAssumption`) allow; they say that
bounds are numbers, that the sets that are counted are finite, that names differ, and that
the model has room for a reservation of every try. Every safety property of the runs is
proved.

* **Publication.** `Invariance` proves `Inductive`: types; a dispatching row has
  a token that was issued; a call in progress and a `sentAt` belong to an opened
  attempt; and `SettledBeforeRelease`, which alone is not inductive, since
  `PreSendFence` keeps it only because the state is `dispatching` and the token the
  caller's. `TypeCorrect` and `Settled` follow. `LedgerImplemented` proves
  the refinement of `SendLedger`: of all steps only `PreSendFence` is a `Send`, and
  there the invariant gives that the earlier sends are settled; every other step
  adds to `cleared` what is sent already, or stutters.

  What the row says of the platform takes four invariants more, each of them preserved
  because the earlier ones are. `Tokens`: no attempt, outcome or execution names a token
  that is not issued yet, and a reconciliation is of a claim no longer in force. `Posts`:
  an accepted call or outcome has a live post, a rejected one has none, an outcome that the
  call itself recorded ends the call; so whoever is about to mark a row published has a
  post to show, which is `PublishedShows`, for superseded workflows too. `Handling`: what a
  workflow was told of the claim it holds is true, and a row being processed has no open
  send but its own; `FailedShowsNone` follows. `Later` and `Absences`: all sends but the
  latest are settled, and what was found absent has nothing under way at the platform.
  `SecondPostJudged` follows under `JobsListed`, the one theorem with a hypothesis: with
  `FALSE` an absence proves nothing of a post that is still processed, and the property is
  violated (section 4).
* **Outbox.** `OutboxInvariance` proves `Inductive`: what a pass has before it, it
  holds under a live lease (while none ran out under a pass and nobody replayed);
  the row a worker marks or fails is in its pass; a routed row about to be marked has
  been started. `ClaimsExclusive` and `NoEventLost` follow; the second needs no
  premise on leases. `DispatchedIsLeftAlone` and `LiveClaimsStay` are action properties:
  each statement reads the row it changes.
* **Idempotency.** `KeyTypeCorrect` has no premise. `KeyRunsOnce` and `KeyReplaysItsOwn`
  rest on `Marked` and `Committed`: until a record is displaced, a request inside its
  command or its cleanup is the holder of the record on a running lease, so it is the
  only one, a completed record answers its own command, and what committed is there to
  be replayed. `KeyReplaysFresh` is an action property; `FreshKept` says that what a
  request found on its way has not run out.
* **Tenants.** `TurnAlwaysComes` rests on `TenantsInv`. A worker's load is what it holds and
  what it is about to claim; the loads fit in shares (`Allowed`) that sum to the limit, since
  a pick is a batch at most and only a death leaves claims standing, which adds a batch to
  the worker's share. What a worker may start before a waiting tenant has a claim
  (`Ahead`) is its load, or nothing once it is idle or about to claim a row of the tenant;
  `Turn` says that the starts counted and those still ahead are within the limit. An idle
  worker's next pick has a row of every waiting tenant: the oldest of each come before all
  others, and there are no more of them than tenants (`ChosenIs`). That needs room for
  them in a batch (100 in the code), so it is a premise of the property. That a pass
  can be put in turn at all (`Sorted`) is shown by counting, not by induction: an
  element's place is the number of those before it, and no two have the same.
* **Credentials.** `CredentialsInv`: types; `RowsFollow` (the newest row is the
  connection's, only rows that were made are destroyed, an attempt past its lookup has
  a row); `OnlyCurrentOpens` and `ActiveIsIntact`. The last two need each other:
  `Replaces` destroys what it replaces, and `Spared` looks at what is in use by then.
* **Release.** `ReleaseInv` has two parts. `ReviewInv`: an approval means a revision that
  nobody edits, with the frozen text, and an approval of an older brand is invalid
  unless an impact is still due. `PubInv`: what a recording transaction has counted is
  out (`SeenIsOut`), so an approval is spent last; a publication claimed after its
  target's record is not sent (`ClaimedLate`, `PostsFollow`); and `WithinQuota`: those rows
  of a day that passed their check or posted on it are fewer than the quota, since
  `CountedOnDay` takes each of them from its schedule to its end, held or not, and takes the
  row that asks as well. The quota's step is an argument on cardinalities (`QuotaChecked`).
  What the theorems do not say is as important: `NoPostAfterRecord` is not single use,
  `PostsOnTheirDayWithinQuota` (and `QuotaNeverFilled`, the same with fewer) is not a
  quota of a day's posts, and `ValidIsOfThisBrand` is about brand versions and not about
  policies; the wider claims are violated (section 4) or, of policies, left to the check.
* **Agent runs.** `AgentInv` has a part per run: its reservations are those its lost
  attempts explain (`Reservations`), a run in its loop is linked to one of them (`Loop`),
  the workflow's place fits its step's proposals (`Proposals`: a parked run waits for its
  newest, unapplied one), and an accepted step has an accepted proposal (`Decisions`).
  `ChargesOnce`, `AppliesOnce` and `AppliesWhatWasAccepted` follow. `EndedStaysEnded` goes
  through the steps; `EndsWithNothingHeld` adds `Settled`: while attempts are left, a
  workflow that is over has closed the one reservation of its run, which is the oldest of
  its rows, since `settle` takes the oldest.
* **Generation jobs.** `GenerationInv`: the rows of an attempt are as many as its lost attempts
  of `reserve` explain (`Reservations`), only the attempt that the job is at links
  (`Linking`), and a job names a row of its present attempt (`LinkedOwn`);
  `LiveAttemptKeepsItsReservation` is part of it, because only an attempt's own end closes
  its rows. `SpendStaysWithinCap` adds `CallsInv` and `CapInv`. The first ties charges to
  calls: they are numbered, a call under way has an attempt left to be charged for, and a
  charge past the reservation is the attempt's last, since what follows it finds the
  reservation closed. The second is the books: what the reservations of a purse (the month,
  or a brand's day) take is what was spent and what they still promise, and that is within
  the limit but for one overrun per attempt. A sum here is the number of units that a
  set of amounts holds (`Total` of `Budgets`), which the provers can count; a fold they
  cannot unfold.
* **Remote changes.** `RemoteInv` numbers the requests and explains every success and
  removal by a call the platform carried out, which is `SuccessIsEarned`. `OutcomesAreFinal` goes
  through the steps. `SiteEditsAreKept` adds `Asked` (until a change is closed as stale one
  request is open at a time, and its call expects the revision of the request), and
  `RecordedTextIsShown` adds `Text` (while nothing is in doubt, no answer is on its way and the
  post shows the recorded text or that of the open edit).
* **Replies.** `RepliesInv`: types and counters; `CrossesOnce` (a call past the boundary
  belongs to a draft that is `sending` or further, and is the only one that is or was, since
  the boundary moves the draft out of `queued` for good); `Accepted` (whoever answers
  accepted has posted, or read a draft that was settled so), `Shown` and `Pulled` (a pull's
  match has the words of its comment). `ReplyPostedOnce` and `SentReplyIsShown` follow.
  `LoneInv` is about a draft that one execution handles: once its call may reach the
  platform the draft has left `queued`, and only a result that admits the effect is recorded
  after it (`Lone`), which gives `FailedReplyWasNotPosted`; and while no other reply has its
  words, a pull that found its comment has matched it (`Found`), which gives
  `FoundReplyIsConfirmed`.

`DispatchedIsFinal`, `DispatchedWasStarted`, `EndedIsFinal`, `OutcomeIsFinal`, `Inductive`
and `KeyInductive` are proved and in no run's list. The inductive invariants that are
defined in the proof modules are theorems of their own there (`HandlingInvariant`,
`RepliesInvariant`, ...), or parts of one.

Only model-checked: the nine liveness properties, since fairness and ENABLED are out of
the prover's reach.

## 6. Not modelled

In the modelled parts: evidence and audit rows; expiry sweeps and the
sweeper's credential floor in `Publication`; HTTP
shapes and payloads; `maxPerTenant` of the dispatcher, which nothing sets; a reply's text,
its limits, and the conversation it belongs to; the hash of an idempotent request (two classes); the turn of a
day or a month and the change of limits in `Budgets`; the start of an agent run, its
prompts, models and tools; what a generation compiles and writes, activities that go on after
their timeout, and the cost shown on its job; the destinations' own token refresh, pending account choices
and health checks of `Credentials`; reviewer roles, several reviewers, the timing
window and the checks of `evaluateRelease` that read one row and no order. Nor is the limit
of 200 rows with which the impact workflow reads approvals and requests
(`review/src/repositories.ts:185-192`): `Release` has one approval, and a brand with more
valid ones keeps the oldest of them valid until the release check refuses them. A revoked fact
starts the same workflow. The provider adapters are modelled by how they classify what
happens to the call (`providers/src/shared.ts:183-234`); that what an adapter calls
accepted, pending, rejected or retryable is so at the platform is assumed. Composition:
`Publication` takes any verdict of the release policy and `Release` any outcome of a
dispatch, so each is checked for every behaviour of the other; `RemoteChange` begins
with a published post and `Credentials` answers a publication's `open` with what
`OnlyCurrentOpens` leaves.

Whole parts: the table in section 1 after "review", with the reason
for each in `PROJECT.json`: they are sequential records behind optimistic locks, media
processing, statistics or I/O.

## 7. Plan

Written: `PublicationMachine`, `SendLedger`, `Publication`; `Idempotency`; `Outbox`;
`Budgets`, `AgentRun` and `Generation`; `RemoteChange`; `Credentials`; `Release`; `Replies`;
`OutboxTenants`; the proofs of section 5. If the project goes on:

1. `Release` and `Publication` in one module, with a claim that reads the approval under
   the row lock.
2. Render, video and ingest jobs, if their lifecycles hold more than their machines; that
   every generation job ends, up to a requester who is denied.
3. Comment pulls as a whole, with deleted and moderated comments; deletion requests against
   the rows that other modules still use.
4. Proofs: that `OutboxTenants` implements `Outbox` without its clock; that agent runs keep
   the caps too, for which the lemmas on sums and on closing a reservation are there.
