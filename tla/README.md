# ReviewPhin: TLA+ models and proofs

ReviewPhin is a self-hosted worker for AI code reviews. A webhook from GitHub or
GitLab becomes a persisted *interaction job*; runner processes poll the storage
for jobs, claim one at a time under a lease, run a model-driven review, publish
findings and replies, and record the outcome. This directory holds TLA+ models
of its control logic, TLC configurations that check them on small instances, and
TLAPS proofs about them. Paths below are relative to the repository root, which
is `src/` here, so code is under `src/src/`.

To check a run: `tlc -config <run>.cfg <module>` with the module of the table in
section 3. To check the proofs: `tlapm <module>` with each module of the table in
section 4.

## 1. Inventory

| component (code) | state it keeps | operations | modules |
| --- | --- | --- | --- |
| job store, SQLite (`storage/adapters/sqlite/database.ts`) | rows of jobs, runs, requests, findings | admit, claim, recover, renew, transition, expire, reconcile: one `BEGIN IMMEDIATE` transaction each | `InteractionJobStore`, `InteractionAdmission` |
| job store, single worker (`storage/adapters/single-worker-interaction-job-store.ts`) | the same rows in a record store without transactions | the same as staged writes, serialized in one process | `SingleWorkerAdmission`, `SingleWorkerRuns` |
| batching (`storage/interaction-batches.ts`) | none | readiness, append test, batch job | `InteractionBatches`, `CommentBatches` |
| job runner (`jobs/storage-backed-job-runner.ts`) | polling state, heartbeat, local lease deadline | tick, heartbeat, stop | `JobRunner`, `ReviewQueue` |
| review worker (`jobs/review-worker.ts`) | one attempt: claim, run, checkpoint | `processClaimedJob` and its error path | `JobRunner`, `ReviewPipeline` |
| checkpoint (`review/batch-checkpoint.ts`) | JSON in the run | load, save, reply keys | `ReviewPipeline` |
| reconciler and publication adapters (`reconcile/`, `platforms/*/review-publication-adapter.ts`) | discussions on the platform; mappings and findings in storage | publish, update, reply, resolve, persist | `ReviewPublication` |
| review history (`review/*`, `platforms/*/review-runtime.ts`) | completed runs, snapshots, finding rows | baseline, changed files, active findings, readiness | `ReviewHistory` |
| trigger lifecycle (`platforms/*/trigger-lifecycle.ts`) | reactions, check runs | queued, in progress, retry, completed, failed | `TriggerLifecycle` |
| webhook application (`app.ts`, `tenants/*`, `platforms/*/platform.ts`) | none | authorize, classify, store, reply | `WebhookService` |
| GitHub setup (`platforms/github/platform.ts`) | the connection's row | one-time link, App, installation, recreation | `GitHubSetup` |
| project memory (`memory/*`) | a row or a wiki page per project | serialized optimistic write, coalescing, migration to the wiki | `ProjectMemory` |
| workspaces and sessions (`platforms/*/workspace.ts`, `harness/*`) | directories, model sessions | prepare from Git, archive or files; answer and corrections; cleanup | `ReviewWorkspaces` |
| storage helpers (`storage/storage-helpers.ts`), administration (`cli.ts`) | rows of all stores | profiles, connections, tenants and their deletion | `StoreTables`, `Administration` |
| storage migration (`cli.ts`) | a source and a target | `storage migrate` | `StorageMigration` |
| schema migrations (`storage/adapters/*/migrations`) | the schema and its record | apply at start, again after a crash | `SchemaMigrations` |
| watch of a review (`cli/review-watch.ts`) | what was followed and shown | poll, tail, judge | `ReviewWatch` |
| entry point (`index.ts`) | shutdown flag | start, signals, three phases | `ProcessShutdown` |

The parts meet in few places. Everybody shares the job and run rows; the worker
is the only one to write what a review produced, always under its claim; the
platform is written by the reconciler, by reply publication and by the trigger
lifecycle, never in a transaction with the storage; the memory of a project and
the workspaces on disk are touched by attempts that the lease does not fence.

**What is hard.** Several processes share one database, and an attempt is fenced
only by a lease: the stored lease, the local deadline that the heartbeat
maintains, and renewals that are late, lost or refused have to fit together. A
claim can be recovered by any process once it has expired. The run and the job
end in two transactions. Publication reaches the platform before storage knows
of it, and a retry has to find what an earlier attempt has left. Provider-side
status is written by four parties from snapshots of the job. An administrator's
command is a sequence of store calls on a database that the server is using.
Migrations crash half-way and are applied again. `PROJECT.json` lists the
hazards at the line where each one bites, with the property that covers it.

**What makes it correct**, in the order of the modules of section 2: one review
at a time and two attempts never act together; the retry budget is kept and
outcomes are final; every job settles and every run ends; a request belongs to
exactly one job and a started batch never grows; nothing that can be found again
is published twice, a completed job has published its whole result, and the
storage agrees with the platform about it; a checkpoint's work is not redone;
no baseline hides a change and no review calls a code review ready while a
reported problem stays open; what people are shown agrees with the outcome;
commands keep their promises and leave the server's work alone; data survives
migrations; a model reads exactly the revision that its attempt prepared.

## 2. Modules

### Store and runner: `InteractionJobStore`, `JobRunner`, `ReviewQueue`

**State.** `jobs[j]` is a row of `interaction_jobs` (status, times, retry count,
the claim columns, the latest run), `runs[t]` the run created under claim token
`t`: a token is a fresh ULID per claim and an attempt creates at most one run,
so the token names it. `attempts[t]` is what the process that claimed `t` holds
in memory: where `processClaimedJob` stands, the heartbeat's `leaseDeadline`
(0 once the claim context is aborted), and a renewal in flight. `workers[w]` is
the step of the tick a runner is at and its `stopping` flag.

**Time.** `clock` is the wall clock that processes and database share. The
caller of `claimNext`, `expireQueued` or the reconciliation reads its clock
before the transaction starts, so those operations take a `now` that may be up
to `MaxSkew` old; `reviewphin_now()` inside a transaction is `clock`.

**Atomicity.** One store call is one action, since each is one immediate
transaction. Everything an attempt does between two calls is folded into the
`pc` it waits at; time passes and other processes act between any two. An
attempt checks `assertOwned` before a call and the store checks ownership again
inside it, so a call is enabled by the store's predicate, and `LeaseLost` ends
the attempt whenever either check fails.

**Errors.** `FailRun`, `CancelJob` and `RetireJob` are the catch block of
`processClaimedJob`; `UnexpectedError` is an error that escapes it or follows
the completion of the run, which that block can no longer fail. `BeatError`
covers a renewal that fails and one whose answer is lost after the store applied
it. `FailTick` is a tick that throws. A crash forgets the memory of a process;
the rows stay. A `LIMIT` returns any subset of that size.

`ReviewQueue` is what store and runner promise together: jobs wait, one at a
time is reviewed, it ends or goes back, and a budget of failures is kept.

### Admission: `InteractionBatches`, `InteractionAdmission`, `SingleWorkerAdmission`, `CommentBatches`

**State.** `requests[r]` is a row of `interaction_requests`; `r` stands for the
tenant and dedupe key from which the row's id is derived. `Batch(r)` is the job
that `createBatchJob` derives from that id, `Single(r)` the job that the command
line makes of the same comment. `started` is `started_at IS NOT NULL`: it stays
set when a job is queued again. In `SingleWorkerAdmission`, `op` is the
operation at the head of `serializeJobMutation`'s queue and the write it is at,
and `attempt` the job the process works on.

**Steps.** `Admit` is the whole transaction of `admitInteractionTrigger`:
duplicate, job of the command line, search among the candidates from the newest
on, sealing, creation, schedule. The single-worker adapter makes the same
decisions in `LinkOwn`, `Append`, `Seal`, `Create`, `Schedule` and
`MarkAdmitted`, one remote write each. Every admission and claim first finishes
the requests that an earlier one left (`Begin`, `RecoverNext`, `Relink`).
`WriteFails` drops the operation, `Die` also the attempt; the rows stay.

**Abstractions.** The lease is left out here: a claim may find it expired or
not. A request's size is a small number. Ids are arbitrary hashes, so ties that
the code breaks by id are broken either way. `CommentBatches` is the promise of
both adapters: membership is permanent and a started batch is closed, which is
what lets the worker read the requests of a batch again at each attempt.

### One job: `ReviewPublication`, `ReviewPipeline`

`ReviewPublication` is one publication call by call: each action is one call to
the platform or one write of a mapping or finding (`reconcile`,
`runReconcile`, and the adapters of GitHub and GitLab, which differ: a pending
review that is found again by the key of its job against drafts that are
published in bulk and matched afterwards). `page` is what the platform shows,
`db` what the storage knows of the discussions, `pub` how far the reconciler is.
One discussion of an earlier review exists; the result keeps, changes, answers
or closes it, or reports other findings.

`ReviewPipeline` drives it: `processClaimedJob` from the claim to the end, for
collected batches, single comments and manual reviews. `att` is the attempt
(`pc`, plan, checkpoint in memory), `saved` the checkpoint in the newest run,
`job` the row, `rows` the saved findings of the run, `replies` what was posted.
`Fail` is an error of any call, `Die` a death or a lost lease, `Refuse` the
worker's own refusal when the head has moved or the reconciliation throws,
`MoveHead` a push. What the models answer is a choice from `Plans` and
`Results`. Rendering, anchors and prompts are abstracted.

### Around the queue

Each of these modules is a behaviour on its own; `MCServices` runs them side by
side, one per behaviour (`part`), the variables of the others staying at their
beginning. They do not interact in it: what joins them is the storage, and the
part of it that matters is in each module.

* `TriggerLifecycle`: what comments and check runs show of one job. `calls` are
  calls of admission, worker, expiry and orphan reconciliation under way, each
  made from what its caller knew; a call may fail unnoticed or arrive late.
* `StoreTables` has the rows of all stores with the references SQLite enforces;
  `Administration` the commands on profiles, connections and tenants as
  sequences of store calls, with a server that admits, claims and works
  meanwhile, other commands, and deaths between two calls. Reads, checks and
  writes of a store call that are statements of their own are steps of their own:
  a profile is looked for and only then given to a tenant, its tenants are
  counted and only then is it deleted. `crossed` has the profiles for which these
  two have overtaken each other. A command's promise is what it does when nobody
  interferes.
* `StorageMigration`: stores copied one after another, page by page in the order
  of ids, from a count made before. A page of jobs is one transaction of the
  target, the rows of any other page are written one by one. The command is
  killed between any two writes or fails, is given again, and the server may
  still write to the source.
* `SchemaMigrations`: SQLite migrations 0001 to 0013 and Flotiq v002 to v007
  over rows of the first version; a migration is one transaction with its record
  or several steps; processes start together, die and start again. A process
  goes by the record that it read at its start and by columns that it looked at
  before its transaction, so it may rebuild a table that another process has
  taken further; `repeated` names the migrations to which this happened. Flotiq
  storages are prepared by one process at a time.
* `SingleWorkerRuns`: runs of the adapter without transactions. A run is two
  writes, its findings several, and the reconciliation reads one page of jobs
  per poll. Calls fail and the process dies between any two writes.
* `WebhookService`: a delivery from its arrival to its reply on both routes,
  with repeated and overlapping deliveries, while heads, threads, secrets,
  repository names and the tenant change. A step that fails may have been done
  all the same: the check run was made, the job was stored. `after` records which
  deliveries were over before one began.
* `GitHubSetup`: visits to the setup pages, each of which reads the connection,
  asks GitHub and writes what it made of it; links expire, the command line
  recreates or removes the connection. `overlapped` says that a write has undone
  a change its reader had not seen.
* `ReviewWatch`: `review start` following its job, which the worker claims,
  logs, fails, retries and ends; the log grows in pieces of lines.
* `ProcessShutdown`: requests, ticks and the lifecycle reconciliation beside the
  loop, against signals and the three phases of the shutdown.
* `ReviewHistory`: runs of one code review in order, with their snapshots and
  finding rows, and what a later review takes from them, while attempts fail, are
  repeated with a checkpoint or complete falsely, and people push, retarget,
  resolve and reopen. It abstracts publication to one step, and answers to one
  that comes before it (`replied`). Only a batch asks for the current head when it
  publishes; a manual review or a single comment publishes at the head it has
  read, and becomes a baseline with it. Its ghosts record
  what some review was shown (`seen`), what a review closed (`answered`) and a
  sync cut between its two writes (`torn`).
* `ProjectMemory`: the queue of promises per project, the optimistic write and
  its retries, coalescing, the store row and the wiki page. Entries stand for
  their normalised texts.
* `ReviewWorkspaces`: the directory of each attempt of a job: Git with its refs
  and manifest, archive or single files, the sessions that read it with their
  corrections, and the cleanup, beside an attempt that lost its lease and the
  removal of the tenant.

## 3. Runs

| run (module) | instance | checks |
| --- | --- | --- |
| `runner_two_jobs` (`MCJobRunner`) | 2 jobs, 2 processes, 3 claims, no retry, lagging clocks, 1 fault | `RunnerTypeOK`, `OneActiveReview`, `ExclusiveAttempt`, `ImplementsReviewQueue` |
| `runner_retries` (`MCJobRunner`) | 1 job, 2 processes, 3 claims, 1 retry, backoff, debounce, lagging clocks, 1 fault | `CompletedJobHasCompletedRun`, `RetriesAccounted`, `TerminalIsFinal` |
| `runner_liveness` (`MCJobRunner`) | 1 job, 1 process, 3 claims, 1 retry, 1 fault, fairness | `EveryJobSettles`, `EveryRunEnds` |
| `runner_false_completion` (`MCJobRunner`) | 1 job, 1 process, 3 claims, 1 retry, 1 fault | `NoLingeringFalseCompletion`, **violated** |
| `admission` (`MCInteractionAdmission`) | 3 requests, 2 reviews, 1 comment also submitted by the command line, sizes 1 and 2, debounce, lagging clocks | `RowsTypeOK`, `BatchLimits`, `AdmittedHasJob`, `WaitLimit`, `ImplementsCommentBatches` |
| `admission_local_twice` (`MCInteractionAdmission`) | 2 requests, 1 comment of the command line | `OneJobPerComment`, **violated** |
| `staged_admission` (`MCSingleWorkerAdmission`) | 3 requests, 1 review, 2 faults | `OnePending`, `NoHalfBatchClaimed`, `OneOpenBatch`, `ImplementsCommentBatches` |
| `staged_liveness` (`MCSingleWorkerAdmission`) | 2 requests, 2 faults, fairness | `SavedIsAdmitted` |
| `staged_recovery_stuck` (`MCSingleWorkerAdmission`) | 2 requests, 1 comment of the command line, 1 fault, fairness | `SavedIsAdmitted`, **violated** |
| `pipeline` (`MCReviewPipeline`) | 1 job of each of 3 kinds on each of 2 platforms, 3 findings, 2 groups of replies, 2 plans, 6 results, 2 retries, 1 push | `PublishedOnce`, `CompletedIsPublished`, `MappingFollowsDiscussion`, `PartialPublicationIsFinal`, `SavedWorkIsNotRedone`, `JobSettles` |
| `pipeline_duplicates` (`MCReviewPipeline`) | the same for a batch on GitLab | `NothingTwice`, **violated** |
| `services` (`MCServices`) | one of the twelve services per behaviour, bounds below | `TypeOK` and the fourteen properties below |

What the properties of `services` say:

| property (module) | says |
| --- | --- |
| `OutcomeIsTold` (`TriggerLifecycle`) | nothing is shown as finished before a run was completed, nor as failed without a failed job or a lost lease; if no call failed and no lease was lost, each comment of an ended job shows how it ended. A late call may still put an ended check run back to waiting |
| `CommandsKeepPromises` (`Administration`) | a command with which nobody interfered does all it promises or is refused, whatever commands and deaths came before it; of a command that was disturbed it says nothing |
| `ProfilesConsistent` (`Administration`) | at most one default profile, and every tenant's profile exists, unless the profile was removed and given to the tenant by two commands that had both made their check before either wrote |
| `ClaimedJobSurvives` (`Administration`) | no command takes a claimed job away from its runner (its data it may take, section 6) |
| `QuietMigrationCopies` (`StorageMigration`) | a migration that ends well has copied every row of a quiet source |
| `OldDataSurvives` (`SchemaMigrations`) | a process that is ready finds every row of the first version brought up to date, however many started and died: sessions, requests and triggers always, times and kinds of jobs unless a late process ran 0009 or 0011 again, connections unless one ran 0006 or 0008 again |
| `RunsAgreeWithJobs` (`SingleWorkerRuns`) | a completed job has a completed run with all findings, and reconciliation converges |
| `WatchTellsTheEnd` (`ReviewWatch`) | a watch that ends by itself ends with the truth |
| `SetupIsWhole` (`GitHubSetup`) | a connection is ready only as a whole; while no late write has undone another (`overlapped`), only the newest link works, until it was used |
| `StorageOutlivesWork` (`ProcessShutdown`) | nothing uses the storage once it is closed, but for work that a phase has given up on and a runner that was started after its stop |
| `RepliesAreTrue` (`WebhookService`) | a delivery told of a job finds it, at most one of an event is told it is new, and whoever stored a job was told so or of a failure; a job belongs to an authorized delivery; what is called handled has a check run |
| `HistoryIsSound` (`ReviewHistory`) | no baseline hides a change that no review was shown; no review calls the code ready while a reported problem is open |
| `MemoryIsKept` (`ProjectMemory`) | calls of a process never undo each other's writes |
| `WorkspaceIsExact` (`ReviewWorkspaces`) | a session reads exactly the revision that its attempt prepared |

`EveryJobSettles` and `EveryRunEnds` are checked with one job, so that no limit on
what a tick expires or reconciles is reached there.

`ImplementsReviewQueue` is a refinement: with `phase` read off the status column
and `failures` off `retryCount`, every step is a move of `ReviewQueue` or a
stutter. A claim that recovers another job is one abstract move (`StartReview`
gives up on every other review first), a release on stop costs no retry, and no
job is retried past its budget. `ImplementsCommentBatches` is the refinement that the worker relies on: the
requests of a batch are read again at each attempt, and both adapters guarantee
that the first attempt and its retries read the same ones. `InteractionBatches`
defines it for both.

`OneOpenBatch` says that the comments of a review never wait in two batches side
by side. It holds as long as admissions come in the order of their readings of
the clock, as those of one process do, so a run checks it for the adapter of one
process; section 6 has the other case.

### Findings

**False completion.** The comment in `reconcileOrphanedInteractionRuns`
(`src/src/storage/adapters/sqlite/database.ts:1571`) says that marking the run
of a job that was requeued or reclaimed as failed "prevents a false completion
from lingering". The repair looks only at runs that are still the job's latest
one. When an attempt completes its run and dies, its lease expires after the
reconciliation of a tick, and the claim of the same tick recovers and reclaims
the job, the next attempt's run becomes the latest one and the old run stays
`completed` next to the run that really completed the job.

**A comment handled twice.** The command line reference
(`src/docs/src/content/docs/management/cli-reference.md:508`) says that "comment
submissions use the same deduplication identity as webhook submissions" and that
repeating one reuses the existing job. That holds in one direction: a webhook
finds the job that the command line made (`LinkSingle`). The job of a comment
that a webhook admitted has the dedupe key of its batch
(`src/src/storage/interaction-batches.ts:109`), `createOrGetInteractionJob` does
not find it, and the comment gets a second job.

**Recovery that cannot succeed.** The storage guide
(`src/docs/src/content/docs/deployment/storage.md:89`) says that after a restart
"the adapter finishes assigning the saved request before accepting another
request or claiming a job". A request whose comment has a job of the command
line is linked to that job whatever its status. If that job is in progress and
the process dies before `admittedAt` is written, `attachRequest` refuses the
request on every recovery. As `claimNext` recovers admissions before it recovers
leases, the job stays in progress and nothing is admitted or claimed again.
`staged_liveness` shows that without jobs of the command line recovery always
succeeds.

**Findings published again.** The review flow
(`src/docs/src/content/docs/development/review-flow.md:98`) says that "retries
recover bot-owned publications by stable markers instead of duplicating
comments". GitLab's `publishFindings`
(`src/src/platforms/gitlab/review-publication-adapter.ts:179`) makes a draft for
each finding of the result without looking for one that is there. A batch that
fails after the bulk publication and before its checkpoint says so takes the
saved result in its next attempt and publishes every finding again. On GitHub
the pending or submitted review is found by the key of its job, and
`PublishedOnce` holds.

### Bounds

*Runner.* `MaxClock`, `LastEnqueue`, `MaxSkew`, `MaxFaults` and the size of
`Tokens` bound the instances. A lease of 2 leaves room for a renewal before and
after its middle, for a stale `now`, and for an expiry inside the horizon; three
claims allow a loss, a reclaim and a release of the same job; two processes and
two jobs are what a violation of exclusion needs. Renewals that would end beyond
the horizon are not sent (`BeatSend`), so that every lease ends in it. Where
liveness is checked the horizon is long enough for the queued job to expire and
for the last lease to end, and there is a token for each claim, so that the
bounds never stop the system. Deadlock is checked: pollers always have a next
step. Tokens, processes and jobs are compared only for equality, so symmetry is
used in the safety runs; never with liveness.

*Admission.* Three requests against `MaxBatchRequests` and sizes 1 and 2 against
3 bytes make a batch that fills, a pair that leaves room and one that does not
fit, without a request that fills a batch alone; a quiet period as long as the
maximum wait makes the wait count as soon as a second request arrives; the clock
runs past both, and `MaxSkew` lets calls overtake each other. `MaxRetries`,
`Backoff` and `MaxAge` let a batch be retried and expire, and `MaxFaults = 2`
lets the recovery itself break off. `Locals` are the comments that the command
line may submit. `InteractionAdmission` ends when all requests are settled and
the clock is at its bound, so deadlock is not checked there; a process of
`SingleWorkerAdmission` polls for ever. Requests outside `Locals` and reviews
are interchangeable.

*Pipeline.* `MaxRetries = 2` allows an attempt that leaves part of its work, one
that fails while it recovers that part, and one more. `MaxHead = 1` is one push
at any point of any attempt. Two inline findings and one on the issue, two
groups of replies and six results make every action of the publication happen
beside another one of its kind. The job ends, so deadlock is not checked.

*Services.* Each has its own bounds; their behaviours end at them, so deadlock
is not checked.

| module | bounds |
| --- | --- |
| `TriggerLifecycle` | 2 `Comments`, so that one is not the first; `LifecycleTries = 2` attempts |
| `Administration` | 2 `Admins` (symmetric), `AdminSteps = 2` commands, `ServerSteps = 2` steps of the server, 2 jobs, and `FewMoves`: two commands overlap and meet one step of the server, or one meets two between any of its calls |
| `StorageMigration` | `MigrationRuns = 2`: killed, failed or done, then given again; `PageSize = 2` and 3 jobs, so that a page is full and another is not; 4 `Sources`: a job `queued`, `in_progress` or `completed`, with a default profile or none; a target that is empty or has the profile that its start made |
| `SchemaMigrations` | 2 `Starters`, `SchemaCrashes = 2`; 2 tenants and 2 jobs with and without metrics, with shared and unequal secrets |
| `SingleWorkerRuns` | 2 jobs, `WorkRuns = 2` runs, `WorkRetries = 1`, `WorkFaults = 1`, pages of `ScanSize = 1` and `ReconcileLimit = 1`, so that one job is on another page |
| `ReviewWatch` | `WatchRuns = 2` attempts, `WatchRetries = 1`, `LogPieces = 2` of a run, `Shown = 1` remembered |
| `GitHubSetup` | 2 visits, `MaxLinks = 2`, `MaxApps = 2`, `MaxInstalls = 1`: two visits overlap, and a link or an App is replaced once |
| `ProcessShutdown` | `MaxRequests = 2` requests in flight, `MaxExpired = 2` jobs whose comments wait to be told, one claim |
| `WebhookService` | 2 of the enumerated deliveries (a third of every kind adds no overlap), `MaxChanges = 1` of the tenant or platform |
| `ReviewHistory` | 2 jobs after a past of one review on GitHub or of none on GitLab (`PastOf`), `HistoryRetries = 1`, `MaxFailures = 1`, `MaxMoves = 1` of people, once an attempt was made (`OnceTried`); one file, one finding, one content too large for a snapshot |
| `ProjectMemory` | 3 calls of which one supersedes another's entry, `MaxEdits = 2` edits from outside or failed calls, `FewEntries = 1`, so that two entries are coalesced |
| `ReviewWorkspaces` | 2 attempts, `MaxPushes = 2`, `MaxSessions = 1` in each attempt with `MaxTurns = 3` answers |

### Fairness

`Fairness` of `JobRunner` assumes that time passes, that a live runner keeps
polling (`scheduleNext` is called after every tick, failed or not), that a
stopped process is started again, and that an attempt takes its next step: each
of its calls has a timeout or fails with its connection. Nothing is assumed of
renewals: liveness must not depend on a heartbeat that works.

`FairSpec` of `SingleWorkerAdmission` assumes that the runner polls between
attempts, that an operation takes its next step unless a fault ends it
(`MaxFaults` bounds those: writes do not fail for ever), that an attempt ends
whenever the queue lets it, and that a lease nobody renews is found expired.

`WF_vars(Work)` of `ReviewPipeline` assumes that an attempt goes on and that a
queued job is claimed, which `JobRunner` justifies. Failures, deaths and pushes
are not fair. `Refuse`, the worker's own refusal, is part of `Work`.

### Assumptions

* `ReviewPipeline` and `ReviewHistory` have one attempt at a time, which is
  `ExclusiveAttempt`; a call of a dead attempt that is still under way has
  landed before the next attempt reads.
* A call to the storage is atomic; with the adapter without transactions a write
  of one record is.
* `ReviewPublication` has one discussion of an earlier review, and people do not
  resolve it meanwhile. In `ReviewHistory` people act at the beginning of an
  attempt or before its publication.
* Entries of `ProjectMemory` stand for their normalised texts.
* In `ReviewWorkspaces` a tenant is removed only when no attempt owns the job:
  the command refuses otherwise, and what happens between its test and its
  deletion is in `Administration`.
* SQLite is atomic and durable per transaction.

The modules name what they assume of their constants. Numbers are naturals, and
`StoreAssumption` has a positive lease. `MigrationAssumption` has a positive page,
and sources that are databases (`IsDatabase`): finitely many rows whose references
are those of the schema (`ForeignKeys`) and are there, tenants with a profile that
exists, and one default profile at most. The run takes them from the store's
calls, which `Administration` shows to keep this but for a profile in `crossed`:
a source with a tenant whose profile was lost that way is left out.
`WorkAssumption` has finitely many jobs, ordered by their ids, and a positive page.
`None` is no id, job, result or checkpoint (`StoreAssumption`,
`RunnerAssumption`, `BatchAssumption`, `NoneAssumption`): it stands for SQL's
`NULL` and JavaScript's `null`. Findings are finitely many and are either inline
or on the issue (`FindingsAssumption`), as their identities contain the place.
Calls of `ProjectMemory` and attempts of `ReviewWorkspaces` are numbered
(`MemoryAssumption`, `WorkspaceAssumption`), with 0 for nobody; the bounds of
`ReviewWorkspaces` allow a first head and a turn. The jobs of `ReviewHistory` are
not 0, which there stands for the run of before, and 1 is the content that its
files begin with (`HistoryAssumption`). A watch has finitely many runs to follow
and lines to show (`WatchAssumption`). The job that is
there before any command is one of the jobs, and the server is no command
(`AdminAssumption`). An action of GitHub comes from a person, who pressed its
button (`EventsAssumption`); there are finitely many requests and at least one
(`RequestsAssumption`), which only the bound on check runs needs.

## 4. Proofs

Every theorem holds for every value of the constants that the named assumptions
of section 3 allow: any sets of jobs, processes, requests, findings, visits or
deliveries, any number of commands, any limits and any length of a behaviour.

| module | theorems |
| --- | --- |
| `JobRunnerProofs` | `TypeCorrect` (`RunnerTypeOK`), `OneReview` (`OneActiveReview`), `ExclusiveAttempts` (`ExclusiveAttempt`), `QueueImplemented` (`ImplementsReviewQueue`), `OutcomesFinal` (`TerminalIsFinal`), `CompletionIsBacked` (`CompletedJobHasCompletedRun`), `RetriesExact` (`RetriesAccounted`), `NothingIsHidden` (`HistoryIsSound`) |
| `BatchProofs` | lemmas for the two modules below |
| `AdmissionProofs` | `RowTypes` (`RowsTypeOK`), `NothingLeftBehind` (`AdmittedHasJob`), `BatchesLimited` (`BatchLimits`), `WaitLimited` (`WaitLimit`), `BatchesImplemented` (`ImplementsCommentBatches`), `OneBatchAtATime` (`OneOpenBatch`) |
| `SingleWorkerProofs` | `StagedTypes`, `OneUnfinishedRequest` (`OnePending`), `WholeBatchesClaimed` (`NoHalfBatchClaimed`), `StagedLeavesNothingBehind`, `StagedBatchesImplemented`, `StagedBatchesLimited`, `StagedWaitLimited`, `StagedOneBatchAtATime`: the same of the staged writes |
| `PipelineProofs` | `PipelineTypes`, `NoDuplicates` (`PublishedOnce`), `CompletedBatches` (`CompletedIsPublished`), `MappingsAgree` (`MappingFollowsDiscussion`), `PublicationIsFinal` (`PartialPublicationIsFinal`), `WorkIsNotRedone` (`SavedWorkIsNotRedone`) |
| `ServiceProofs` | `ClosedAfterWork` (`StorageOutlivesWork`), `EndsAreShown` (`OutcomeIsTold`), `EntriesAreKept` (`MemoryIsKept`), `SessionsReadTheirHead` (`WorkspaceIsExact`), `SetupsAreWhole` (`SetupIsWhole`), `WebhooksAnswerTruly` (`RepliesAreTrue`), `ServicesKeepTypes` (`TypeOK`) |
| `RecordProofs` | `ReconciliationMends` (`RunsAgreeWithJobs`), `WatchersAreToldTruly` (`WatchTellsTheEnd`), `OldRowsSurvive` (`OldDataSurvives`) |
| `AdministrationProofs` | `RowsReferToRows`, `CommandsAreKept` (`CommandsKeepPromises`), `ProfilesStayConsistent` (`ProfilesConsistent`), `ClaimsAreRespected` (`ClaimedJobSurvives`), `MigrationTypes` (`MigrationTypeOK`), `MigrationsCopyAll` (`QuietMigrationCopies`) |

The theorems about services are about a specification made of the service's own
variables and steps (`ShutdownSpec`, `MemorySpec`, `HookSpec`, ...); the run
`services` takes the same `Init` and `Next` as one of its parts. Only
`ServicesKeepTypes` is about the specification of that run, `MCServices!Spec`.

### Store and runner

*Types.* `TypeInv` adds to `RunnerTypeOK` that an attempt that exists knows its
job, which the store's operations need; there is one lemma per store operation.

*Exclusion.* Neither property is inductive: what rules out a second claim is the
stored lease, and what an attempt goes by is its own deadline. `ClaimInv`
connects them. For each attempt that believes it is inside its lease
(`LeaseBelief`), the row of its job still holds its token and a stored expiry no
earlier than its deadline; a renewal in flight asks for no less than the current
deadline, so accepting it never shortens the stored lease below it; and once the
store has accepted a renewal, the expiry covers it until it is read. The
invariant is preserved because a claim needs that no lease be active at its own
`now`, which is never ahead of `clock`: any believer blocks it
(`BeliefBlocksClaim`). The age of `now` is not bounded in the proofs beyond that,
so the theorems do not depend on how slow a store call is. They do depend on one
clock shared by all processes and the database, which is what the code assumes
when it compares `Date.now()` with stored timestamps.

*Refinement.* `QueueImplemented` maps each operation to a move of `ReviewQueue`.
It needs `ClaimInv`, because a claim starts one review and gives up on every
other, and `AbsentIsNew`: a row that is not there has no retries. Finality is
read off the moves, not the operations.

*Commit order.* `OutcomeInv` adds to `CompletedJobHasCompletedRun` what an attempt
may rely on between its two transactions: before it has a run its token names
none (`RunFresh`), and while its stored claim holds the job names its run, which
stays completed once it is (`RunLinked`). That is why neither reconciliation nor
an attempt that took over can take the run of a completed job away.

*Retries.* `RetryInv` counts the claims of a job that were not given back and
finds the reviews that `ReviewQueue` counts (`ClaimsCounted`, over finite sets of
tokens); `StoredCounted` and `UnusedClean` make each claim add one and each
release take one.

### Admission

`RowInv` of `AdmissionProofs` says that admission leaves nothing half done, that
a batch has the request that made it (`Founded`), and that a running batch was
started. With `CountLimit`, `BytesLimit` and `WaitLimit` it is inductive. The wait is limited
although `now` may be old: a schedule is bounded by the first of the requests,
which exists because instants are well-founded (`FirstExists`).

`BytesLimit` speaks of a sum over the requests of a batch, which is defined by
recursion. `BatchProofs` counts instead: a sum is the number of single bytes, the
pairs of a request and a number below its size (`BytesCounted`). If the two
differed for some set, they would differ for a smallest one, and taking a request
away from it takes the same from both. One more request then adds its own bytes
and no others (`BytesOfOneMore`), so a batch that is joined keeps the limit that
the join has tested (`JoinKeepsBytes`), and a batch that is made has one request.

The staged writes need more, since each of them is a state. `StagedRows` is what
the rows keep to after any write: one request at most is unfinished, a batch may
exist before its first request is linked but nobody else has joined it
(`Owned`, `FounderLinked`), and no batch is claimed with an unfinished request.
`OpKnows` says what the operation knows of them: outside an attachment the
requests it has still to finish are all there are. A failed write drops the
operation and keeps the rows, so `StagedRows` alone must be enough to start
again, and `StagedBatchesImplemented` maps most writes to stutters and the one
that links a request to the abstract join.

`OneBatchAtATime` and `StagedOneBatchAtATime` assume `MaxSkew = 0`: admissions
come in the order of their readings. For the staged writes `WaitingInv` is needed,
because sealing the older batches of a review takes several writes. It goes by the
instant the operation began (`Horizon`); while a schedule is due that may make a
batch wait, no other batch of the review waits (`AloneWhileBound`), and a request
that is not held back is alone in its batch (`HastyAlone`).

### One job

`PipelineInv` has a part for the reconciler and one for the worker.
`PublicationInv` follows a publication from call to call: what was posted, in
which order the prior discussion was answered, edited, reopened or resolved, and
that findings are mapped only once all are shown. The worker's parts say what an
attempt takes over: the checkpoint is the saved one and of this head (`Resumed`),
the result is the one that is published (`OneResult`), a checkpoint that says
`published` has been (`PublishedIsTreated`), a reply key is saved only for a reply
that is there (`Replied`). `Agreed` relates storage and platform outside a
publication, and `Worded` is about the words of an edited comment (section 6).
The action properties follow from the same invariant, step by step.

### Around the queue

* *Shutdown:* `ShutdownInv` names what each phase leaves behind, unless it was
  given up on (`abandoned`) or a start overtook it (`late`).
* *Lifecycle:* calls under way are true for what their caller knew
  (`CallsAreTrue`), so is what they have shown (`ShownIsTrue`), and until the end
  of an undisturbed job is shown on a comment a call to tell it is under way
  (`EndIsTold`).
* *Memory:* the promises of a project form a queue (`QueueInv`), so a call whose
  turn it is is alone (`TurnIsAlone`), and what it writes has all that is owed
  and nothing that is gone, although it read before and others may edit
  (`WritesFresh`).
* *Workspaces:* `Underway` says at each step of the preparation what is already in
  the directory, up to `Exact` while sessions read it.
* *Setup:* `SetupInv` holds of any row that some visit or command may have read and
  may still write back: what it names on GitHub is there and fits (`Whole`), as
  GitHub forgets nothing (`Remembered`); what a visit was given is confirmed
  before it is written (`Confirmed`).
* *Webhooks:* `Established` is what a request has shown by the time it stands at a
  step, and nothing that happens around it takes it back; `AnswersTold` relates the
  replies to the stored jobs: behind each job is a delivery that was told of it, or
  of a failure at its store, and the duplicates that follow find it; `Raced` says that a request about to make a second
  check run overlaps with the one that made the first.

### Administration

`AdminInv` has two halves. `Tables` is what any order of store calls keeps: a
row's key tells what it refers to (`Needs`), all of that is there, and two
profiles are never the default. `OnTrack` is about a
command that nobody has disturbed: what it promised when it began is what it
would promise of the database as it is now, and it knows what its next call
builds on (`Knows`). `CommandsKeepPromises` itself says nothing of the calls in
between. So each writing call must leave the promise as it was: to clear the old
default and then set the new one is to set the new one (`ClearedFirst`), and a
removal that has cleared one more table still owes the profiles and connections
that there are (`RemovalStands`, with `Cleared` for the tables that are empty by
now). Deletions are in an order in which no row that is left refers to the table
that goes, which `NeedsTables` reads off the keys. Anyone else's write ends what
a command may know, so another process only has to keep `Tables`, and commands
must spare claimed jobs (`Spares`), which gives `ClaimsAreRespected`.

That a tenant's profile is there is no part of `Tables`, as SQLite does not
enforce it and a check says nothing of the moment of the write. `ReferencesInv`
says what remains: a call that is about to delete a profile has seen no tenant of
it and a call that is about to give one has seen that profile, and what each has
seen is still so, unless a call of the other kind was under way at the same time
(`Crossing`). So neither can break the reference alone. Every other write keeps
profiles and their tenants (`Keeps`).

### The migration of a storage

While the source is quiet, `Progress` says which rows a run has copied: those of
the stores before, those of the pages before, and of the page it is writing all
but the rest (`CopiedSoFar`); they are in the target as they are in the source.
The pages cover a store because a row's rank, the number of rows before it, is
below the number of rows (`RankWithin`, `EveryPageRead`), and what a row refers to
was copied before it, as the order of `Steps` puts each table after those it
refers to (`StepsInOrder`, `RefersBack`). Whatever an earlier run left in the
target is what this one would write (`SameRows`), but for which profile is the
default, which is settled when the profiles are written (`ProfileWritten`). So a
run can only fail at a page of jobs of which one is in progress in the target;
a first run meets none, because all the jobs there are its own and are on pages
before.

### Runs without transactions

`WorkInv` follows the two writes of a run and the reconciliation. An attempt's run
is the last one made and, once the second write is through, the one its job
names (`AttemptHolds`), so nothing an attempt writes touches the run of a
completed job; nor does a mended list, whose runs are of jobs that have not
completed since the page was read (`PageHolds`). Runs left without a claim are
all on the list while it is looked through, so none is left at the next page
(`OpenRunsAreSeen`). `PagesComeRound` counts: a job that needs mending has its
page read within `UntilAt` further polls, which with the polls that found
nothing stays below `Rounds`. A page that does not show it brings it one nearer
(`PageBringsNearer`), wherever the scan stands and although jobs that come and go
shift the pages, as each change starts the count again. That pages of
`ScanSize` jobs come round at all is arithmetic about ranks: a set of `n` jobs
has exactly `m` of rank less than `m` (`RanksBelow`), so that a page is short
only if it is the last (`PageSizes`).

### The watch of a job

`WatchInv` relates what the watch has read to what may still happen. An ended job
stays as it is or is removed (`WorldMoves`), so a job that was read as ended is
still that job (`JobIsRead`), its latest run is the one that is followed and was
read with the status that the job's end implies (`RunIsRead`), and the findings
counted afterwards stay the run's findings (`SummaryHolds`); that the watch ends
with an error only when job or runs were removed is read off `WorldHolds`, which
says that the runs are as many as the logs or all gone. `TailHolds` gives the
lines and the left-over piece at any place of a log that was not cut, and
`ReadingOn` that reading on from there gives those at the next place, for any
sizes: a line is neither lost, torn nor shown twice.

### The migrations of old databases

`SchemaInv` says what each migration, once recorded, has established (`Applied`), that
nothing done afterwards takes it back (`DataGrows`, `DoneStays`), and where each
process stands: it knows only migrations that are recorded, what it is about to
record is done, and the rows it listed are all that are left to change
(`StarterStands`). A migration that runs again is harmless because on SQLite a column
tells that its rows were rebuilt with it (`ColumnsTell`). That the second half of
one migration finds the first half of an earlier one is the order of the list:
all that comes before a process's first unknown migration is recorded
(`FirstIsNext`, `EarlierIsRecorded`). Connections are made from credentials that
are already in every tenant's configuration (`ConnectionsMade`). What a migration
has established (`Applied`) lasts through every step (`Lasting`) but for the
rebuilds of a late process: those of 0006 and 0008 cost the connections, those of
0009 and 0011 the times and kinds of jobs, and nothing else touches either
(`Quiet`). Sessions, requests and triggers survive them all, as 0012 cannot run
late: it names a column that has gone.

### The history of a code review

`HistoryIsSound` speaks of completed runs and of ready reviews; what makes it
inductive is what an attempt may rely on before it gets there. `Known` says that
a change was shown to some review or could not be (`Missed`). `HistoryInv` says
that everything changed at a run with a result is known (`RunHolds`), at whatever
head it was published, and
everything changed when a result was saved in a checkpoint, which a repeated
attempt takes over without a review (`CheckpointHolds`). No step takes this back
(`KnownStays`), because the snapshot of a run with a result and a published
checkpoint stay as they are (`Carried`); a checkpoint whose content is not that
of the run's snapshot, as a target branch moved between two attempts, is what
`Moved` names. What an incremental review is not offered has the
same signature in the previous run, which had a result, and is known through it
(`OfferIsKnown`). A provider's diff of a file that is too large has the same
signature as any other: this is the exception in `Missed`.

For readiness, `FindingHolds` says that a row that is closed while the thread is
open was answered by a review or was torn by a cut sync, in every completed run;
the run that is read back is the last that ended (`LatestIs`), and
`AttemptHolds` follows the attempt step by step: when it publishes, the rows that are open are among the findings it reports, and what it closes has a
thread. A review that is ready has found nothing and closed what was open
(`ReadyMeans`).

### The types of the services

`ServicesKeepTypes` is proved from the invariants above: `ServicesInv` says that
the service that runs has the invariant of its own proof, and a step of `Next`
is a step of that service. Where that invariant did not contain the whole type
there is one beside it (`WorkTyped`, `WatchTyped`, `SchemaTyped`, `HookTyped`,
`HistoryTypes`). Most of it is bookkeeping, with two exceptions. That the check
runs of a head are no more than the requests is `CheckRunsFew`: requests that are
about to make one only gather while there is none, and each makes one. That
`ReviewHistory` shows as changed only contents that files can have needs
`HistoryTypes` to follow a content from the push through the attempt.

### What is only model-checked

* Liveness (`EveryJobSettles`, `EveryRunEnds`, `SavedIsAdmitted`, `JobSettles`) and
  `ENABLED`: out of the prover's reach.
* The runs that end in a violation.

## 5. Plan

Modelled: everything of section 1's table. Proved: every safety invariant and
action property that a passing run checks. Checked only: liveness, and the four
violations.

## 6. Divergences met while modelling

Behaviours of the code that the models contain and their properties allow by
name, without a run of their own.

*Administration and migrations.*
* A job claimed between `tenant remove`'s test for active jobs and its listing of
  jobs keeps its row and loses its run and data.
* Setting an unknown profile as the default clears the old default and then
  fails.
* `platform connection remove` runs the platform's hook before it looks for
  tenants of the connection.
* A partial `storage migrate` fails for ever once a job that was in progress was
  copied; jobs copied before keep their old status.
* A profile that is removed while a tenant is given it: the removal counts the
  tenants before it deletes (`database.ts:595-623`), giving it looks for the
  profile before it writes (`database.ts:1812-1835`, `1847-1863`), no transaction
  holds the two together and the column has no foreign key. The tenant is left
  with a profile that is not there.
* A process that starts while another one migrates goes by the record it has read
  (or, after a death between a commit and its record, has a migration still to
  do), and 0006, 0009, 0011 and 0012 look at the columns before their `BEGIN`, 0008
  not at all. Late, 0006 drops `platform_connection_id`; 0008 makes new connections
  in `setup_required`, as the credentials are no longer in the tenants'
  configuration; 0009 drops `available_at`, `batch_kind` and the claim columns;
  0011 drops `batch_kind`; 0012 fails and changes nothing. `repeated` of
  `SchemaMigrations` marks it; `src/docs/src/content/docs/deployment/storage.md:37`
  speaks of "idempotent schema migrations".

*Webhooks, setup and lifecycle.*
* `ensurePullRequestCheckRun` lists and then creates: overlapping deliveries may
  create two check runs.
* A delivery may be told of a failure although its job is stored: the answer of
  the storage is lost, or the single-worker adapter saves the request and fails
  where it attaches it (`single-worker-interaction-job-store.ts:383-397`). The
  redelivery is told it is a duplicate, and no delivery was ever told that the job
  is new.
* GitHub's dedupe key contains the kind of trigger; a GitLab follow-up may be
  rebuilt as a direct mention without an instruction.
* The repository name that GitHub reports is written from a snapshot of the
  tenant's configuration.
* A late visit to a setup page writes back a link that was used, which
  `src/docs/src/content/docs/management/platform-connections.md:58` calls
  invalidated; recreating a pending setup forgets the App to be cleaned up.
* A `queued` of admission that arrives late may overwrite a finished check run;
  for a batch whose run was orphaned only the first comment is told.

*Admission.*
* `src/src/jobs/review-worker.ts:184` reads the clock before the transaction
  they are for. Two processes that admit comments of one review in the other
  order of their readings may leave two batches waiting side by side:
  the second seals the batch of the first and starts another, and a third request
  that fits only the sealed one finds it open at its older reading.
  `OneOpenBatch` fails for `InteractionAdmission` with `MaxSkew > 0` and requests
  of such sizes. Both batches are reviewed, one after the other.

*Worker, store and shutdown.*
* The adapter without transactions reconciles one page per poll, and the claim of
  the same tick may reclaim the job before.
* A watch whose attempt dies before it has a run reports the log of the run
  before; `runStatus` of a failed job may be a completion that is reconciled
  later; a removed tenant gives "Storage consistency error".
* A reconciliation of lifecycles that shutdown gave up on may still run when the
  storage closes; a failing `app.close` skips `runner.stop`; a signal during
  `listen` may start the runner after its stop.

*Publication.*
* An unchanged finding is recognised by the fingerprint that the storage has, not
  by what the comment says (`src/src/reconcile/discussion-reconciler.ts:509`).
  After two pushes a comment may keep old words: an attempt edits the comment
  back to the words of before the first push and dies before it records them,
  the second push replaces its result, and a result with the recorded
  fingerprint finds nothing to edit. With one push this cannot happen to a batch,
  which is the part `Worded` has in the proof of `CompletedIsPublished`.

*History, memory and workspaces.*
* A manual review and one of a single comment publish at the head they have read
  although the branch has moved on, since `assertCurrentHead`
  (`src/src/jobs/review-worker.ts:1405-1409`) asks for the head of a batch only; the
  run becomes the baseline of the next review all the same.
* Findings published by a run that never completes are no prior findings. A sync
  that dies between mapping and finding never reopens the finding. A finding
  saved again by a retry after people resolved its thread stays open.
* The result saved in a batch's checkpoint does not see a retarget, and its
  snapshot becomes a baseline that hides that change. Providers' opaque diffs
  look unchanged.
* Memory entries with the same normalised form replace each other; entries in
  underscores are not read back from a wiki page; an edit between load and save
  is lost; a write whose lease is lost still lands, as
  `src/docs/src/content/docs/development/custom-storage.md:55` says; enabling the
  wiki drops the row's entries.
* A directory stays when its lease is lost between preparation and registration,
  when every preparation fails on GitLab, and after a crash. `tenant remove`
  deletes `workspaceRoot/<jobId>`, not GitHub's `<jobId>-XXXXXX`, although
  `src/docs/src/content/docs/management/cli-reference.md:214` says that hydrated
  workspaces are deleted; and on GitLab the directory of a stale attempt may
  vanish under its session.
* A `session.disconnect()` or `client.stop()` that fails in a `finally` replaces
  a valid answer by an error.
* GitLab's changes without Git come from the provider's current diff, not from
  the job's head, for jobs that are not batches.

## 7. Not modelled

Prompts, configuration, metrics and the layout of run logs, the HTTP clients of
the platforms with their paging and retries, image preparation, tool permissions
of model sessions, the Flotiq record store's API, the output of the command
line, the deployment chart and the documentation site: input and output or text,
without control state of their own that other parts depend on. Markdown,
markers, anchors and finding identities are data of the models, not strings.
`PROJECT.json` gives the reason component by component.
