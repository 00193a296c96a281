# A model of the backups microservice

The service is the control plane of PostgreSQL backups. It schedules logical
backups (`pg_dump` piped into wal-g), keeps a catalog of backup runs, restores a
run onto its target after an explicit approval (wal-g piped into `pg_restore`),
and removes the dumps that a job's retention count no longer covers. Restores
are destructive, removals cannot be undone, and both work on the same rows and
objects. Around them processes boot, edit jobs, run backups, verify tokens and
answer an admin page. This is what the project models, checks and proves.

Paths below are relative to the repository; `restore.service.ts:463` stands for
line 463 of `src/restore/restore.service.ts` and so on. `PROJECT.json` maps every
definition to its lines.

## 1. Inventory

### Components, their state and what must hold of them

| Component | State | Operations | Must hold |
| --- | --- | --- | --- |
| Restore requests (`restore/restore.service.ts`) | rows of `restore_requests`, the run's `verification_status`, audit events, `inFlight` in memory | `create` (with `createPin`), `executeRestore`/`resumeExecution` (`runExecution`, `claimForExecution`, `persistTerminalState`), `terminateStaleRequest` | one active restore per target; one row per idempotency key and no answer for another request; executed at most once; outcome final, audited once, and success only after a commit |
| Reconciliation (`restore/restore-reconciliation.service.ts`) | none but a sweep's snapshot | `reconcile`, every minute, not waiting for the previous one | every stranded request is resolved; a live restore is never terminated |
| Retention (`retention/retention.service.ts`) | rows read by a cleanup, the transaction that holds a run's lock while wal-g runs | `cleanup`, after every successful backup | the object of an active restore stays; a proven anchor stays; a recorded path means a stored object |
| Per-run lock (`common/backup-run-lock.service`, not in the repository) | PostgreSQL advisory lock of the transaction | `withBackupRunLock`, bounded by a lock timeout | restore and retention exclude each other per run |
| Piped pair (`backup/walg-wrapper.service.ts`) | two child processes, the pipe, six flags | `runPipedPair` under `backupPush` and `restoreFromObject`; `probeLogicalObject`, `deleteLogicalObject` | a truncated transfer is never a success; nothing runs on after the result; a failed pair ends |
| Backup execution (`backup/backup.service.ts`) | rows of `backup_runs`, cron jobs in memory | `onModuleInit`, `registerCron`, `executeJob` | a path is recorded only after a whole upload; a run that failed is never catalogued |
| Jobs, schedule policy, nightly bootstrap (`jobs/`, `backup/nightly-backup-bootstrap.service.ts`) | rows of `backup_jobs`, `backup_targets` | `create`, `update`, `remove`, `ensureDefaultNightlyJob` | fewer than three full backups only with an approval, and audited |
| Schema readiness (`schema/schema-readiness.service.ts`, migrations) | the two unique indexes, `ready` in memory | `apply`, `verifyRestoreSerialization`, `assertRestoreSerializationReady` | ready only if the indexes enforce |
| Audit (`audit/`) | rows of `audit_events` | `record` | inside the caller's transaction when it passes its manager |
| Notifications, logger | none | `send`, `operation` | never fail the caller |
| Boot (`main.ts`, the modules' `onModuleInit`) | none but how far it has come | `bootstrap` | a process gets to serve, degraded or not, unless a fault or the strict flag ends its boot |
| Targets, destinations | their rows | create, read, update, delete or disable | - |
| Authentication (`auth/`) | cached JWKS keys | `refreshJwks`, `publicKeyFor`, guard | one refresh at a time; a rotated key is found |
| Admin page of jobs (`web/admin/app.js`) | `store`, the rendered table, loads under way | `loadPage`, the buttons of a row, the form | an open page comes to show the rows as they are |
| Dashboard, discovery, health, info, other admin pages | none that a decision depends on | read-only projections | - |

### How they interact

`BackupService.executeJob` calls `WalgWrapperService.backupPush` and then
`RetentionService.cleanup`. `RestoreService.create` asks `SchemaReadinessService`,
inserts under the run's lock and dispatches `executeRestore` without awaiting it.
The reconciler calls `resumeExecution` and `terminateStaleRequest`. Restore and
retention never call each other: they meet in the rows, the run's lock and the
object store. `main.ts` runs `SchemaReadinessService.apply` before it listens;
listening runs `onModuleInit`, where `BackupService` has the nightly bootstrap take
over its row of `backup_jobs` and then registers one cron per enabled job. The jobs
API and the bootstrap write the same rows. Every guarded request first passes
`jwt-verifier.ts`, which may wait for the keys of the auth service. The admin page is
a client of these APIs that reloads what it shows on a timer.
The deployment has one replica and surges a second one in a rollout
(`k8s/deployment.yaml:17-18`), so for a while two processes run all of this on
one database, each with its own `inFlight` set and crons.

### What is hard about it

* Every `await` is a point where other calls, executions, sweeps, cleanups and
  the other process interleave; only the lock, the conditional `UPDATE` and the
  two unique indexes are atomic.
* Two effects cannot be rolled back with a transaction: the commit of
  `pg_restore` and the removal by `wal-g st rm`. A crash next to either leaves the
  rows behind the facts.
* In-memory state (`inFlight`, dispatched executions, crons, readiness) dies with
  the process and is invisible to the other one.
* Locks are waited for a bounded time, so every locked step may also time out.
* TypeORM's `save` is a read, a comparison and an `UPDATE` of the columns that differ,
  in three turns: two edits of one row that overlap store columns of both.
* Decisions outlive what they were taken on: a cron the row it was registered from, an
  execution the job it read, an approval the count it was given for, a process the
  index it observed, a cache the keys it fetched, a page the rows it rendered.

The hazards of `PROJECT.json` list these at their lines, each with the properties
that would catch it going wrong.

## 2. Modules

| Module | Models | State and actions |
| --- | --- | --- |
| `BackupCatalog` | what is shared: rows, objects, locks, processes | `status`, `dto` (a row of `restore_requests`), `verification`, `path` (a row of `backup_runs`), `object`, `lock`, `up`, `crashes` |
| `RestoreService` | `RestoreService` | call `c` of `create` goes through `create`, `PinChecks`, `PinInserts` or `PinRollsBack`, `ResolveCollision`; the execution of `r` in process `p` through `LoadForExecution`, `claimForExecution`, `PgRestoreCommits`, `recordSuccess` or `recordFailure` |
| `RestoreReconciliation` | the reconciler next to it, crashes, restarts, time | `StartSweep`, `SkipItem`, `RedispatchItem`, `BeginTermination`, `Terminate`; `Elapse`; `Crash`, `Restart` |
| `RestoreLife` | what clients are promised of a request: one slot per target, one beginning, one effect, a final outcome | `Accept`, `Begin`, `TakeEffect`, `Complete`, `Fail` |
| `Retention` | `RetentionService.cleanup` | `StartCleanup`, `ProbeAnchor`, `LockCandidate`, `RemoveObject`, `ClearPath` and their failures |
| `BackupSystem` | restore, reconciliation and retention over one catalog | their steps, and a crash that takes all of them |
| `PinnedStore` | what restores and retention promise each other about dumps: one that is pinned stays, one that is gone stays gone, a run leaves the list after its dump | `Pin`, `Release`, `Remove`, `Unlist` |
| `PipedPair` | `runPipedPair`, its children and its pipe | the callbacks `PipelineCallback`, `ErrorEvent`, `CloseEvent`, the timer `Escalate`, and what children and pipe may do |
| `RestorePair` | the contract of `restoreFromObject` | `Commits`, `Succeeds`, `Fails`, the stages of `RestoreService` |
| `Deployment` | the processes, their flags and the phases of their boot | `phase`, `exit`, `env`; `CreateApp`, `BootGoesTo`, `ProcessEnds` |
| `SchedulePolicy` | `resolveSchedulePolicy`, and the meaning of a policy and of a cron | operators only |
| `JobsService` | `JobsService` and the row of the nightly bootstrap | `job`, `call`, `trail`; `create`, `update`, `remove`, `ensureJob`, then `SaveReads`, `SaveWrites`, `RecordRetention` |
| `BackupService` | `executeJob` and the crons of a process | `run`, `dump`, `exec`, `triggered`, `applied`, `cron`; `executeJob`, `RecordTrigger`, `BuildEnv`, `UploadWrites`, `UploadSucceeds`, `UploadFails`, `DiscardPartialObject`, `SaveOutcome`, `TouchJob`, `ApplyRetention`, and their failures |
| `BackupRunLife` | what the catalog promises about a run: sealed only while its dump is whole | `Open`, `Store`, `Discard`, `Seal`, `Fail` |
| `SchemaReadiness` | the indexes that serialize restores, and what each process knows of them | `index`, `keyIndex`, `active`, `ready`; `align`, `verifyRestoreSerialization`, `AcceptRestore`, `LegacyRestore` |
| `JwksCache` | `jwt-verifier.ts` | `cache`, `age`, `fetch`, `check`; `verifyAuthToken`, `Resume`, `FetchDone`, `FetchFails` |
| `ControlPlane` | the five modules above in processes that boot, serve and die | `Boots`, `BootStep`, `Crashes`, `RequestEdit`, `Saves`, `CronFires`, `TriggerManual`, `Executes`, ... and the budgets `left` |
| `AdminPage` | the jobs page in front of `ControlPlane` | `reload`, `table`; `loadPage`, `JobsRead`, `ReadRefused`, `ReadFails`, `Render`, `ToggleJob`, `createJob`, `RunJob` |
| `MCRestore`, `MCSystem`, `MCControl` | the instances for TLC | |
| `ControlMoves` | lemmas: what a step of `ControlPlane` is to each of its components | |
| `RestoreProofs`, `SystemProofs`, `PipedPairProofs`, `ReadinessProofs`, `JobsProofs`, `BackupProofs`, `AdminProofs` | theorems | |

`BackupSystem` and `ControlPlane` meet in the contract between them: a path in the
catalog names a whole object. `ControlPlane` establishes it (`CataloguedIsWhole`), and
`BackupSystem` starts from a catalog in which it holds. `PipedPair` stands in the same
way behind `PgRestoreCommits` of `RestoreService` and `PairSucceeded` of
`BackupService`, and `SchemaReadiness` behind the flag `indexed` of `RestoreService`.

Row `r` of `restore_requests` is the row that call `r` of `create` would insert, so
`Requests` names calls and rows at once. Steps that the code makes between two
awaits, and a transaction that holds the run's lock and only talks to the
database, are one action. Three transactions are cut where something else can be
seen or can happen in between:

* `createPin`, between its checks and its insert: the checks read other runs'
  requests, which the lock does not protect, so only the indexes do;
* the removal of `Retention`, at each side of `wal-g st rm`, which runs inside the
  transaction and is not undone by its rollback;
* `terminateStaleRequest`, between the status it reads unlocked and its
  transaction.

Abstractions, each of which only adds behaviours or merges indistinguishable ones:

* A clock is replaced by three ages of a row (`young`, `due`, `old`), delimited by
  the adopt and the abandon or stale thresholds. `Elapse` may happen at any time.
* Validation before an execution may fail at any time, because a target can be
  edited; a lock wait may time out whenever the lock is held; a claim or a terminal
  write may fail at any time.
* The commit of a pending row and the dispatch that follows it are one step: a
  crash in between is a crash right after. An acknowledgement lost after a commit
  is likewise a crash after it.
* `indexed` says that both unique indexes are installed. It is chosen at boot,
  because nothing drops them and `apply` is over before the service listens.
* Approval fields, texts, logs and notifications are left out: submissions are
  ones whose approval fields are valid.
* Runs are the successful ones, catalogued by backups that stored their object.

Of `ControlPlane` and `AdminPage`:

* A body of the jobs API, a row, an approval and a cron expression are records of the
  fields the code looks at; a field left out is `None`, and one that is null is `Null`, which
  clears a field of the schedule and leaves the count, the switch and the approval alone (or
  makes the save fail, where the column does not take it). An approval is there or
  not (a reason has its twelve characters). A cron has five fields, each a number or
  the wildcard; lists, ranges and steps are left out. What a cron means, and which
  expressions its library refuses, is external.
* `findOne` at the start of `update`, its checks and the entity it makes are one
  step, and so are reading the job and the first save in `executeJob`: nothing is
  visible between them that is not visible after. The halves of `save`, and the audit
  event after it, are steps of their own.
* `last_run_at`, `storage_prefix`, names and times are no columns of the model:
  no modelled decision reads them. `ensureTarget` writes a row no modelled decision reads.
  Legacy rows that share an idempotency key, which would fail the creation of that index
  at boot, are left out.
* A database that does not have the nightly row is booted by one process, as
  a first deployment is.
* Tokens are well formed, signed by a key auth publishes, and carry a sufficient role.
  Time is the age of a cache: fresh (five seconds), warm, stale.
* The five requests of one load of the page are one read of the jobs, answered by any
  process that serves; a load that an error ends shows empty tables. The redirect to the
  login page is left out.
* Ids of calls, runs, tokens and loads are taken in a fixed order (`NewCall`, `NewRun`,
  `NewToken`, `NewReload`): they are interchangeable, and nothing depends on which is
  taken.

Some variables are histories, read by properties only: `torn` (jobs whose row one save
overwrote in part), `raised` (jobs whose approval outlived the bootstrap), `edited` (jobs
that a request stored while a boot was between the read of the nightly row and
`findEnabled`), `cut` (runs whose removal was cut off between wal-g and the commit),
`spoiled` (runs that a crash, an error or an unconfirmed removal hit), the stage `unrecorded`
(requests that failed or died over their audit event) and the `excuse` of a refused token.
They are how the properties say what the code does not promise: two overlapping saves of a
row can store a low count from one and cleared approval fields from the other, although
each request was checked. `LowCountApproved`, `ApprovalEndsWithLowCount` and
`CronFollowsPolicy` hold for every other row, and `LowCountAudited` for all rows.

Definitions marked `MUTANT` are plausible mistakes in the code. They are in no
behaviour of the specifications; each of them, put in the place of the definition
it follows, makes a property fail.

## 3. Runs

All configurations switch deadlock checking off: the system stops when every call
has been answered and every request resolved, or the budgets of `ControlPlane` are spent.

| Run | Instance | Shows |
| --- | --- | --- |
| `restore_api` | 1 process, 3 calls out of 4 submissions (a key reused by another actor, a key reused for another run, no key), with and without indexes | `OneActivePerTarget`, `AnswersMatch`, `OneRowPerKey` |
| `restore_rollout` | 2 processes, 2 calls for one target, a sweep, a crash | `ExecutedAtMostOnce`, `AuditedOnce`, `VerifyingIffRunning`, `SuccessWasCommitted`, `TerminalIsFinal`, `ImplementsRequestLife` |
| `restore_resolved` | 1 process, 2 calls, a sweep, a crash, with fairness | `RecoverySparesLive`, `OneLiveRestorePerTarget`, `EveryRequestResolved`, `EveryCallAnswered` |
| `system_retention` | 1 process, 3 runs of a job that retains 1, 2 calls, a sweep, a cleanup, a crash, a failure | `SystemTypeOK`, `PinHonoured`, `AnchorRemains`, `DanglingOnlyByFault`, `ImplementsPinnedStore` (315,276 distinct states) |
| `pair` | one pair, children that may be impossible to spawn | `TypeOK`, `SuccessIsWhole`, `NoChildOutlivesResult`, `ImplementsRestorePair`, `FailureResolves` |

`control_plane` (module `MCControl`) checks seventeen properties of `ControlPlane` and
`AdminPage` over 2 processes, 2 jobs (one of them the nightly one), 2 calls, 2 runs, 3
keys, 3 tokens and 2 loads of the page. What may happen in a behaviour is
chosen by its initial state: a *load* gives the rows and the flags it starts with
and a budget `left` for each kind of event (boots, edits, backups, restores,
tokens, rotations, faults, crashes). Components of which nothing can happen in a load stay
still, so each load is an instance for one question:

| Loads | Start and events | Question |
| --- | --- | --- |
| `Editing` | no row, a safe row or a low one; 2 overlapping edits, 1 failing statement | `LowCountApproved`, `ApprovalEndsWithLowCount`, `CronFollowsPolicy`, `LowCountAudited` |
| `Bootstrapping` | the nightly row absent or low; restarts, a crash, a fault, an edit, and a rollout, over a low or a disabled row, in which the old process serves that edit | the same, and `NightlyIsScheduled` |
| `BackingUp` | a safe or low row; a backup next to an edit, or two with a crash and a fault, or two in a rollout | `CataloguedIsWhole`, `ManualUploadAudited`, `OrphanOnlyByFault`, `ImplementsRunLife`, `EveryRunSettles` |
| `RollingOut` | 0 or 2 active restores of one target, each setting of the apply and strict flags; three boots, two restores of either release, a crash, a fault; and a stored cron that does not parse | `ReadySerializes`, `EveryBootServes` |
| `Verifying` | three tokens and two rotations; or a crash in between | `RotationIsFound`, `EveryTokenDecided` |
| `Watching` | the page open; a button or the form next to a failing statement, a backup by its button, a process that crashes and restarts | `PageCatchesUp`, `PageTypeOK`, and the rest with the page's requests |

All properties are checked over all loads (98,367 distinct states, under three minutes); the
table names those a load is there for. The bodies of requests are twelve: a low count with
and without approval, a safe count, a count that is null, a later hour, a weekly policy,
a schedule of nulls, a cron alone, a malformed cron, the form, and the two settings of the
switch. `ToggleJob` and
`createJob` send only what the page can send.

Why these bounds: two rows for one target, two dispatches of one row and two
processes are what each race of the restore path needs, and the third call adds a
replay that meets both a row and a collision. Three runs with one retained are the
least for which a cleanup has an anchor, a candidate and a newer run, and lets the
anchor change. One crash reaches every crash between two steps; a sweep that ended
may start again, so one slot still sweeps any number of times. `Elapse` and `Restart`
are unbounded. `MaxCrashes` and `MaxFailures` are the only counters with a bound there.

For `control_plane`: a torn row, a second bootstrap and a stale cron need two writers of
one row, which two calls, or a call and a bootstrap, are. An execution shares
no state with another one but the rows of jobs, so one run and one edit show what an edit
can do to it, and two runs in two processes what a rollout can. A token meets at
most the fetch of another token and a rotation; the third one meets the cache they leave. The
index is either there, or kept away by two active rows of one target; a third request is
what must be refused, or stay unserialized. Two loads of the page are what can overtake
each other. The budgets `left`, `MaxMisses` and the numbers of calls, runs, tokens and loads
are the bounds; ages, answers of auth, restores that end and reloads are unbounded.

Six runs end with a counterexample. Each states what a comment of the code or a document
beside it says and the code does not keep:

| Run | Says | Behaviour found |
| --- | --- | --- |
| `find_rollout` | "recovery never terminates a live restore" (`restore.service.ts:74-77`) | the other process of a rollout does not have the request in its `inFlight` set and fails it past the stale window. The target's slot is then free, and a second restore may run next to the first, indexes or not |
| `find_interrupted` | "an interrupted restore has already rolled back" (`restore.service.ts:587-588`) | the process dies after `pg_restore` committed |
| `find_abandoned` | "Restore approval expired before execution started." (`restore-reconciliation.service.ts:119`) | `persistTerminalState` does not compare the status that `terminateStaleRequest` expected, so a request claimed in between is failed while it runs |
| `find_dangling` | "a restore either sees the pin honoured or sees no path at all" (`retention.service.ts:111-112`) | the process dies between `wal-g st rm` and the commit; a later restore is accepted over a missing object |
| `find_disabled` | "Schedule disabled." (`web/admin/app.js:859`) | a process registers its crons once, at boot, and `executeJob` does not look at `enabled`: the cron fires, and a backup and its cleanup run, for a job that was disabled |
| `find_anchors` | "deletion is only ever safe while a backup that is known to still be in object storage remains" (`retention.service.ts:81-82`) | two overlapping cleanups of a job remove each other's anchors |

Further behaviours of the model follow the code where the repository's documents ask for
more. No run has them as a property; the properties that come closest except them, and say so:

* "Backup deletion, restore, or retention weakening leaves no audit trail." is a violation by
  BAK-INV-006 (`docs/process/PROJECT_INVARIANTS.md:37`). An event that fails after `save`
  leaves the weaker count (`jobs.service.ts:144`; `unrecorded` in `LowCountAudited`). An edit
  that read 7 writes it back over an audited 30, and records nothing, because 7 is what it had
  read (`jobs.service.ts:106`, `:129`, `:143`). The bootstrap sets the nightly count to
  max(config, 7), so an owner's 30 becomes 7 at a boot
  (`nightly-backup-bootstrap.service.ts:122`). `LowCountAudited` is about counts below three,
  which neither of the last two stores anew.
* "A job or policy silently allows fewer than three full backups." is a violation by
  BAK-INV-005 (line 36 there). Of two overlapping edits of a low row one lowers the count under
  the stored approval and the other clears that approval (`torn`); and a cleanup applies the
  count its execution read before the upload, raised or not (`backup.service.ts:162`).
* "invalid cron expressions are rejected"
  (`implementation-goals/GOAL-10-configurable-schedules.md:19`). `CRON_PART` admits 99
  (`schedule-policy.ts:18`): the row is stored, and the next boot ends with the exit `cron`
  that `EveryBootServes` excepts.

`RecoverySparesLive`, `OneLiveRestorePerTarget` and `AnchorRemains` do hold with one
process, respectively one cleanup at a time, which is what the passing runs show.
Section 4 proves under which wider conditions they and the claims of `find_abandoned`
and `find_dangling` hold. `system_retention` checks the types of `RestoreReconciliation`
(`TypeOK`) as a part of `SystemTypeOK`.

### Fairness

`restore_resolved` assumes that Node runs every callback that stays enabled (weak
fairness of calls, executions and sweeps), that Kubernetes restarts a dead process,
that time passes, and that wal-g and `pg_restore` return. The code has no timeout
around them, so a child that hangs for ever is outside this assumption; `pair`
shows what the code itself guarantees, that a pair of which one part failed ends.
A terminal write may fail, but not every time it is tried for a request: strong
fairness of `Terminate` for each request. Without it no property of recovery could
hold, since an error there ends the sweep (`restore-reconciliation.service.ts:60-71`).

`control_plane` assumes weak fairness of each step of a boot, of each step of a call, of an
execution and of a waiting token, of the end of a fetch, and, for the page, of
its timer and of the answer or the refusal of a request. These are callbacks of
Node and of a browser, statements that PostgreSQL answers, children that return, and the
three-second timeout of the fetch (`jwt-verifier.ts:51`). Nothing is assumed of auth,
which need never answer, of boots, clients, faults and crashes. `EveryRunSettles`
excuses runs that a crash or an error hit, because nothing takes up an execution again.
`PageCatchesUp` is about the end of a behaviour: once the events of a load are over and calls and
bootstraps have ended, an open page shows the stored rows, or empty tables when no process serves.

`pair` assumes fairness of the callbacks and timers, that a child killed with
SIGKILL dies and that a pipe closes once its reader is gone. A child that was not
signalled may hang, and one that got SIGTERM may ignore it.

## 4. Proofs

`RestoreProofs` proves, for every number of processes, calls, sweeps, runs, jobs,
targets and crashes, from `CatalogAssumption` and, for what recovery does, from
`ErrorAssumption` (null is no reason of a failure):

* `TypeCorrect`: `Spec => []TypeOK`.
* `RowInvariant`, about what a row says: it is there iff its call was accepted, calls pass the
  gate only over the unique indexes, and executions and sweeps work on rows that are there.
  On it rest the properties of rows: `OneActiveRestore` and `KeysUnique` (an insert meets both
  indexes), `AuditComplete`, `OutcomesFinal` (an action property),
  `VerifyingFollowsRestores` (which also needs `OneActivePerTarget`: no second restore of a
  run is active when one turns its mark to `verified`) and `SuccessIsReal`.
* `OnceInvariant`, about executions: a row that is absent or pending was never claimed, and
  `executing` is a stage of at most one process, so that
  `NeverExecutedTwice` follows: a second dispatch meets a row that is no longer
  pending.
* `AnswersAreForTheSubmission`: `AnswersMatch` is inductive next to `RowInv`. An answer is
  given by the insert of the call's own row or by a comparison with a stored one, rows stay,
  and submissions never change.
* `RequestsLiveAsPromised`: the refinement `Spec => ImplementsRequestLife`. An insert is
  `Accept`, a claim `Begin`, the commit of `pg_restore` `TakeEffect`, a settling write
  `Complete` or `Fail`; every other step is a stutter.

The steps of the whole system are first sorted by what they do to the rows
(`StepKind`: nothing, insert, claim, commit of `pg_restore`, settle), so each
invariant is checked against five kinds of steps instead of twenty actions.

What recovery leaves alone depends on who else is there: `find_rollout` and
`find_abandoned` are counterexamples. The theorems name the condition as a property of a
behaviour. `SweptAlone` says that a request on the list of a sweep is on the list of no other
sweep and in flight in no process but the sweep's own. Under `[]SweptAlone`,
`RecoverySpares` gives `RecoverySparesLive`, `AbandonedWereIdle` the claim of
`find_abandoned`, and `TargetsRestoredAlone` gives `OneLiveRestorePerTarget`; a rollout is
within the condition as long as the two processes do not meet over one request. The inductive
invariant `RecoveryInv` says that a termination under way is one of a request whose status is
still what the sweep compared and which no process has in flight: a claim
in between would need an execution, which only the sweep itself, busy with its
termination, could have dispatched. `SingleSweeperIsAlone` shows the condition to be met in every
behaviour of one process whose sweeps do not overlap.

`SystemProofs` composes this with retention, for any number of overlapping cleanups, from
the further `RetentionAssumption` (finitely many runs, no two of which started together, counts
above zero).

* `CleanupKinds` sorts the steps of a cleanup into five (starts, moves on, takes a lock,
  removes, lets go), and `SystemSteps` those of the composition into a step of
  `RestoreReconciliation`, with the cleanups still or dying with their process, or a step of
  one cleanup. That `NewestVerified` is an anchor, which `CHOOSE` alone does not say, is proved
  from a smallest set without a newest run (`LargestValue`, `NewestExists`): an argument by
  minimal counterexample, because the induction theorems of the library cannot be used here.
  `SystemTypeCorrect` is the type invariant.
* `PromisesKeptBesideRetention`, `OutcomesFinalBesideRetention`,
  `RecoverySparesBesideRetention`, `RequestsLiveBesideRetention`: the theorems above hold of
  `SystemSpec`, since a cleanup changes no row, call, execution or sweep.
  `OneReplicaSparesLive`: with one process whose sweeps do not overlap, recovery spares live
  restores in every behaviour.
* `HolderInv`, about the run's lock: a call between its checks and its insert, and a cleanup
  between its recheck and its end, hold it in their own process's name, and no
  two of them for one run. A crash frees it together with all who held it in that process. With it
  `SparesInv`, a run whose removal is under way is referred to by no active request, is inductive:
  only `PinInserts` makes a request active, and it holds the lock the cleanup would need.
  `PinAlwaysHonoured` (`PinHonoured`, an action property) follows.
* `DanglingInv`, run by run: a path without an object is that of a run between the two halves
  of its removal, or of one whose removal was cut off there by a crash, a failed update or a
  failed commit (`cut`). With `HolderInv` it gives `OnlyFaultsDangle`
  (`DanglingOnlyByFault`): no fault elsewhere leaves such a path. With the recheck of
  `PinChecks` it gives `PinnedInv` and `PinnedDumpIsThere`: every active restore has its dump,
  or the removal of that very run was cut off, which is what `find_dangling` shows.
* `ListedInv`: a call about to insert found its run listed and its lock keeps it listed, and a
  removal about to clear the path has its dump gone. With `SparesInv` it gives the refinement
  `StoreIsAsPromised` (`SystemSpec => ImplementsPinnedStore`): the insert is `Pin`, a settling
  write `Release`, the two halves of a removal `Remove` and `Unlist`, and all else, crashes
  and failures included, is a stutter.
* `AnchorInv`: a busy cleanup's anchor is not on its list, all of the list is of the anchor's job,
  and past the probe the anchor's object is there. It is inductive in behaviours in which two
  busy cleanups are of different jobs (`CleanupsApart`), hence
  `AnchorOutlivesCleanup` (`SystemSpec /\ []CleanupsApart => []AnchorRemains`), and
  `OneCleanupKeepsItsAnchor` for one cleanup at a time. `find_anchors` shows that the condition
  is needed: a manual and a scheduled backup of one job, or the crons of two
  processes in a rollout, end in cleanups that are not apart.

`PipedPairProofs` proves that a pair is well typed, `SuccessIsWhole`,
`NoChildOutlivesResult` and the refinement `ImplementsRestorePair`. The inductive
invariant says that what a callback recorded is true of the child or the stream
(`DoneIsGone`, `StreamObserved`), that an exit with 0 follows the effect, and that a
result was computed after all three callbacks.

Of `ControlPlane`, theorems hold for every set of processes, jobs, calls, bodies, runs,
targets, keys and tokens, and for every set of loads, so for any rows to start with
and for budgets of any size. They assume what the modules name as assumptions: `Star` is no
number, moments are numbers, the row and the settings of the nightly bootstrap are
well formed, seven is a possible count, a call is not a process, bodies are what
validation lets through, some key exists, and the rows a load starts with are legal
(`LoadsAssumption`). `ControlMoves` first says of each component what
steps of the whole system do to it: one of its own actions, or nothing. Each invariant is then
proved against the actions of one component.

* `ReadinessProofs`. `SchemaInv`: an installed index enforces, on the rows of every
  release, and a process believes only in indexes that are there; `ReadinessIsProof`
  follows. It rests on the `ALTER TABLE` lock, which keeps the test for duplicates true until
  the index is there. `KeyInv`: a token that goes on after its second fetch
  without an error finds the cache still fresh, so `RotationNeedsNoRedeploy`: a refusal has
  an excuse. `BootTypeCorrect`.
* `JobsProofs`. `JobsInv` ties rows to calls in flight: a row is legal, up to what
  `torn` and `raised` excuse; an entity that waits to be saved is legal by itself, so
  that a save which finds the row as it read it leaves a legal row; and a low count that a
  call may store is one it will record, or one whose event is already owed (`CountOwed`), so
  that torn and stale saves, which `torn` would excuse, keep `LowCountAudited` too. `EditedIsLegal` and `ResolvedAgrees` are about the pure part:
  whatever row a body is laid over, the checks that pass make the result approved and its
  cron agree with its policy. From it `LowCountIsApproved`, `ApprovalEnds`, `CronIsThePolicy`,
  `LowCountsAreAudited`, `JobsTypeCorrect`.
* `BackupProofs`. `BackupInv` says, for each step of an execution, what it has done to the row and
  the object by then (`StepAgrees`), what a row says with or without an execution
  (`RowAgrees`), and that the job an execution holds is a row (`JobAgrees`). From it
  `CatalogIsWhole`, `ManualIsAudited`, `OrphansAreFaults`, and the refinement
  `RunsLiveAsPromised`: executions, with all their failures, implement `BackupRunLife`.
  `NightlyInv` follows a boot from the read of the nightly row: what its save will not write
  is already as the bootstrap wants it, what it has written stays until `findEnabled`, unless
  a request stored that row (`edited`), and other bootstraps write the same switch and cron
  (`EnsureWritesTargets`). It gives `NightlyRuns`, in any rollout. `ControlTypeCorrect` is the type invariant of the whole.
* `AdminProofs`. `PageIsAClient`: `AdminSpec => ControlSpec`. A step of the page leaves the
  service alone or is a request that `ControlNext` has, so every theorem above holds with the page
  in front of the service. `PageTypeCorrect`.

Only model-checked: what is about liveness (`EveryRequestResolved`,
`EveryCallAnswered`, `FailureResolves`, `EveryRunSettles`, `EveryBootServes`,
`EveryTokenDecided`, `PageCatchesUp`), which is beyond the prover. Every invariant, every action property and every refinement that a passing run checks is also a theorem, of
which `RecoverySparesLive`, `OneLiveRestorePerTarget` and `AnchorRemains` have the
conditions above.

## 5. Plan

Done: `RestoreService`, `RestoreReconciliation` against `RestoreLife`, `Retention` and
`BackupSystem` against `PinnedStore`; `PipedPair` against `RestorePair`; `SchedulePolicy`, `JobsService`,
`BackupService` against `BackupRunLife`, `SchemaReadiness`, `JwksCache` and their composition
in `ControlPlane`; `AdminPage`; and the proofs of section 4.

Next, in this order:

1. The links between the modules as theorems: that `RestorePair` is what `RestoreService` sees of
   an execution, and that the catalog `ControlPlane` leaves is one `BackupSystem` may start from.
2. The rows of targets, with the hard delete, under executions and `createTarget` of the page.

## 6. Not modelled

* Notifications swallow their errors and change nothing the service reads.
* Targets and destinations are rows with plain updates. What matters of a target here, that it
  was edited or removed, is a validation that fails (`LoadForExecution`, `RejectEnv`).
* Dashboard, discovery, health, info and the other admin pages only read and show. The restore
  form submits a request without a key, which `RestoreService` has.
* Role checks, signatures and database-name validation are pure functions of a request.
* Retention skips a run whose path is not its deterministic one, which the service itself
  never writes.
* Configuration, logging, the DDL of the migrations other than the serialization
  indexes, and scripts.
* Deployments with more than the two processes of a rollout are covered by the theorems, not by
  the runs.
