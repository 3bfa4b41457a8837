# Choysum: a verification project

TLA+ models, model-checking runs and machine-checked proofs for Choysum, an
application server that runs TypeScript modules on a Go host
(`src/cmd`, `src/internal`, `src/pkg`, `src/modules`).  The project covers the
parts of the host, of its modules and of its web client where several
goroutines, processes, calls or handlers act on shared state; the parts that
transform data or do I/O are listed and left out.

## 1. The system

### 1.1 Components

| Component (source) | State it keeps | Operations |
|---|---|---|
| Task job table (`modules/task/service/models/job.ts`, `internal/task/contract_store.go`) | one row per job: status, run_after, attempt, max_attempts, cancel_requested_at | EnqueueJob, CancelJob; ListReady, TryClaim, Get, UpdateAttempt, MarkSucceeded, MarkFailed, Retry, MarkCancelled |
| Task dispatcher (`internal/task/dispatcher.go`) | ready queue and its index, slots per application, semaphore, wake-up signal | pollOnce (list, enqueue, pop, reserve, claim, spawn), handleJob (get, token, attempt, ExecuteJob, mark), Start, Stop |
| Task worker (`internal/service/taskworker.go`, `taskworker_adapter.go`) | one execution row per job: status, lease owner, lease end; per request two goroutines, two channels, a context | ExecuteJob (tryStart, handleExisting, cancellation check, target, select, finalize), heartbeat, watchCancel |
| Task scheduler (`internal/task/scheduler.go`) | schedule rows (active, next_run_at), the rate-limit window | tick, processSchedule, TryAdvanceDue, MarkTriggered, Disable; the cron search |
| Task garbage collector (`internal/task/gc.go`) | none | purge of finished job and execution rows |
| State lease (`internal/state/lease/lease.go`) | `meta_lock_lease` rows: owner, expires_at | Acquire, Renew, Release |
| Provision lease, setup state (`internal/provision`) | the provision lease and its renewing goroutine; the setup marker | acquire with probe, renew, release |
| JavaScript executor (`internal/defaultjsexecutor`) | executor state, pool state, threads with task and action queues | Start, Stop, Reload, Execute; createThread, retire, replenish, cleanup |
| Event bus (`internal/bus/inprocess`), tip hub (`internal/tip/hub`) | handlers per topic; streams per user and a buffer per stream | Publish, Subscribe, Close; serve |
| Hot reload (`internal/server/server_hotreload*.go`) | watch queue, busy modules, dirty modules, fingerprints, retry counts | enqueueWatchEvent, handleQueuedWatchEvent, requeueDirtyWatchModules, lease-conflict retry |
| Runtime recovery, lifecycle (`internal/server`) | server run state, recovery counters | restart, clean-up of a failed start |
| Revocation (`internal/jwtauth/revocation`) | revoked tokens, in memory or in `auth_token` | RevokeToken, RevokeAllUserTokens, IsRevoked, CleanExpired |
| Transactions and scopes (`internal/defaultscope`) | the transaction bound to a scope | Required, RequiresNew |
| Module lifecycle (`internal/module`) | module tables, artifacts, migration plans | install, upgrade, uninstall |
| Attachments (`modules/document/service/models`, `internal/document/gateway`) | rows of upload sessions, stored contents, attachment contents, bindings and the mutation ledger; payloads in an external storage | PrepareUpload, AuthorizeUploadPut, CommitUploadPut, FinalizeUpload, Bind, Unbind, ResolveDownloadContent, the scheduled garbage collection |
| Number sequences (`modules/base/service/models/sequence*.ts`) | NextNumber per sequence, one record per idempotency key | Next, CleanupIdempotency |
| Web form session (`modules/web/web/controllers/formController.ts`, `composables/useFormView*.ts`) | the view model (mode, original, draft, loading), the load sequence, the dirty baseline, the hand-over cache | open, edit, copy, cancel, reset, refresh, save, delete, leave |
| Web auth session (`modules/auth/web/stores/auth`, `modules/core/web/rpc/interceptors/auth.ts`) | tokens, identity, profile, permission state, the refresh under way | login, logout, switch company, refresh, load profile and permissions, initialise, and the interceptor around every call |

The remaining components (engine bindings, transports, build tools,
configuration, internationalisation, storage drivers, caches, import and export,
the ORM, the other business modules and the views of the web client) keep no
concurrently changed state of their own or are pure transformation and I/O;
`PROJECT.json` lists each with the reason it is left out.

### 1.2 How they interact

Clients (and the scheduler) insert `queued` rows in `task_job`.  Any number of
dispatcher processes poll the table; each claims rows by a conditional UPDATE,
mints a job token and calls `ExecuteJob` of the target application over gRPC.
The application's worker records the execution in `task_job_execution` under a
lease, runs the target method and answers.  The dispatcher turns the answer
into a final update or a retry.  Cancellation travels through
`task_job.cancel_requested_at`, which the dispatcher reads when it starts a
dispatch and the worker polls while the target runs.  The garbage collector
removes finished rows of both tables.  A wake-up on the event bus shortens the
wait for the next poll.  Hot reload and module operations exclude one another
through the state lease `module_management`; a reload restarts the executor
pool that runs the target methods.

The web client talks to the services by RPC.  Every call passes the
interceptor, which renews the token pair through the auth store.  A form loads
and saves its record through a store; saving uploads its files with
PrepareUpload, a PUT to the gateway and FinalizeUpload, and the record's service
binds the contents.  On the server every RPC is one database transaction;
bindings, sequences and tokens are read and written in it, payloads are not.
The garbage collection of the document module is a scheduled job.

### 1.3 What is hard

* Several processes share the two task tables; the only mutual exclusion is a
  row count returned by an UPDATE.
* Inside a dispatcher the startup poll and the ticker loop share the ready
  queue, the slot counters and the semaphore, and both drop the lock between
  selecting, reserving, claiming and starting.
* A worker's lease may end while its target runs; the row is then taken over
  and both executions reach their final update.
* Every UPDATE, token request and RPC can fail after it took effect, most of
  the errors are dropped, and a process can die between any two of them.
* Timeouts race answers: a retry of a job may meet the execution that the
  earlier attempt left behind.
* A service call reads, decides and writes by row id in one transaction whose
  isolation is READ COMMITTED: what it decided on may have changed when it
  commits, and payloads in the storage do not roll back with it.
* In the browser one handler runs at a time, but at every await another may
  begin: answers to loads, saves, refreshes and defaults arrive after the user
  has gone on.
* One refresh of the tokens serves every call that finds them nearly over; it
  makes calls of its own, and a login or a logout does not stop it.

### 1.4 What makes each component correct

* Dispatcher: one goroutine at most answers for a job; attempts bound the calls
  made; the ready queue, its index and the application slots stay exact;
  outcomes stand; every job ends when nothing fails.
* Worker: at most one live owner of a row; executions overlap only after an
  expired lease; a success is never overwritten; answers tell what happened; a
  running row cannot stay running for ever.
* Scheduler: a firing is enqueued at most once by all schedulers together; the
  next firing is the least matching minute.
* State lease: two owners never hold one unexpired lease.
* Executor: Stop returns; no accepted task is silently lost; a thread is in the
  pool or stopped.
* Hot reload: the last change of a module is eventually upgraded; one upgrade
  per module at a time.
* Tip hub: the per-user limit holds; streams are counted exactly.
* Revocation: a revoked token never becomes valid again.
* Attachments: what a field shows can be downloaded; a repeated call is answered
  as the first was.
* Sequences: no number is issued twice; an idempotency key stands for one range.
* Form: what is shown is the page's record; typed edits are lost only when the
  user gives them up; the spinner ends.
* Auth session: tokens, identity, profile and permissions are of one user; the
  session is given up only with cause; every call ends.

## 2. Modules

| Module | Models | Extends |
|---|---|---|
| `JobLifecycle` | the abstract specification of a job: who may take it, call its worker and settle it | standard modules |
| `DispatchSelection` | the two list algorithms of the ready queue: `Admitted` (enqueueReady), `RoundRobin` (selectDispatchJobs) | community modules |
| `TaskDispatcher` | the dispatcher processes, the job table and its clients; instantiates `JobLifecycle` | `DispatchSelection` |
| `TaskDispatcherMC` | constants and symmetry for its runs | `TaskDispatcher` |
| `TaskDispatcherProofs` | theorems about `TaskDispatcher` and the lists of `DispatchSelection`, the refinement among them | `TaskDispatcher`, TLAPS |
| `TaskWorker` | ExecuteJob, its goroutines, the execution table, purges and crashes | standard modules |
| `TaskWorkerProofs` | theorems about `TaskWorker` | `TaskWorker`, TLAPS |
| `JsExecutor` | Start, Stop and Reload of the JavaScript executor racing over its state and its pool | standard modules |
| `JsExecutorProofs` | theorems about `JsExecutor` | `JsExecutor`, TLAPS |
| `JsPool` | the executor's thread pool: requests, threads, retirement, replenishment, reload, stop | standard modules |
| `JsPoolMC` | symmetry for its run | `JsPool` |
| `JsPoolProofs` | theorems about `JsPool` | `JsPool`, TLAPS |
| `Attachments` | uploads, contents, bindings, the mutation ledger and the garbage collection of the document module | standard modules |
| `AttachmentsMC` | symmetry for its runs | `Attachments` |
| `AttachmentsProofs` | theorems about `Attachments` | `Attachments`, TLAPS |
| `NumberAllocator` | the abstract specification of a sequence: numbers are issued or skipped, none twice | standard modules |
| `SequenceNext` | `Sequence.Next` and `CleanupIdempotency` in concurrent transactions; instantiates `NumberAllocator` | standard modules |
| `SequenceNextMC` | symmetry for its run | `SequenceNext` |
| `SequenceNextProofs` | theorems about `SequenceNext`, the refinement among them | `SequenceNext`, TLAPS |
| `FormSession` | a form page: controller, handlers, dialogs, load, save, delete | standard modules |
| `FormSessionProofs` | theorems about `FormSession` | `FormSession`, TLAPS |
| `AuthSession` | the auth store, the interceptor, the shared refresh and the server's token pairs | standard modules |
| `AuthSessionProofs` | theorems about `AuthSession` | `AuthSession`, TLAPS |

The runs of `TaskWorker`, `JsExecutor`, `FormSession` and `AuthSession` need
model values only and name these modules themselves.

### 2.1 TaskDispatcher

A dispatcher `d` has pollers (`"loop"`, and `"startup"` for the single poll
`Start` makes in its own goroutine) and one worker slot per semaphore token.

* `poller[d][k].pc` follows `pollOnce` and `claimAndRunReady`: `PollBegin`
  (count free tokens), `PollList` / `PollListFails`, `PollEnqueue`
  (`enqueueReady` under its mutex), `PollPop` (`popReadyForDispatch`),
  `PollReserve` (`reserveAppSlot`), `PollClaim` / `PollClaimFails`
  (`TryClaim`, and `releaseAppSlot` when it misses), `PollSpawn` (take a token,
  start the goroutine), `PollReturn`.
* `worker[d][t].pc` follows `handleJob`: `HandleGet` (cancel and attempt
  checks), `HandleToken`, `HandleAttempt`, `HandleCall` (the RPC is sent),
  `HandleAnswer` (the answer, and one token refresh after an authentication
  error: `RefreshStage`), `HandleMark` / `HandleMarkFails` (the final update),
  `HandleRelease` (slot and token given back).
* Clients: `EnqueueJob`; `CancelRead` and `CancelWrite`, because `CancelJob`
  reads the status and updates by id later.
* `Stop` closes `stopCh` and leaves goroutines running; `Crash` empties a
  process and starts it again.
* `Fail` is a store or token call that reports an error; where the statement
  may have taken effect although it did (`PollClaimFails`, attempts, final
  updates) both cases are allowed.
* The lists of the ready queue are in `DispatchSelection`: `Admitted` filters a
  listing and cuts it to the room left, `RoundRobin` takes the applications in
  turn.  `Arranged` and `Kept` say sorting and filtering by counting, because
  nothing can be proved about `SortSeq` and `SelectSeq`.
* `run_after` is a countdown lowered by `Tick`.  `calls` and `stranded` are
  history variables: how often a worker was called, and which jobs lost their
  goroutine to a crash or a failed statement.

The answer of `ExecuteJob` is chosen nondeterministically from `Answers`, all
ten of which `extractGrpcCode` and `normalizeExecuteJobStatus` distinguish.

`JobLifecycle` is what all of this promises of one job: it is submitted, taken by
one holder, given attempts within its budget, called only by its holder and only
for a recorded attempt, and settled by it; the holder may also drop it, a claim
may be lost, and a client that saw the job queued may withdraw it.  `Lifecycle`
maps the rows to its status and attempts and the goroutines that answer for a
row (`Holds`) to its holders; polls, queues, slots, tokens, refreshes and time
are stutters.

### 2.2 TaskWorker

An invocation is one `ExecuteJob` request; its fresh lease owner is the
invocation itself.  `call[i].pc` follows `unaryHandler`; `exec[j]` is the
execution row.  A lease is the time left (`LeaseTicks` after a renewal, 0 when
expired, -1 for NULL).

* `Receive`; `TryStart` / `TryStartFails` (insert, key conflict, other error);
  `HandleExisting` (read), `Takeover` / `TakeoverMisses` (conditional UPDATE
  and the recursion after it matched no row) and `HandleExistingFails`.  An
  insert, a takeover or a renewal that reports an error may have taken effect
  (`TakeRow`, `Renew`); `CheckCancel`; `TargetReturns`;
  `Select` (Go's select over lease lost, cancelled, done); `Finalize`
  (`UPDATE ... WHERE job_id AND lease_owner`, its error dropped, then the
  answer).
* `Heartbeat` (the UPDATE), `HeartbeatAsks` (the RPC after it, which asks for a
  cancellation), `HeartbeatLoses`, `HeartbeatStops`, `WatchCancel`, `WatchStops`
  are the two goroutines.  They may still act after the handler returned.
  `cancelReq` is what the RPC's answer is read as: a job with
  cancel_requested_at set, or with status 'cancelled'.
* `CallerGone`, `RequestCancel`, `Tick`, `Crash`, `Purge` are the surroundings.
* `overruns` and `completed` are history variables: takeovers of expired
  running rows, and jobs whose target did return.
* `DuplicateDetected` says whether `errorsIsDuplicate` recognises the driver's
  key conflict: it does for PostgreSQL and MySQL messages and not for SQLite's.

### 2.3 JsExecutor

`caller[c]` is the call a goroutine is in.  `Start`, `Stop` and `Reload` are the
locked sections these methods begin with; `Warmup`, `ReloadPool` /
`ReloadThreads` and `StopPool` / `StopThreads` are the slow pool operations made
with `controlMu` released; `StartEnd`, `ReloadEnd` and `StopEnd` are the locked
sections after them.  `Await` is a Stop that waits on `stopDone`, whose channels
are numbered.  `abandoned` is a history variable: the channels that were open
when a Start failed, which `StartEnd` leaves behind.  Which threads the pool
has is left to `JsPool`: a running pool may be empty for a while, and a thread
may be stored after a stop.

### 2.4 JsPool

The pool after `start`, as `JsExecutor` lets it be used: one goroutine at a time
reloads or stops it.  `stored`, `listed` and `count` are the three lock-free
structures a thread is in (`p.threads`, `p.threadIds`, `p.threadCount`, a uint32
that wraps at `CountWidth`).  `detachThread` takes a thread out of them one after
the other: `Unmap`, by whoever detaches it, then `Unlist` and `Uncount`, between
which everybody else may act.

* A request goes `Execute`, `Select` (`getOrCreateThread`), then `Create...` and
  `SelectAgain` when it makes a thread, `Enqueue`, `Send` (blocks on a full
  queue, is refused by a closed one), `Receive` (result or deadline).
* `Create` is `createThread`: `CreateCount` (refuse in a pool that stops, raise
  the counter, compare), `CreateStore`, `CreateList`, or `CreateFails`.  Requests
  and the cleanup goroutine interleave in it.
* A thread runs `ThreadInit` (loads the scripts published at that moment),
  `ThreadTake`, `ThreadFinish`, `ThreadCheck` (detaches itself after
  `MaxExecutions` tasks), `ThreadAsk` (asks for a replacement once it is
  detached), `ThreadStop`, `ThreadReload`.
* `Watch`, `CleanupDetach`, `CleanupEnd` and `Replenish` are the cleanup goroutine;
  `SendStop` is one of the goroutines that put a stop or retire action into a
  thread's inbox.
* `Reload...` and `Stop...` are the two control operations, thread by thread:
  `StopList` takes the threads of the map, `StopDetach` detaches them,
  `StopThreads` has them stopped and `StopJoin` waits for them and for the cleanup
  goroutine.

Left out: the warm-up (in `JsExecutor`), the ages that decide which thread is
idle (any may be, when `IdleExpires`), the exact turn of the round robin (any
listed thread), and forced termination of a script.

### 2.5 Attachments

`session`, `payload`, `content`, `binding` and `ledger` are the five collections
(`AttachmentUploadSession`, the stored content, `AttachmentContent`,
`AttachmentBinding`, `AttachmentMutationLedger`); `object` says whether the
payload is in the external storage.  A service call is one transaction and two
actions: the read and decision (`CommitPut`, `Finalize`, `Bind`, `Unbind`,
`GcRead`) and the commit by row id on the rows of that moment
(`CommitPutCommit`, `FinalizeCommit`, `BindSame` / `BindNew`, `UnbindCommit`,
`GcCommit`).  Any call may be dropped in between (`Drop`, `GcAbort`).
`StorePayload` and `GcDelete` change the storage at once and are not undone.
`Prepare`, `FinalizeReplay` and `Replay` need one step: they only read, or insert
under a unique index.

`SessionAges` and `ContentAges` are time: the expiry of a session, and the end
of the grace period after which an unbound content may be collected.  `asked`
and `answered` are the client's side of a mutationId; `finalized` is what
FinalizeUpload has answered.

* `SerialUploads`: the web form uploads one file at a time, so calls of one
  session do not overlap; `attachments_finalize` drops this.
* `LateBinds = FALSE`: a client binds a content within its grace period.
* `InsertAborts = TRUE`: a failed insert ends the transaction, as PostgreSQL
  has it.

Left out: the retention purge of the ledger (30 days; a retry after it would
apply its mutation again), access checks, checksums, display names.

### 2.6 SequenceNext and NumberAllocator

`call[r].step` follows `nextSequence`: `Resolve`, `Replay` / `Miss` / `Preview`,
`Allocate` / `Reread` (the conditional update of `allocateRangeAtomic` and its
retry), then `Commit`, `Replace` / `ReplaceMisses`, `Create` /
`CreateConflicts`, `ReplayWinner`, `FindExpired`.  `lock` is the row lock that a
call holds from its update of NextNumber to the end of its transaction; what it
writes shows at its commit, so `next` changes with its last statement.  `Fail` is
a rollback at any point.  `Expire`, `CleanupIdempotency` and `Raise` (NextNumber
edited by hand) are the rest.  Lowering NextNumber is excluded: the field's help
(`sequence.ts:119`) warns that it may reuse numbers.

`issued` and `given` are history variables.  `NumberAllocator` has the numbers
issued and the next one; `Allocator` maps `issued` to the numbers of the calls
answered with a range of their own, and `ImplementsAllocator` is its
specification as a property.

### 2.7 FormSession

A handler is cut at the RPCs and dialogs it awaits; what is left of it is an
element of `loads` (beginDisplay), `defaults` (beginCreate), or is `save`,
`deletion` or `dialog`.  A handler that awaits only ticks is one step.

* `Identify` is `watchFormIdentity` with `initializeForm`; `BeginDisplay`,
  `LoadAnswers`, `LoadFails` are the controller's load with `loadSeq` and the
  abort of the one before; `Continue` and `Fail` are what each caller does after
  it, which depends on why the record was loaded.
* `BeginCreate` / `DefaultsAnswer`; `Edit`, `Type`, `Reset`, `Copy`, `Refresh`,
  `Cancel`, `Leave`, `Navigate`, `AskDelete`, `Confirm`, `Dismiss` are the page;
  `HandleSubmit`, `RefuseSubmit`, `Submit`, `SaveAnswers`, `SaveFails`, `Remove`,
  `DeleteAnswers` are writing.
* A draft is the record it was cloned from and the number of edits typed since.
* `unread` is a history variable: records whose last load failed, which leaves
  the record before them on the page, editable.

* `Refresh` is `handleRefresh`: in display mode it loads the record again
  (`Reload`), in edit mode the host may call it and a draft with edits is asked
  about first.  A cancelled creation goes back in the browser's history or, when
  there is nowhere to go, stays on the page with its draft (`Leave`).

`OpensInEdit` and the members of `Overlaps` admit what the page does not prevent
and what breaks the properties (section 5):

* `"write"`: another action during a save or a delete, or a save or a delete while
  a load or a DefaultGet is under way.
* `"copy"`: a copy during a load, or a move before its DefaultGet has answered.
* `"cancel"`: a move, a cancel or a refresh of an edit before the record of a
  cancelled edit is loaded again.
* `"defaults"`: typing before DefaultGet has answered.

`beginDisplay` awaits the selection of its fields before it aborts the load
before it; that wait is over at once (`requireNonEmpty` is false), so
`BeginDisplay` is one step.

Left out: the before-load refusal, custom submit and cancel handlers, replies
that carry an id only, `preventDefault` after a creation, `viewMode = 'display'`
on a creation, the refresh of a creation (it loads nothing), the 250 ms for which
a cancelled creation that stays keeps its leave guard off, the onchange flush,
field values.

### 2.8 AuthSession

`call[t]` is a call of the tab; `call[Renewal]` is `refreshInFlight`.  `at` is
where it is: `sent`, `served` (the reply is on its way), or waiting for the
refresh before it is sent (`pre`), after it was refused (`post`), or because it
asked for the refresh itself (`renew`).  A token pair is its index in `pairs`,
with the user and the metadata versions written into it and its age.

* `Begin...` are the actions of the store up to their first await; `Enter` is
  the interceptor before a request, `Deliver` after a reply, `Resume` after the
  refresh it waited for; `Continue` is what the action does next.
* `Await` joins the refresh or starts it; `ContinueRefresh`, `DeliverRefresh` and
  `Settle` are the rest of `refreshTokenImpl`, with the profile and permission
  loads it makes.
* `Serve...` are the services behind it: a refresh token is accepted once, until
  it is too old itself (`Outdated`) and while its user has an account that is not
  disabled; a login asks for such an account too; a write of the user's record
  raises the version that new pairs carry, and `Issues` takes the metadata of the
  moment.
* `Tick`, `Revoke`, `Close`, `Grant`, `Lose` are time, a logout of all devices, an
  account that an administrator disables or removes, a change of roles, and a lost
  request or reply.
* `epoch` and `crossed` are history: the session a call was made in, and whether
  a reply to a call of an ended session has been written.  `harmed` is history
  too: whether a message was lost, a token revoked, or a refresh token that had
  never been used was refused, for its age or its account.

Left out: the automatic refresh timer (`autoRefresh` is never enabled), several
tabs, a page that is closed during a refresh, registration, setup and language
lookups.  A refusal for an invalid argument changes nothing and is like an error
reply; a refresh that fails on the server for any other reason is like a lost one.
Accounts are not enabled again, a removed user's other calls are served as those
of a disabled one, and a revocation store that cannot be read, which the server
takes for "not revoked" (`internal/jwtauth/authenticator.go:115`), does not occur.

## 3. Runs

| Run | Question | Bounds |
|---|---|---|
| `dispatch_flow` | `ReadyQueueConsistent`, `AppSlotsExact`: do two polls of one dispatcher keep queue, index and slots exact?  `EveryJobFinishes`: does every job end, also one whose poll waits for the semaphore and one whose cancellation is requested while it runs? | 2 jobs of two applications with 1 slot each, 1 token, ready queue of 1, every dispatch answered ALREADY_RUNNING, one job cancellable |
| `dispatch_faults` | `TypeOK`, `ClaimExclusive`, `DispatchingIsOwned`, `AttemptsBoundCalls`, `OutcomeIsFinal`, `ImplementsLifecycle` | 2 dispatchers, 1 job, all ten answers, a cancelling client, 1 failing call, 1 crash |
| `worker_requests` | `TypeOK`, `OverlapNeedsExpiry`, `AnswersAreTrue`, `SuccessIsFinal`, `RunningEnds` | 2 requests, a statement that fails or only reports an error, a crash, a purge, lease of 2 ticks |
| `executor_calls` | `TypeOK`, `PoolOpsExclusive`, `StopHeard` | 3 goroutines, 6 calls, starts that may fail |
| `pool_growth` | `TypeOK`, `PoolBounded`, `RunOnce`, `ReloadReachesListed` | pool of 1 to 2, queues of 2, 4 threads made, 3 requests, a reload, a stop, engines that fail |
| `pool_retire` | `ExecuteReturns`, `StopEnds`, `PoolRefilled` | pool of 1 to 2, queues of 1, 5 threads made, a request with a deadline and one without, retirement after 1 task, engines that fail, a stop |
| `attachments` | `TypeOK`, `ActiveBindingServed`, `FinalizeAnswersAgree`, `MutationAnswersAgree` | 2 sessions, payloads, contents and mutations, 3 bindings of one field, 2 calls at once beside the garbage collection, 1 failed deletion |
| `attachments_finalize` (violated) | `FinalizeAnswersAgree` with `SerialUploads = FALSE` | the same |
| `sequence` | `TypeOK`, `RangesDisjoint`, `OneRangePerKey`, `ImplementsAllocator` | 3 calls at once, 2 keys, ranges of 1 and 2, 3 tries, NextNumber raised to 3 |
| `form` | `TypeOK`, `ShownIsCurrent`, `EditsSurvive`, `LoadingEnds` | 2 records and a creation, 5 loads, 1 edit per draft |
| `form_delete` (violated) | `DeletesTheConfirmed` | the same |
| `session` | `TypeOK`, `SessionAgrees`, `SessionSurvives`, `CallsEnd` | 2 users, 2 calls of any kind and their refresh, 1 event (time, loss, revocation, closed account or grant), every opened page and age of the pair |

Why the bounds are enough to be interesting: two dispatchers are the least
number that hold the same job in two ready queues; two attempts are the least
for which the retry, the exhausted budget and the refresh all occur; two
requests are the least that meet at one execution row, one of them taking it
over while the displaced one still runs. Two applications with one slot each and
one token let both polls of `dispatch_flow` claim a job for the one token they
counted; two polls also meet at the slot of one job, which the second lists
before the first has claimed it. The safety properties do not rest on these
numbers: section 4 proves each of them for any number of processes, requests,
rows and calls. In `dispatch_flow` the answer is always ALREADY_RUNNING, the one
that puts a job back without looking at its attempts, so that a job must come
through the ready queue more than once before it ends; the other answers are in
`dispatch_faults`. One fault and one crash each occur at every point of every
behaviour. Three goroutines let a Stop wait for another Stop that waits for a
Reload. A pool of one that may grow to two is the least in which two requests
create threads at once and one of them finds no room; three requests fill both
threads and a queue. In `pool_retire` no behaviour makes more than five threads,
so that no creation waits for `MaxThreads`; with the retirement of idle threads
as well (`IdleExpires`) its three properties were checked once, in twice the
states, which is too long for a regular run.
Dispatchers and tasks are symmetric in the safety runs; runs with liveness use
no symmetry. Jobs are independent of each other in the worker, so one suffices.

Two calls beside the garbage collection are the least that meet one row; one
field holds every conflict among bindings, because fields do not share rows, and
three bindings let a field be bound, bound again and unbound. Three sequence
calls let one commit between the read and the update of another and a third find
the record of either. Five loads let a load be superseded by a copy, a save or
another page and that one be superseded again. In `session` two calls are the
least that share a refresh; one event suffices because each property needs at
most one loss or one tick to be in danger, and the pair may be of any age to
begin with. `CallsEnd` was only simulated in longer behaviours (three calls at
once, five calls, four events).

Deadlock is checked in the dispatcher runs, where clients and pollers always
have a step.  It is off in the others: once every request is answered, or every
call made, nothing more happens.  Where rows, loads or calls are used up, a run
ends in the same way.

### Fairness

`TaskDispatcher!Fairness` assumes that pollers and handlers are scheduled, that
the RPC is answered and that time passes.  Go schedules every runnable
goroutine and the ticker polls for ever; the RPC is answered because the client
has a deadline when a timeout is configured (without one the wait is unbounded,
and the hazard list says so).  `TaskWorker!Fairness` assumes that handlers are
scheduled, that the target returns, that a goroutine whose context is done
notices it and that time passes; it assumes nothing of renewals, of the
cancel watch or of further requests.  That a heartbeat notices is strong
fairness: Go's select picks one of the cases that are ready at random, so a tick
that is ready each time cannot win for ever.

`JsExecutor!Fairness` lets a goroutine inside a call go on; whether another call
is made is open.  `JsPool!Fairness` is weak fairness of each request, thread,
sender, the cleanup goroutine and the control operations: the Go scheduler runs
them, a script ends (or is terminated), an engine loads or fails, and the
deadline of a request passes.  `ExecuteReturns` is checked for requests with a
deadline only, for the reason given in section 5.

`FormSession!FairSpec` lets every RPC settle, with a record, without one or with
an error; nothing obliges the user.  `AuthSession!FairSpec` lets every request be
answered or lost and runs what its reply causes.  Browsers end a request that is
not answered, and promise callbacks run.  `Attachments` and `SequenceNext` state
no liveness: nothing obliges a client to repeat a call.

### Findings

1. `attachments_finalize`: FinalizeUpload looks for an active content of the
   session's payload and creates one when there is none
   (`attachment_object.ts:670`).  Two calls of one session that overlap, a
   repeated request whose first is still running for instance, each create one
   and answer with different ids, against the test that a replay answers with the
   same.  Both contents lead to one payload, and the garbage collection of the
   one that is never bound deletes the payload of the other.
2. `form_delete`: the confirmation names the record shown when Delete was
   pressed, and the confirmed delete takes the one shown then
   (`useFormViewLifecycle.ts:311` and `:322`, `formController.ts:1038`).  When
   another record comes in while the dialog is open, that one is deleted.

## 4. Proofs

Every safety invariant and every action property of the passing runs is a
theorem, in the modules named `...Proofs`.  A theorem holds for every value of
the constants that the assumptions of its module allow; each subsection names
what it asks beyond them.  The bounds on faults, crashes, loads, calls and events
are constants too: the theorems hold for any of them.  An invariant that a proof
needed was first checked by TLC in the run of its property.

### 4.1 TaskWorker

`TaskWorkerProofs` proves six theorems for any number of jobs and requests, any
lease length and any number of faults, crashes and purges, on both kinds of
database.  The assumptions are those of `TaskWorker`: the invocations are a
finite set, the empty owner is not one of them, a lease lasts at least a tick.

* `TypeCorrect`: `TypeOK` is inductive.  `CallUpdates` and `RowUpdate` are its
  lemmas about record updates.
* `LeaseTheorem` and `OwnerTheorem`: `LeaseWhileRunning` and `OwnerSeesRunning`
  need each other, and `OwnershipInv`, their conjunction with `TypeOK`, is
  inductive: a heartbeat or a takeover keeps the first because it acts on a
  running row, a purge and another request's update keep the second because they
  act on a row that is finished or not running under its owner.
* `SuccessTheorem`: a row that succeeded has no lease, so no takeover or
  heartbeat is enabled on it, and an invocation inside it does not own it
  (`OwnershipInv`), so no final update matches it.
* `OverlapTheorem`: counts.  A step adds an invocation to `Displaced(j)` only by
  taking the row from its owner, and then adds the previous owner alone; when
  that owner was inside, the row was running (`OwnerSeesRunning`) and expired,
  and `overruns[j]` grows with it.
* `AnswersTheorem`: `TruthInv` carries the truth of rows, outcomes, tokens and
  answers together, because an answer may be copied from the row that an
  earlier invocation wrote.

### 4.2 JsExecutor

`JsExecutorProofs` proves every safety property that `JsExecutor` states, for any
set of goroutines and any number of calls, whether or not a start may fail; it
assumes only that the empty holder of a mutex is not a goroutine, that the bound
on calls is a number and that `StartMayFail` is a Boolean.  The inductive
invariant `IInv` has these parts:

* `OwnerInv`: a goroutine inside or after a pool operation is the only one, and
  the executor's state names what it does.  So a call starts to work only in
  "new" or "running", where nobody works (`ExclusionTheorem`).
* `PoolInv`: what the pool and its `stopOnce` are in each state and at each place
  of a call.  The
  one disturbance is a Stop during a reload, which puts the pool in "stopping"
  and records its request, so that `ReloadEnd` cannot go back to "running"
  (`RunningTheorem`, `ColdTheorem`).
* `StopInv`: a closed channel or an answered Stop means "stopped"; with
  `OwnerInv` nobody is inside the pool then, and no step changes the executor's
  state or the pool's (`StopTheorem`, `FinalTheorem`).
* `WorkInv` and `WaitInv`: a busy state has a worker, and a waiter's channel is
  the current one, with its request recorded (`WaitersTheorem`).

### 4.3 SequenceNext

`SequenceNextProofs` proves four theorems for any number of calls and keys, any
counts, any bound on the tries and any limit on manual raises.

* `TypeCorrect`: `TypeOK` is inductive, by lemmas on the shapes a step can have
  (a call moves and nothing else changes, a call locks, a call commits).
* `DisjointTheorem`: the inductive invariant says that a call past its
  allocation holds the lock and its range starts at NextNumber, and that every
  number issued lies below NextNumber.  The lock has one holder, so the range
  about to be issued meets no other.
* `RefinementTheorem`: with that invariant each commit maps to issuing or
  skipping the numbers from NextNumber on, a raise to skipping, everything else
  to a stutter.
* `OneRangeTheorem`, under `~ExpiredRaces`: the ranges given under a key are that
  of its unexpired record; a call about to replace or create a record found none
  or an expired one, and can commit only while no other holds the lock.

### 4.4 TaskDispatcher

`TaskDispatcherProofs` proves eight theorems for any number of dispatchers, jobs,
tokens and applications, any answers, budgets and limits.  Jobs and tokens are
finite sets (a listing of the table and the free slots are counted).

* `TypeCorrect`: `Types` adds to `TypeOK` the queues, the pollers and the slots.
  Its lemmas are those about the lists: what `Arranged` orders (each rank up to
  the size of a finite strict order is reached by one member: `RankReached`,
  `ArrangedLists`), what `Kept` keeps, and from these that `RoundRobin` selects
  different jobs of the queue, `Admitted` adds new ones within the room left, and
  `Without` leaves the others (`RoundRobinSelects`, `AdmittedFits`,
  `WithoutLeaves`).
* `ClaimsExclude` and `DispatchingStaysOwned`: `Own` says that one goroutine at
  most answers for a row, which is dispatching or cancelled meanwhile, and that a
  dispatching row has one or was stranded.  The steps fall into those that change
  no owner (`SameOwners`) and the claim, the goroutine start and the three ends
  of a handler, each with its own lemma.
* `OutcomesStay`: a status changes only under its owner, under a client or by a
  claim of a queued row; `Own` excludes an owner of a finished row.
* `CallsArePaid`: `Paid` follows the attempt number through a handler.  It is one
  more than the row's until it is written, the row's own while the job is called,
  and calls are fewer than attempts before a call; one goroutine counts at a time
  (`Own`), so no other changes the row in between.
* `SlotsAreCounted`: the counter is the number of pollers between reservation and
  start plus the number of busy handlers.  A token is free before a start, so the
  slot moves from one set to the other (`SpawnSlots`); `Released` lowers a counter
  that is not zero because its holder is in one of the sets (`ReleaseLowers`).
* `QueueStaysConsistent`: the queue lists each indexed job once; entering adds
  jobs the index does not have, popping removes the same ones from both.
* `LifecycleImplemented`: every step is one of `JobLifecycle` or unseen by it.
  `Own` gives that a claimed job had no holder and that a handler that leaves was
  the only one; `Paid` gives the guards of `Attempt` and `Call`, and that a row
  submitted has no attempts.

### 4.5 JsPool

`JsPoolProofs` proves five theorems for any number of requests, threads and
reloads and any sizes of pool and queues.

* `TypeCorrect`: `Holding` adds to `TypeOK` what a request at each place holds and
  that a thread is busy exactly while it has a task.
* `RunsOnce`: a request is in one thread's queue once, or running there, or
  neither (`WorkOK`); it has run exactly when its result is there, and what it was
  told agrees (`AnswerOK`).  A request whose deadline has passed may still run;
  none is given to a second thread.
* `PoolStaysBounded`: the counter equals the stored threads and those still being
  detached, the threads being made and the reservations about to be given back
  (`Counted`), and a thread being made is none of those (`Placed`).  It is a
  uint32: the theorem assumes that the callers between raising and lowering it
  never fill its width (`FewAtOnce`).
  `FewCallersBounded` shows that this holds whenever fewer than 2^32 - maxPoolSize
  calls are made in all.
* `ReloadReaches`: what a reload has listed and neither still has to do nor is
  asking is current or gone (`Covered`); a thread that starts meanwhile loads the
  scripts already published, and the executor is reloading until the end
  (`Phases`).

### 4.6 Attachments

`AttachmentsProofs` proves four theorems for any number of sessions, payloads,
contents, bindings, mutations and calls in flight.  The three conditions are
those of the runs (2.5); section 5 says what happens without them.

* `TypeCorrect`, with what a call and the garbage collection in progress know of
  the rows they read.
* `MutationsAgree`, under `InsertAborts`: everything answered for a mutation is
  what the ledger holds (`MutationInv`).  A commit that inserts found no entry, a
  replay copies it, and a second insert ends its transaction.
* `FinalizesAgree`, under `SerialUploads`: one upload call is in flight, none for
  a session already answered, and the answer is the session's content (`OnceInv`).
* `ShownAttachmentsServed`, under `SerialUploads` and `~LateBinds`: `StoreInv`
  follows a payload from the PUT to the content, which shares it with no other
  session or content; `ShownInv` says that a content in its grace period or bound
  is there, that the garbage collection in progress has chosen only contents past
  their grace period and unbound, and that a Bind in flight is for one within it.
  So the commit of neither hurts the other, whatever each read before.

### 4.7 FormSession

`FormSessionProofs` proves three theorems for any records, any number of loads
and edits, and pages opened by any navigation.

* `TypeCorrect` and `ShowsCurrent`, as long as the user starts nothing during a
  save or a delete (`"write" \notin Overlaps`, whatever else overlaps).  The
  invariant `Inv` says of each load and each defaults call in flight which page
  turn and which sequence number it belongs to and what it may show (`Calls`); of
  a save and a delete that nothing else is under way (`Saves`, `Deletes`); that a
  spinner has something to wait for (`Locks`); that a record handed over is the
  one it is kept for (`Keeps`); and that the quiet form shows the page's record
  (`Shows`).
* `EditsKept`, when the user also waits for copies, defaults and cancelled edits,
  and the form is not opened in edit mode (`Overlaps = {}`, `~OpensInEdit`).
  `Kept` says that a draft with edits is not about to be replaced: no load or
  defaults that would be shown is under way, it is measured against its record or
  a baseline, so leaving it asks first, and nothing about to finish forgets that
  baseline.  Each step then keeps the edits or is one that takes them by the
  user's will.  `Refreshing` adds that while a refresh asks about a draft, its
  edits wait for the answer.

Three lemmas carry these proofs: what beginning to display a record does,
whatever caused it (`Displayed`), what follows a load (`Continued`) and what
follows a save or delete.

### 4.8 AuthSession

`AuthSessionProofs` proves three theorems for any number of calls, users, pairs,
renewals and events.

* `TypeCorrect`: with the shape of each call (`Form`, `Place`) and that the store
  counts as refreshing only while a refresh is under way.
* `SessionHolds`: until a reply to a call of an ended session is written, what
  the store shows is of the user of its tokens (`Whole`), and so is what each call
  of the session asks for, is sent with and gets (`Joins`, `Gets`).  A login in
  flight is the only one of its session, and the session has no tokens before it.
* `SessionOutlives`: the token the refresh presents is unused, and it, the store's
  pair and the pairs on their way are all different (`Sound`); so the server
  never refuses a refresh because its token was used before.  What it may still
  refuse is a token that is revoked or too old, or whose account is closed; a lost
  reply ends the session too.  All of these are `harmed`.

### 4.9 Model-checked only

* The liveness properties `EveryJobFinishes`, `RunningEnds`, `StopHeard`,
  `ExecuteReturns`, `StopEnds`, `PoolRefilled`, `LoadingEnds` and
  `CallsEnd`: fairness and ENABLED are out of the prover's reach.
* The two violated properties, `FinalizeAnswersAgree` without `SerialUploads` and
  `DeletesTheConfirmed`, and the disagreements of section 5.

Proved but in no run, to keep these few: `LeaseWhileRunning`, `OwnerSeesRunning`,
`RunningHasPool`, `StopMeansStopped`, `FailedStartIsCold`, `StoppedIsFinal` and
`WaitersAreHeard`.

## 5. Disagreements without a run

Each is a behaviour of the code that a property of this project excludes.  To
see it, add the property to the configuration (a state formula as an INVARIANT)
or change the constant named.

* `RunAfterRespected` in `dispatch_faults`: `TryClaim` tests only
  `status = 'queued'` (`contract_store.go:91`).  A dispatcher that listed a job
  before another ran it and `Retry` moved `run_after` forward claims it at once,
  against `job.ts:155`, "Job will not run before this time."
* `TerminalIsFinal` in `dispatch_faults`: the final updates test no status
  (`contract_store.go:123`), and `handleJob` does not look at the one `Get`
  returns.  A job that `CancelJob` cancelled while it was being claimed runs and
  ends `succeeded`.
* `DuplicateFallsBack` in `worker_requests` with `DuplicateDetected = FALSE`:
  `errorsIsDuplicate` (`taskworker.go:449`) looks for "duplicate", and SQLite says
  "UNIQUE constraint failed".  A second request is then answered
  FAILED_RETRYABLE, and the existing execution is neither reported nor taken over.
* `StopReturns` in `executor_calls`: when `pool.start` fails, `Start` returns
  without looking at the stop requested meanwhile (`executor.go:223`), and the
  Stop that waits for it is never woken.  `StopHeard` shows that this is the only
  way to lose a Stop.
* `ReloadReachesAll` in `pool_growth`: a thread that read the old scripts and is
  stored after the reload listed the pool's threads keeps them (`pool.go:385`),
  although Reload answered without an error.  The same window stores a thread in
  a stopped pool, and lets the counter wrap below zero after the stop cleared it.
* The pool may stay below its minimum.  A replacement whose engine fails is
  logged and given up, and nobody is asked again (`pool.go:657`).  A cleanup may
  count the reservation of a request that is about to be refused for want of room
  (`pool.go:583`, `:364`): it then retires a thread too many, and the reservation is
  given back without a signal, as is the one of a creation that fails (`:380`).
  `PoolRefilled` is therefore about replacements that were asked for: each is made,
  unless its creation fails.  The counter it speaks of includes reservations.  The
  pool is filled again when the next thread retires or a request finds no thread.
* A task still in the queue of a thread that stops or retires is never answered
  (`pool.go:490`): without a deadline its caller does not come back, and
  `executeTimeout` is 0 by default.
* `OneRangePerKey` in `sequence` with `ExpiredRaces = TRUE`: two overlapping
  calls that found the same expired record both update it by id
  (`_sequence_next.ts:262`) and answer with different ranges.
* `ActiveBindingServed` in `attachments` with `LateBinds = TRUE`: a content bound
  after its grace period, between the garbage collection's read of the bindings
  (`_attachment_gc.ts:95`) and its commit, is deleted while bound.
* `MutationAnswersAgree` in `attachments` with `InsertAborts = FALSE`: on a
  database where a failed insert leaves the transaction open, the second of two
  equal binds keeps its own binding (`attachment_binding.ts:526`).
* An Unbind repeated after its binding was purged answers NOT_FOUND and not what
  it answered before, because it loads the binding before it looks into the
  ledger (`attachment_binding.ts:621`).  Payloads of uploads that were never
  finalized are collected by nobody.
* `ShownIsCurrent` in `form` with `"write"` in `Overlaps`: the reply to a save or
  delete lands on a record opened meanwhile, and takes down its spinner.
* `EditsSurvive` in `form` with one of the others in `Overlaps`.  `"copy"`: a load
  superseded by a copy clears the baseline of the copy, so that leaving it asks
  nothing.  `"cancel"`:
  the load a cancel makes answers on the next page and clears its baseline, and
  until then the leave guard is off.  `"defaults"`: DefaultGet's reply replaces
  what was typed before it (`formController.ts:875`).
* `EditsSurvive` in `form` with `OpensInEdit = TRUE`: a superseded load still runs
  the watcher's callback, which begins to edit and drops what was typed
  (`useFormViewLifecycle.ts:374`).
* `SessionAgrees` without `~store.crossed` in `session`: a reply to a refresh, a
  switch, a profile or permission load that arrives after a logout or another
  login is written to the store (`actions.ts:467`), which brings the earlier
  session back.
* `CallsEnd` without `WaitsForItself` in `session`: when a call the refresh makes
  is refused, or finds the pair due after a clear, it waits for the refresh it is
  part of (`actions.ts:445` with `:483`), and so does every later call.
* A refresh token that is refused for its age or a closed account, like one that is
  revoked, ends the session at once (`actions.ts:490`), also when the access token
  is still good.  This is the code's intent; `SessionSurvives` excepts it.
* A failed profile load inside a refresh ends the session although the new pair is
  valid (`actions.ts:490`); the language preference that joins a refresh begun
  before its write keeps the old metadata (`actions.ts:683`); a refresh that
  answers after a company switch puts the pair from before the switch back.
* `useOnchange.ts:867`: what is typed while an onchange call is under way goes into
  the new baseline and is not sent to the server.  Not modelled.

## 6. Not modelled

Wording of errors, hashes and truncation of results, metrics, token contents
and access policy (one nondeterministic refusal), the module-operation tip that
the dispatcher publishes, and the components marked `not_modelled` in
`PROJECT.json`.  The composition of dispatcher and worker is not modelled yet:
each is checked against all that the other may do.

Two steps of `TaskDispatcher` are coarser than the code: `HandleRelease` returns
the token and then the slot of the application (`dispatcher.go:277`), where
another goroutine may act between the two, and `PollPop` looks at the slots of the
applications once, where the code looks before each pick (`dispatcher.go:368`).
Nothing checked tells them apart: a reservation tests the slot again, and a job
whose slot is taken meanwhile is dropped from the selection and listed by a later
poll, as in the model.

## 7. Plan

In order of importance:

1. `TaskSystem`: dispatcher and worker composed over `JobLifecycle`, with the
   property that a succeeded job's target did run.
2. `StateLease`, implementing an abstract lease (holder and deadline), and
   `ProvisionLease` over it: exclusion while unexpired, renewal bounds.
3. `HotReload`: queue, busy and dirty modules, background priming; no change is
   forgotten, one upgrade per module.
4. `TaskScheduler`: firings over a conditional advance, the rate limit, crashes;
   `CronTime`: the minute search against the least matching minute.
5. `Onchange`: the flush, its baseline and its debounce, beside `FormSession`.
6. The data transfer jobs over `TaskDispatcher`; `TipHub` over the event bus;
   `Revocation`: both stores against one abstract specification.

The runs are kept few: a component gets one passing run for all its properties
where TLC's time allows and one set of bounds serves them all, and one more for a
disagreement worth showing.

Theorems to prove next: that `TaskWorker` implements an abstract execution of a
job (run, displaced, ended), which `TaskSystem` needs; that a `TaskDispatcher`
with one dispatcher respects `run_after` (`RunAfterRespected`, section 5), and
that without cancellations in flight every outcome is final (`TerminalIsFinal`);
that `FormSession` is a page of records that a reply never changes against its
identity; for each new module of the list above its type invariant and its
exclusion property.
