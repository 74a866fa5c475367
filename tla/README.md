# Superset's background work in TLA+

This directory models, checks and proves the parts of Apache Superset whose
correctness depends on interleavings:

- the **Global Task Framework (GTF)**, i.e. the background tasks of
  `superset/tasks`, the commands around them in `superset/commands/tasks`, their
  DAO, and the coordination service and distributed lock they rely on;
- the execution of **scheduled reports and alerts** (`superset/commands/report`);
- the **semantic-layer cache** with its leases (`superset/semantic_layers`).

Paths below are relative to `src/superset/` unless they start with `src/`.

## 1. Inventory

Most of Superset computes one answer per HTTP request from a metastore and a
warehouse. The components below keep state across requests or processes.

| Component | State | Operations | Modelled |
|---|---|---|---|
| Task rows (`models/tasks.py`, `daos/tasks.py`, `commands/tasks/internal_update.py`) | status, `dedup_key`, `last_heartbeat_at`, properties blob, subscribers | `create_task`, `set_status`, `conditional_status_update`, `set_properties_and_payload`, `merge_subscription_state`, `abort_task`, `find_orphaned` | yes |
| Executor (`tasks/scheduler.py`, `tasks/context.py`, `tasks/heartbeat.py`, `commands/tasks/update.py`) | the Celery process with its main thread, abort listener, timeout timer and heartbeat; the flags of `TaskContext` | `execute_task`, `_execute_task_body`, `on_abort`, `_on_abort_detected`, `_abort_locally`, `trigger_self_fence`, `_run_cleanup` | yes |
| Enqueueing (`tasks/manager.py`) | message in the broker | `submit_task`, `_fail_unenqueued_task`, `publish_completion` | yes |
| DAG gate (`tasks/dependencies.py`, `models/task_dependencies.py`) | edges to prerequisites | `unmet_prerequisite`, failing dependents | yes |
| Cancel (`commands/tasks/cancel.py`) | the row, under the task lock | abort, unsubscribe, detach, refuse | yes |
| Submit (`commands/tasks/submit.py`) | the row, under the task lock; the unique index on `dedup_key` | create or join, re-read after a violation | yes |
| Chart-data policy (`tasks/async_queries.py`) | `private.subscription` of the properties: the tabs of each principal | `on_subscribe`, `on_unsubscribe` | yes |
| Reaper (`commands/tasks/reap.py`) | none | scan, compare-and-swap to FAILURE | yes |
| Task lock (`tasks/locks.py`, `commands/distributed_lock`) | a token with a time to live, in Redis or in the key-value table | acquire, wait, release, signal | yes |
| Coordination service (`coordination`) | streams of signals | `wait_for_signal`, `notify`, `listen_for_signal` | what the lock uses |
| Inline execution (`tasks/decorators.py`) | none of its own | run in the web process, wait for prerequisites, join and wait | all but joining |
| Prune (`commands/tasks/prune.py`) | none | delete old ended rows | yes |
| Reports and alerts (`commands/report/execute.py`, `commands/report/execution_claim.py`, `tasks/scheduler.py`) | the schedule's `last_state`, `last_eval_dttm`, `execution_owner`, `execution_window`, `retry_attempt`, `retry_scheduled_dttm`; the execution log | publish per crontab window, claim, own, run, deliver, retry, recover, fail at the boundary | yes, but for content, notices and log rows |
| Report editing (`commands/report/update.py`) | the same row | deactivate, switch retries | what touches execution |
| Semantic-layer cache (`semantic_layers/cache.py`, `cache_repository.py`, `cache_coordination.py`) | a bucket of descriptors, the values, the lease | look up, dedupe, store, evict, prune; take, renew and release the lease; check its owner before a write | yes, but for the containment policy |
| Deletion retention, version history | soft-deleted rows, versions | windowed purge | no: sequential |
| Realtime, websocket server | none that is read back | best-effort publish | no: only `announced` |
| SQL Lab, query cancellation, thumbnails, security, import and export, frontend | | driver calls and request-scoped work | no |

How they interact: a web process creates or joins a row while it holds the task
lock of the deduplication key and publishes a Celery message after the commit.
A worker claims the row by compare-and-swap, runs the function and ends the row
by compare-and-swap, without the lock. Cancels, the worker's side threads and
the reaper write the same row from other threads and processes. Every lasting
effect goes through the row; the signals on the coordination backend only wake
somebody up who then reads the row.

What makes this hard is that **two kinds of writes meet on one row**. The
compare-and-swap `conditional_status_update` cannot overwrite what it did not
expect. An ORM assignment (`task.set_status(...)`, `task.status = ...`) can: its
UPDATE has the id as its only condition, and the value was chosen from a row
read earlier. The hazards in `PROJECT.json` are listed at their lines; they are

- the three blind writes (cancel, timeout/fence, and the entity whose status
  is set again after the claim) against the terminal commits;
- flags of `TaskContext` that some threads read without `_abort_lock`;
- crashes and metastore outages at any statement of the worker, and an enqueue
  that fails although the broker took the message;
- a completion that must be published by somebody, as websocket clients do not
  poll;
- lost wake-ups, expiry and lost answers around the lock;
- the properties blob, written as a whole by two kinds of writers;
- a cancel that must not stop work that somebody else watches;
- tasks that wait for each other on few workers, judged by snapshots, while rows
  and edges are deleted under them.

**Reports.** A schedule is one row; a message names the schedule and its window.
Any number of jobs may hold messages for it: this window's, an older one's, a
retry's, a copy. `claim_execution` admits at most one by a conditional UPDATE
that compares every field the admission read; from then on the row's
`execution_owner` is the job's execution id, and each of its writes has the
owner as a condition. Whoever changes the owner (a later window that recovers a
timed-out run, the next claim) fences the former owner. The hazards: what
happens between an ownership check and the delivery it clears; a delivery of
which nobody knows whether it succeeded; a retry committed before its message is
published; counters left by an older window; and the form's deactivation, which
overwrites the state without looking at the owner.

**Semantic cache.** Requests of all web workers read a bucket without a lock and
change it (register, evict, prune) as read-modify-write under a lease with a
time to live. Each write first renews the lease and asks whether it still is the
request's own; check and write are two commands. (A script that does both exists,
but needs one Redis client for cache and lease, and the program gives the lease a
private one; see `SemanticCache` below.) The hazards are
those of a lease that expires under its owner, also between that check and the
write, of values and descriptors that are written one after the other, and of
entries that expire on their own.

## 2. Modules

| Module | Models |
|---|---|
| `TaskStatus` | the statuses, the four sets of `tasks/constants.py`, and what `set_status` does to the deduplication key (`SlotAfter`) |
| `TaskContract` | abstract: the transition table a status promises to follow |
| `TaskLifecycle` | one task: submitter, worker with three side threads, cancelling users, reaper. Refines `TaskContract` where only compare-and-swaps race |
| `TaskInvariants` | the inductive invariant of `TaskLifecycle` |
| `TaskLifecycle_proofs`, `TaskContract_proofs` | its theorems |
| `LockContract` | abstract: mutual exclusion |
| `TaskLock` | the task lock, with its waiting and its signals. Refines `LockContract` |
| `TaskLock_proofs` | its theorems |
| `TaskSubmission` | submits and cancels of one key by several tabs, over the lock's contract, with the executor as the other writer of the blob |
| `MCTaskSubmission` | two tabs of one user and one of another |
| `TaskSubmission_proofs` | its theorems, and their inductive invariant |
| `TaskGraph` | several tasks with dependencies: submission, gate, deferral, inline waiting, prune, and cancels and timeouts that write without comparing |
| `TaskGraph_proofs` | its theorems, and their inductive invariant |
| `ReportExecution` | one schedule, its messages and the jobs that run them |
| `ReportExecution_proofs` | its theorems, and their inductive invariant |
| `SemanticCache` | one bucket, its values, its lease and the requests |
| `SemanticCache_proofs` | its theorems, and their three inductive invariants |

Operators named "Mutant of ..." are plausible mistakes in the definition that
follows them. No specification uses them; each one exists to show that a
property would notice.

### TaskLifecycle and the code

The variables are the row's columns, the flags of `TaskContext` under the
names of the code (`completed` is `_execution_completed`, `detected`
`_abort_detected`), and control locations: `pc` for the main thread, `thread`
for the side threads, `cancel` for each user's request. One action is one
statement that reads or writes shared state, i.e. one commit or one access to a
flag. Points where the granularity needs a reason:

- **`BuildContext`.** `task.status = IN_PROGRESS` (`tasks/scheduler.py:562`)
  assigns to an entity the claim's commit has expired. Nothing loads the row in
  between, so the session has no old value to compare with and emits an UPDATE
  at its next flush, keyed by the id. From that flush to the commit the row is
  locked, so flush and commit are one step.
- **`CancelReads` / `CancelWrites`.** `abort_task` reads without a row lock; the
  UPDATE goes out at the commit. Between the two only the task lock is held
  (`TaskLockFree`), which the executor does not take.
- **`LocalRead` / `LocalWrite`.** `UpdateTaskCommand` takes the task lock around
  the read and the assignment, and leaves it before the enclosing transaction
  commits. Waiting for the lock is part of `LocalRead`. Assigning the value just
  read makes no UPDATE, so ABORTING is not written again.
- **`Elect` / `DetectAbort`, `TimerFires` / `MarkTimeout`** are the two halves of
  critical sections of `_abort_lock` (`AbortLockFree`); `MarkFence` sets its flag
  without that lock.
- **`RegisterHandler` / `CacheAbortable` / `SetAbortable`.** `on_abort` appends
  the handler (`tasks/context.py:362`), sets the flag in its cached properties
  (378), and writes it to the row. The timer asks for the handlers (719), then
  `_abort_locally` for the flag (814): `CachedAbortable`. A timer that fires
  between the first two steps records its timeout and writes nothing; the worker
  then finds an abort in flight but no ABORTING, and leaves the task to the
  reaper.
- **`Defer` / `FailUndeferred`.** `self.retry` may raise although the broker took
  the message. Then this execution, as the message's publisher (`submit` is
  "redefer"), writes FAILURE by compare-and-swap while the next one runs. It does
  so before the same happens to that next one.
- **`InspectStatus`** reads the row: the entity was expired by the commit that
  wrote `is_abortable`.
- A **publish** belongs to the step of the commit it follows in the same
  thread, except at the end of the worker, where the row is read again in
  between (`PublishFinal`). `publish_abort` only wakes the listener, which polls
  anyway.
- **`CommandRaises`** is a metastore statement of the main thread that raises;
  where control goes is read off the `try` blocks around it.

### TaskLock and the code

`lock` is the stored token, one per acquisition (`Orphan` is a token that nobody
will present: its holder crashed, its release failed, or the answer to its SET
was lost). `stream` counts the signals; `lastId` is the position a waiter
captured before its second check. `overrun` and `silent` are history variables:
who holds a lock that has expired under it, and whether the lock became free
without a signal. Both backends are covered: without Redis
(`HasBackend = FALSE`) there is no stream and waiters poll. The stream lives 24
hours and a wait 30 seconds, so streams do not expire in the model. A release
compares and deletes in one step: by script in Redis, under a row lock in the
key-value table.

### TaskSubmission and the code

A client is a browser tab, `Owner` its principal. Rows have a status, the key's
slot, the subscribers and the properties, of which `is_abortable` and the
policy's consumer list are kept: one field of each of the two writers. `seen` is
the copy of the properties in the session of a submit; `cache` the executor's.
`Join` writes `seen` back (the bump of `dedupe_count` assigns the blob, and the
policy's own row-locked read flushes that assignment first), then merges the
tab. `Decide` is one step because the policy's write locks the row before
`abort_task` reads it again.
The lock may expire under its holder once (`Expire`); the properties about the
record are conditional on that not having happened.
`WatchersShareOneTask` is not: two holders of the lock may both try to create
the task, and the unique index and the savepoint (`IntegrityError`) must make
one of them join.

### TaskGraph and the code

The other side of the framework: many tasks, and little of each. The threads of
a worker are `TaskLifecycle`'s; what is in full here is how tasks meet.

The uncompared writes are here too, because a dependent may have acted on the
status they replace. `Cancel` is `abort_task` as far as its read, `TimeOut` the
timer or the fence up to the lookup of the row; both leave in `aborts` the status
that `WriteAbort` writes later, whatever the row says by then. `BuildContext` is
the third such write. (`Stopped` lets an abort count that has been asked for and
not yet written, as the timer's flag does.) `undone[t]` is a history variable:
the prerequisites whose SUCCESS was overwritten since `t`'s executor last loaded
them.

`seen` is the task with its prerequisites as loaded in one go (`Task.depends_on`
is loaded with the task); `todo` are those the loop of `unmet_prerequisite` has
still to look at, in any order, as the order of the edges does not matter to
what may happen. A prerequisite seen ended is trusted (`SeenEnded`); another is
read again, and between the load and that read others act. Deferring frees the
worker (`WorkerFree` counts the occupied ones); an inline caller instead blocks
on one prerequisite after the other (`on`) and then loads again. `Prune` deletes
any ended row with its edges, `ON DELETE CASCADE` on both columns.

A message is not a variable: a task whose `pc` is "start" has one. It may wait
for a worker and a countdown, so messages are taken in any order.

`EveryTaskEnds` says that from some point on all tasks have ended and stay so: one
that a late write reopens is ended again, by its worker or by the reaper.
Two things the code leaves open are exempted by name, in `Stranding`:

- *A row deleted under a waiter.* `wait_for_completion` looks for the row once,
  at the outset (`tasks/manager.py:457`); the wait has no deadline, so a row
  deleted during it is waited for for ever. The comment at the caller
  (`tasks/decorators.py:472`) speaks of a prerequisite "pruned mid-wait".
- *A late cancel of an inline task.* `_finalize_inline_terminal_status` accepts
  SUCCESS only from IN_PROGRESS. A cancel after the function has returned leaves
  the row in ABORTING, without anybody to end it and with its deduplication key
  taken; so does one whose write comes after SUCCESS. `__call__` promises a task
  in a terminal state (`tasks/decorators.py:316`). A worker in the first position
  commits SUCCESS (`tasks/scheduler.py:606-613`), and behind a worker comes the
  reaper.

Two more shape `RunsOnlyAfterSuccess`. A prerequisite's SUCCESS may be overwritten
by a cancel or a timeout that decided before it (finding 1): a dependent that had
loaded it keeps running, or even begins, on a success that no longer stands. That
is `undone`, and the property allows nothing else: a success overwritten before
the load must be noticed. And a prerequisite that failed and was
*deleted before* its dependent is loaded has left no edge, so the dependent
runs. The gate treats only a row deleted after the load as failed
(`tasks/dependencies.py:77`). With a retention of days against a deferral of
seconds this takes a task that stays deferred, or in the queue, for that long;
the property exempts deleted prerequisites and holds for all others.

### ReportExecution and the code

`row` is the schedule, `jobs` the deliveries of messages: a slot holds a queued
message, or the worker process that took it, at the location `pc`. One action is
one transaction, or one call to the outside. Abstractions, each made so that the
state space stays finite while the schedule goes on for ever:

- *Ids* matter only by equality. `owns` says that the row's `execution_owner` is
  this job's id; `awaited` that it is the `expected_owner` this retry carries.
  `id` tells which slots are copies of one message.
- *Windows* matter only by order, and by equality with the row's
  `execution_window` (`window`) and `retry_scheduled_dttm` (`anchor`). Each
  `Tick` renumbers those in use to 1, 2, ...
- *Time*. `last_eval_dttm` is compared in two ways: with the working timeout or
  the stale-retry delay, which is `old` (one flag, as a row waits for only one of
  them at a time), and for equality in a conditional UPDATE, which is `current`,
  the jobs whose read no write has outdated since.
- *Outcomes* of the alert's query, of the capture and of each recipient are
  arbitrary; so is the moment at which the budget runs out. A recipient whose
  notification fails is a failure to be collected (and the run fails at the end)
  or an exception that leaves the loop: both are "failed" in `AfterDelivery`,
  with fewer or more recipients still to serve. A soft timeout in
  `ReportSuccessState` is handled like any failure there (`Overrun`).
- Notices about failures, audit rows, the recipient policy and the Slack upgrade
  are left out: nothing reads them back into the state.
- The second look for an in-flight retry chain in
  `ReportNotTriggeredErrorState.next` (2191-2209) cannot succeed after a claim,
  which has written WORKING and refreshed `last_eval_dttm`.

`history` records the runs of the row's window, whether it has been delivered to
anybody, and whether a fault or an edit since could have cost it its retry.

### SemanticCache and the code

One bucket and its values; what distinguishes results is their `nonce`
(`write_nonce`), which counts up and so stands for the timestamp too. `eligible`
in `Lookup` is whichever subset of the descriptors proves to answer the query
within its age limit: `cache_policy` and `_serves` are left open, so that the
properties hold for any containment policy. For the same reason the key is drawn
only when a result is stored.

A write goes through `SemanticCacheRepository._set`. `set_if_owner` uses its
script only where the value cache and the lease have the same client object
(`semantic_layers/cache.py:183-188`). `initialize_semantic_cache` runs within an
app context and hands the lease to `_bounded_coordination_backend` (473-474),
which there always builds a private client (198-224); so it answers `None`, and
`_set` checks the owner and then writes. That is the path modelled: `CheckOwner`,
then `SetBucket` or `SetValue`. The script runs only with clients that tests
inject, and is left out. Between check and write the lease may run out. The check
has just renewed it, so that takes a write longer than `lease_seconds`; `lapsed`
records it, and the two properties about concurrent changes of the bucket assume
it has not happened. They hold through every other expiry and takeover: before
the read, between read and check, between the two writes, after them.

The renewal thread is
left out: it makes expiry rarer, and `Expire` may happen at any time. Timeouts
are `DropValue` and `DropBucket`, at any time too.
A command that raises may have been executed: `CommandFails` after the
corresponding step is that case. `_is_registered` reads the bucket and the values
one by one and is one step here: a dedupe by older reads has the effect of one
made earlier, as the request then is answered with its own result.

## 3. Runs

| Run | Asks | Instance | Result |
|---|---|---|---|
| `lifecycle_cancel` | slot, causes, announcements; who can disturb an ended task | two subscribers and an admin; timeout, prerequisites, crashes, broker faults | holds, about 290,000 states |
| `lifecycle_outage` | does a picked-up task end for good? | one subscriber; timeout, crashes, outages (thus fences) | holds, about 456,000 states |
| `lifecycle_cas` | does the lifecycle keep the status contract without blind writes racing? | prerequisites, crashes, broker faults | holds, 331 states |
| `task_lock` | exclusion, wake-ups, release, end of waiting | two processes with three requests each; overruns, crashes, faults | holds, about 48,000 states |
| `task_submission` | are watchers recorded, spared and served? | three tabs of two users, expiry, broker faults | holds, about 554,000 states |
| `report_execution` | is a window delivered at most once, are retries counted, do they come, does the schedule go on? | two jobs, two recipients, one retry; endless windows; one crash, redelivery, failing write or edit | holds, about 612,000 states |
| `task_graph` | does nothing begin too early, and does everything end? | two queued tasks and an inline one, any graph; one worker, one crash, one cancel or timeout, broker faults, prune | holds, about 516,000 states |
| `semantic_cache` | are updates of the bucket lost, do index and values agree, is everybody answered? | two requests at a time, without end; two keys, a bucket of one, two stores; any number of faults | holds, about 315,000 states |
| `terminal_reopened` | "a terminal status never changes" | one subscriber, no faults | violated |
| `fence_after_success` | a fence "cannot clobber the result" | outages only | violated |
| `join_aborting` | `find_by_task_key` "only returns tasks that are active (pending or in progress)" | three tabs | violated |
| `lost_property` | the two writers of the blob do not clobber each other | three tabs | violated |

Why these bounds. In `TaskLifecycle` the users are the only replicated actor:
two subscribers distinguish the last from one that is not, the admin gives a
second abort in the middle of the first user's; all other actors are in the code
once per task. Faults are switches rather than counters, so a worker may lose
its metastore any number of times. `handlerRuns` is bounded by the control flow.
The invariants of `lifecycle_cancel` are checked without an outage; with one they
rest on the theorems, which cover every combination of the switches. In
`TaskLock` one waiter can lose a wake-up only to one releaser, and
`MaxRequests = 3` lets a process go through a crash of the other, an overrun
and a further acquisition. In `TaskSubmission`, `MaxTasks` equals the number of
tabs, each of which submits once and cancels at most once, so the bound on rows
never blocks a submit; three tabs are the fewest with both another tab of the
same user and another user.

In `ReportExecution` two slots are a job and its rival: the fenced owner and the
recovering job, the retry and the later window, the message and its copy. The
number of windows is not bounded; `MaxFaults = 1` is enough for each fault to
meet every location, and takeovers need none, as time passes by itself. With one
retry the budget's end is reached, with two recipients there is one before and
one after a takeover. In `TaskGraph` three tasks are the fewest with a chain and
with two prerequisites of one dependent, and one worker the fewest that can
starve; one of the three is inline. One uncompared write (`MaxAborts`) is enough
to hit a prerequisite behind its dependent's back, as a single cancel is enough to
reopen an ended task, and one crash (`MaxCrashes`) to leave any task to the
reaper; `TaskLifecycle` has several writes on one row. In `SemanticCache` a bucket of one makes
every store of the other key evict, and the second store comes while the first
one's lease has expired; its safety was also explored, without an error, over
more than ten million states of an instance with three keys, a bucket of two and
three stores.

`CHECK_DEADLOCK FALSE` where the system may really stop: tasks end, tabs go away
and requests run out. `report_execution` and `semantic_cache` check deadlock.

### Fairness

- `TaskLifecycle`: the main thread and the side threads go on as long as the
  process lives, and a task function returns (with no timeout and no heartbeat
  failure nothing else would end it: a function that hangs keeps its heartbeat).
  A heartbeat goes stale when nobody stamps it. The beat schedule runs the reaper
  for ever. A cancel that has read completes. Nothing is assumed of users,
  prerequisites or the broker: a deferred task may wait for ever, which is why
  the liveness property starts from the first heartbeat.
- `TaskLock`: a live process goes on, and a time to live elapses. `TimeOut` (the
  deadline of 30 s) has no fairness, so `WaitEnds` shows that waiting ends
  without it.
- `TaskSubmission`: a request handler runs to its end, a queued message is
  delivered, a function returns. Nobody is bound to submit or to cancel.
- `TaskGraph`: executors go on, functions return, the reaper comes back, and a
  cancel or timeout that has read its row writes. A
  message is not passed over for ever by a worker that is free again and again
  (strong fairness of `Start`: the worker need not stay free). Nobody is bound to
  submit, to cancel or to prune.
- `ReportExecution`: the scheduler publishes windows for ever; a slot that is
  taken at the moment is a bound of the model and no reason to skip a window,
  hence strong fairness of `Tick`. Time passes, messages are delivered, and a
  job goes on until it ends or dies.
- `SemanticCache`: a request goes on. Leases need not expire, not even those of
  dead workers: `EveryRequestIsAnswered` rests on the bounded wait alone.

### Findings

Each violation run is a disagreement between the code and a sentence of its own
documentation; `PROJECT.json` quotes both.

1. **A terminal status can change** (`terminal_reopened`). `abort_task` checks
   under a lock the executor does not hold and then writes without comparing.
   The window is short and the reaper or the worker's finalizer ends the task
   again (`PickedUpTaskStaysEnded` holds), but the outcome may be another, and a
   dependent may have acted on the first (`TaskGraph` has that case: `undone`).
2. **A self-fence can overwrite SUCCESS** (`fence_after_success`): its check and
   its write are two steps, with the terminal commit in between.
3. **A submit can join a task that is being aborted** (`join_aborting`), since
   ABORTING keeps the key. The lookup's docstring says otherwise.
4. **A join can undo the executor's write** (`lost_property`) of the properties.

Met while modelling, and exempted by name where a property would otherwise say
more than the code does: the two cases of `Stranding` and the pruned
prerequisite (see TaskGraph above); a deactivation that writes NOOP over whatever
the schedule has become since the form was validated
(`commands/report/update.py:387`); a retry whose flag is switched off between
its read and its claim, which leaves the schedule in RETRYING until a later
window takes over; a slow ordinary store that replaces the result of a forced
refresh in the semantic cache, since the dedupe check precedes the wait for the
lease; its deletion of evicted values without asking for the owner; and a timer
that fires between the two steps of `on_abort`, which leaves the task IN_PROGRESS
to the reaper, the outcome that the comment at `tasks/context.py:712-718` wants
to prevent. A bucket's timeout is
computed from a clock read before that wait, so a bucket may expire a little
before a value it indexes; in the model it may do so at any time.

## 4. Proofs

TLAPS proves, for all values of the constants that the modules' named
assumptions admit (any users, tasks, processes or clients, with any combination
of faults):

| Theorem | Says |
|---|---|
| `TaskLifecycle_proofs!TypeCorrect` | `[]TypeOK` |
| `EndedTaskFreesSlot` | `[]TerminalFreesSlot` |
| `AbortingIsHandled` | `[]AbortingHasHandler` |
| `OutcomeIsCaused`, `HandlersAreCaused` | `[]OutcomeHasCause`, `[]HandlersHaveCause` |
| `ReopenedByBlindWrites` | `OnlyBlindWritesReopen` |
| `EndIsAnnounced` | `[]QuiescentIsAnnounced` where the metastore stays up (`~Outages`); a worker that has died is not at rest |
| `TaskContract_proofs!CASImplementsContract` | refinement of `TaskContract` when nobody cancels, no timeout is configured and the metastore stays up |
| `TaskLock_proofs!TypeCorrect` | `[]TypeOK`, any number of processes, both backends |
| `WakeupsAreKept`, `ReleaseIsOwned` | `[]NoLostWakeup`, `NobodyReleasesForAnother` |
| `LockImplementsContract` | refinement of `LockContract` |
| `TaskSubmission_proofs!TypeCorrect` | `[]TypeOK` |
| `WatchersStayOnRecord`, `WatchersShare` | `[]WatchersOnRecord`, `[]WatchersShareOneTask` |
| `BackstopIsUnused` | `[]BackstopUnused` |
| `AbortsSpareWatchers` | `AbortSparesWatchers` |
| `TaskGraph_proofs!TypeCorrect` | `[]TypeOK` |
| `RunsAfterSuccess` | `[]RunsOnlyAfterSuccess`, for any number of uncompared writes and crashes |
| `NoCycles` | `[]DependenciesAcyclic` |
| `ReportExecution_proofs!TypeCorrect` | `[]TypeOK` |
| `DeliveredIsNotRerun`, `FencedSendsOnce` | `[]DeliveredWindowIsNotRerun`, `[]FencedWorkerSendsOnce` |
| `CounterCounts`, `RetryComes` | `[]CounterCountsRuns`, `[]RetryIsComing` |
| `OneRun`, `NobodyElseEnds` | `OneRunPerMessage`, `NobodyEndsForAnother` |
| `SemanticCache_proofs!TypeCorrect` | `[]TypeOK`, any capacity |
| `WritersTakeTurns` | `[]OwnerHasReadBucket`, as long as no write takes longer than the lease just renewed |
| `NothingIsOrphaned`, `NothingDangles` | `[]NoOrphans`, `[]NoDangling`, as long as nothing fails or expires |
| `ServableStays` | `ServableIsKept`, under the condition of `WritersTakeTurns` |

Assumptions: the named ASSUMEs of the modules, which TLC evaluates in the runs.

The argument. None of the lifecycle's properties is inductive: ABORTING is
written by an actor that looked at the row, or at the handlers, some steps ago.
`IInv` in `TaskInvariants` says what such an actor still knows when it acts.
`HandlerInv` says that whoever is on the way to write ABORTING saw a handler,
and that handlers are not unregistered; it needs the converse that none is
registered before the function starts. `CauseInv` says that whoever is on the
way to run handlers or to write an outcome finds its cause recorded: a reason is
stored before the thread that acts on it moves. `TerminalFreesSlot` is inductive
by itself, since every write goes through `SlotAfter`. The proofs go action by
action, under each action conjunct by conjunct where it is disturbed.

`EndIsAnnounced` adds `PublishInv` to it: an end that nobody has published was
written by the worker, which is still on its way to `PublishFinal` or has died
on it. Everybody else publishes in the step that ends the task. It is the step
of the submitter that needs `HandlerInv`: a message is published only while no
worker can have the task. The theorem assumes `~Outages`, as the property does
not hold otherwise: a worker that loses the metastore after its terminal commit
goes without publishing.

For `CASImplementsContract`, `QuietInv` says that without cancels, timeouts and
outages no side thread ever acts, that the heartbeat stays fresh and the reaper
idle as long as the worker lives, and that therefore the row still is
IN_PROGRESS when `BuildContext` writes IN_PROGRESS again. Each remaining action
is a step of the contract or a stutter.

For the lock, `LockInv` ties the stored token to the process in its critical
section, in both directions: the token's owner is inside and has not overrun,
and whoever is inside and has not overrun owns the token. It also says that no
waiter's position is ahead of the stream. With it `NoLostWakeup` is inductive:
a waiter parks only after a check that found the lock taken, and whoever frees
it from there on is about to send a signal behind the captured position.

For submits and cancels, `LockInv` says that until a lock expires under its
holder only the holder is between its read and its commit (`Critical`).
`ReadInv` follows: what such a client has read is still so. The copy of the
consumers that a join writes back is the current one, although the executor may
have written the same blob since, and a client about to insert is right that no
row holds the key, hence `BackstopUnused`. With it `RecordInv`, which is
`WatchersOnRecord` client by client, is inductive, and `AbortSparesWatchers`
follows step by step: whoever decides to abort has found no consumer on record,
so there is no watcher. `WatchersShareOneTask` owes nothing to the lock. It
rests on `IndexInv`, the unique index, alone.

For the graph, the gate trusts what it has read before. `GateInv` says what that
trust is worth: a prerequisite seen ended in SUCCESS has it still, unless it is
`undone`, because no compare-and-swap expects an ended status and every other
write enters what it replaces there; a gate has overlooked no prerequisite whose
row exists, because edges and declared dependencies agree on the rows there are
(`EdgeInv`); and what it has passed has succeeded and stands, is undone, or its
row is gone. `BegunInv` carries that on from the claim: a task whose row says
that it has begun is one whose executor passed its gate, also when the status was
put there by a write that did not compare, as such a write is under way to
ABORTING only after the claim. All steps
but a submission and a deletion touch a single task (`Touches`), so each is
shown to keep what its own executor knows (`GateStep`, `ClaimStep`, `BodyStep`,
`OutsideStep`), and `TouchKeeps` does the rest for the others: a status other than
SUCCESS replaces nothing they rely on, and SUCCESS is replaced only with an entry
in `undone`. A
submission refers only to rows, and nobody refers to a task that is not
submitted (`NewInv`): that also makes `DependenciesAcyclic` inductive, since a
cycle would have to be closed by the youngest of its tasks.
`TypeCorrect` needs `BlockInv`, for what `TypeOK` says beyond types: an executor
waits for one prerequisite at a time, and only for declared ones.

For reports, the row says who owns it and which retry it awaits, and the
messages say what has become of them; the invariant is that the two agree.
`MessagesInv` compares each message with the row's window and any two messages
with each other. Copies of one message agree in all that identifies it, and only
one of them is run; owner and awaited retry are single up to copies; an owner
that is still at work leaves no retry to be awaited. `ReadInv` is about an
admission: what it has read is so, unless a write has outdated the read, in
which case the conditional UPDATE fails. `OneRunPerMessage` follows from these
two: a message that has run has a window that is not newer than the row's and is
not the awaited retry, so no claim of it compares equal.
`CounterInv` ties the counter of retries to the window it was counted for
(`anchor`), so that what an older window left is not counted. `DeliveryInv` says
who may still send: nobody of the row's window while its retry is awaited, which
makes a retry of a delivered window impossible. `LateInv` says that the one
delivery after the row is lost is the last, as the next one is preceded by an
ownership check. `FlagInv` is what `RetryIsComing` needs: a run that nobody
disturbs has read the retry flag as the row still has it. The steps of the jobs
are first put into kinds (`StepKinds`: which fields of row and job change, and to
what), and each conjunct is then shown for each kind.

For the cache, `IInv` says that the owner of the lease who is about to write the
bucket has read all of it, except what it is about to prune. A read establishes
that. Then only another request's write can spoil it, and that request has passed
its owner check: unless its lease ran out right there (`lapsed`) it still owns it
(`WritesOf`), so this one does not. Any other expiry only takes the ownership
away.

`FullInv` adds what relates index and values, for any capacity. Results are told
apart by their nonces (`OneEach`), so a descriptor that serves its value is the
only one that does. `HasRead` and `HoldsOf` say that whoever may write has read
every servable descriptor, and only ones that are in the bucket. `Settled` says
that, while nothing has failed, a value without its descriptor is on the list of
what the owner of the lease will replace or delete. `NoOrphans` is `Settled`
where the lease is free. `ServesInv` is the converse for `NoDangling`: while
nothing has failed, a descriptor serves its value or the owner of the lease is
about to store that (`Pending`), and the owner deletes no value that the index
lists. For `ServableIsKept` it takes in addition that eviction
keeps the newest (`NewestFits`, `NewestFills`: a statement about cardinalities,
since the operator sorts by time and cuts off).

These invariants were model-checked before they were proved, each on its
module's run.

**Only model-checked:** liveness (`PickedUpTaskStaysEnded`, `WaitEnds`,
`WatchersAreServed`, `EveryTaskEnds`, `ScheduleGoesOn`,
`EveryRequestIsAnswered`), which is beyond the prover. Every invariant and every
action property of the passing runs, and both refinements (`ImplementsContract`,
`ImplementsLockContract`), are theorems; two of
them under an assumption on the faults that the run makes too: `EndIsAnnounced`
and `CASImplementsContract`.

## 5. Not modelled

- Inside the framework: throttled progress and payload writes, an inline caller
  that joins a task somebody else runs, revoking
  the Celery job and cancelling the orphan's warehouse query, redelivery of a
  Celery message (`task_acks_late` is off), a cancelling web process that dies
  between its read and its commit (which leaves the row as it was and the lock to
  expire, see `TaskLock`), a web process that dies while it runs a task inline
  (its row has no heartbeat: nothing ends it).
- In `TaskSubmission`: clients without a tab id, types without a policy, the
  admin's force flag (in `TaskLifecycle`), crashes of a web process.
- In `TaskGraph`: a worker that dies at the gate (its message is gone and the
  row has no heartbeat yet, as in `TaskLifecycle`), and what the
  threads of a running task do to each other (in `TaskLifecycle`). A worker that
  crashes is gone for good.
- In `ReportExecution`: deletion of a schedule during its run, working timeouts
  of zero, and what is listed under its abstractions.
- In `SemanticCache`: writes fenced by the script, which no installation makes,
  several buckets (they share nothing), the arithmetic of
  timeouts, and which query answers which.
- Outside: see the inventory. The rest of Superset (chart data, SQL parsing,
  security, import and export, the frontend) computes within one request; its
  correctness is not about interleavings, and its size is why the mapped lines
  are a small share of the repository.

## 6. Plan

1. *Done.* `TaskLifecycle` with its contract, `TaskLock` with its contract,
   `TaskSubmission`; proofs for the first two.
2. *Done.* `ReportExecution`, `TaskGraph`, `SemanticCache`; the first proofs for
   the latter two.
3. *Done.* The safety properties of `TaskSubmission`, `ReportExecution` and
   `SemanticCache`, the types of `TaskGraph`, the announcements of
   `TaskLifecycle`: no safety property that a run checks is left without a
   theorem.
4. *What is left.* A contract for `ReportExecution` as there is one for a task's
   status (a window is run by one owner after the other, and delivered by one of
   them), and its refinement; what remains of `QuiescentIsAnnounced` with
   outages.
