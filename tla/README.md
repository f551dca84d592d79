# Distributed query executor: verification project

TLA+ modules, TLC configurations and TLAPS proofs for the coordinator and the executors of
this repository.  Paths below are relative to `src/src/` unless they start with `docs/`
(which is `src/docs/`).

1. [The system](#1-the-system)
2. [Modules and how they correspond to the code](#2-modules-and-how-they-correspond-to-the-code)
3. [Runs, bounds, fairness](#3-runs-bounds-fairness)
4. [Proofs](#4-proofs)
5. [Disagreements between the code and its documents](#5-disagreements-between-the-code-and-its-documents)
6. [Plan](#6-plan)
7. [Not modelled](#7-not-modelled)

## 1. The system

A client posts a job, a SELECT over partitioned data, to a **coordinator**.  The coordinator
splits it into one task per group of partition values, and sends the tasks to **executors**
over HTTP; each of them reads its part from Impala (or Trino) and loads it into Greenplum.
The coordinator polls the executors and derives the job's final status.  Coordinators and
executors are FastAPI processes: "async" handlers and background coroutines share an event
loop, plain `def` handlers run in threads of a pool, and blocking drivers are called in
threads, too.  Nothing is locked unless said so below.

```
   client ──POST /jobs, /cancel, /retry──▶ coordinator ──POST/GET /tasks, /cancel──▶ executor
                                            │      ▲                                   │  ▲
                                            │      └── BundleSyncer ──prepare/commit───┼──┘
                                            ▼                                          ▼
                                        job store                          Impala ─▶ Greenplum
                              (memory, file, or PostgreSQL                        (or S3)
                               shared by several coordinators)
```

| Component | State | Operations | What makes it hard | What makes it correct |
|---|---|---|---|---|
| **Admission** of jobs: `JobAdmission` in `coordinator/dispatcher.py`, the create and retry handlers in `coordinator/app.py` | `_inflight`, `_running`, the asyncio semaphore with its waiters, the gate | `try_admit`, `release`, `slot`, `pause`, `resume`, `wait_idle`; idempotent creation | handlers run in threads and `run()` on the event loop; the gate closes while jobs wait for slots | slots, capacity and keys are respected; no unit leaks; nothing runs during a drained switch; nobody waits for ever |
| **Task dispatch**: `HttpDispatcher` | the task's status, executor and error; the loop's attempt and doubt | `_start_task`, retry, failover, `_poll_loop`, `cancel`, `finalize_job` | answers are lost or late; executors restart; a cancel crosses the start; versions change between attempts | at most one executor owns a task; failures are told as certain only when they are; a job ends; a cancel has the last word |
| **Executor tasks**: `executor/app.py` | the table of tasks, slots, the draining flag | create, get, cancel, run, prune, drain | create awaits between its test and its write; a restart forgets everything | one run per task and process; a repeated POST gets the task that is there |
| **Copy pipeline** and connection pool: `executor/backend.py` | a bounded queue, a stop event, `producer_err`; the pool's semaphore and idle connections | `move`, `_producer`, `_stream_pipelined`, `connection` | either thread may fail while the other one is blocked | a partition is committed wholly or not at all; no thread, slot or connection is left behind |
| **Job stores**: `coordinator/job_store.py` | jobs, in a dictionary, a file, or a table | save, claim, cancel flag, reconcile at start-up | the file is written from two kinds of thread; the table is shared by coordinators that hold copies | a finished job stays as it is; a cancel flag is not lost; no live job is failed |
| **High availability**: `coordinator/ha.py` | heartbeats, ownership of jobs | heartbeat, reconcile orphans | a query may fail; a heartbeat may be late | only jobs of dead coordinators are failed |
| **File synchronisation**: `coordinator/sync.py`, `executor/sync.py` | versions, staged trees, the `current` link, a cached version | observe, prepare, drain, commit, abort, catch up | commits fail on some executors; the drain times out; the cache is read unlocked | tasks of one job run one version; an executor that lags gets no tasks |
| **Staged loads**: `coordinator/stage.py`, `_run_stage_load`, `_run_s3_load` | files per executor, external tables | budget, export, barrier, load, clean up | a cancel races the load; an export ends in a status nobody looks for | loaded wholly or not at all; files are removed |
| **Splitting and selection**: `splitter.py`, `selector.py`, `monitor.py`, `reservation.py` | health snapshots, reservations | chunk, assign, reserve | snapshots are stale | every value in exactly one task; balanced load |
| **Dashboards**: `core/static/dashboard-common.js` and the pages' loaders | offset, total and filter of the history; the schema; labels, timers | load, page, search, switch tabs, copy, query, draw a timeline | answers overtake each other; a timer reloads while the user clicks | the page shows what was asked for last, with its own pager; it comes to rest |
| **Retention, history, templates, tools** | records | append, delete by age, render | little | no decision of the program depends on them |

How the parts meet: the handlers give an admitted job to `run()` on the event loop, which
saves it, waits for the gate and a slot, plans and dispatches its tasks, and finalises it;
`BundleSyncer` closes the gate and waits for the running jobs before it commits a version,
and every POST of a task carries the version, which the executor compares with its own;
`cancel_job` sets a flag in the store, which all loops of the job look at, and calls the
executors; a retry creates a new job out of the failed tasks of an old one; coordinators that
share a table send heartbeats to it and fail the jobs of those that stop doing so.  The
dashboards only read, apart from the console's queries.  PROJECT.json
lists every component with what is modelled of it, and every hazard at its line.

## 2. Modules and how they correspond to the code

### Admission and JobPromise

`Admission.tla` models the create and retry handlers from their validation to the 202, the
counters, semaphore and gate of `JobAdmission`, the way of the accepted job through `run()`,
and the last part of `BundleSyncer._transition` (pause, drain, commit, resume).

| Variable | Code |
|---|---|
| `pc[r]` | where request `r` stands: in its handler thread, then as a job on the event loop, then in `release()` |
| `reg[r]` | the value that `self._inflight += 1` or `-= 1` has loaded and not yet stored |
| `stored`, `answer` | the job store, and what the client was told |
| `inflight`, `running`, `value`, `waiters`, `gate` | `_inflight`, `_running`, `_sem._value`, `_sem._waiters`, `_gate` |
| `loop` | the job whose `release()` occupies the event loop; other coroutines do not run then, handler threads do |
| `phase`, `switches` | where `_transition` stands, and how many switches there were |

`Preemptible` chooses how an unlocked update behaves.  The deployment baseline is CPython
3.9, which may switch threads between any two bytecodes: an update is then three actions
(test, read, write).  Later versions switch at calls and backward jumps only, and the update
is one action.  The semaphore is asyncio's of these versions: `release()` increments the
value and wakes the first waiter, which tries again when it is resumed.  A job that gets a
slot after the gate was closed returns it and goes back to the gate.  One assumption stands
in `BeginSwitch`: between the `resume()` of a switch and the `pause()` of the next lie a
scan of the source tree in a thread and HTTP calls to every executor, and the event loop's
ready queue is first in first out, so the jobs woken by the first have moved on by then.

`JobPromise.tla` is what a client and an operator may rely on, without counters, queues and
wake-ups: every request is answered once; one that is accepted becomes a job, the only one with
its key, and the others are answered with the job that is there; a job runs once, never more than
the limit at a time, and none begins while a drained version is being switched.  `Promise` in
`Admission` reads the jobs that run, and those that have run, off `pc`.

### TaskDispatch and TaskPromise

`TaskDispatch.tla` models one task in `HttpDispatcher`, the cancel handler, the executors'
`create_task`, `get_task`, `cancel_task` and `_run`, and the job's final status.  Tasks of a
job meet only in the cancel flag and in the final status, so one task is enough for
everything but `PARTIAL`, which `Finalize` may choose.

A POST has a number; `net[n]` says whether it is still on its way, being checked, or gone,
`to[n]` and `body[n]` where it goes and the version it carries, and `run[n]` the `Task` it
created.  `table[e]` is the executor's dictionary for this task id.  The coordinator may give
up on a POST at any moment (`PostUnanswered`) while the POST stays under way, which is a lost
answer, a late one, and a late request in one.  A GET is answered from the table and its
answer may be processed much later.  `Crash` empties the table of an executor, loses its
runs, and lets a COMMIT under way take effect or not.  `Switch` and `CatchUp` change the
versions; a switch may miss executors.

| Action | Code |
|---|---|
| `Begin`, `NextCandidate`, `AttemptFails`, `GiveUpOn`, `Withdraw` | `_run_task`, `_dispatch_with_failover` |
| `Post`, `PostUnconnected`, `PostAnswered`, `PostUnanswered` | `_start_task` and the handling of its outcomes |
| `PollNext`, `PollAnswered`, `PollFails` | `_poll_loop` |
| `Breaks` | the `except Exception` of `_run_task`, for example after an answer that cannot be parsed |
| `CancelAsk`, `CancelFlag`, `CancelSend`, `CancelReturns` | `cancel_job` and `cancel`, split at their awaits |
| `PostArrives`, `PostChecked` | `create_task` before and after its await |
| `CancelArrives`, `OperatorCancels` | `cancel_task`, called by the coordinator or by hand |
| `RunStarts`, `RunLoads`, `RunFails`, `RunEnds` | `_run` |
| `Finalize` | `finalize_job` |

`RunFails` may follow `RunLoads`: a COMMIT that took effect and then raised, or a source that could not
be closed after it, is reported as FAILED.

`TaskPromise.tla` is what all this promises: at most one executor ever owns the task; it
loads the partition at most once in each life of its process; DONE is told only of a task
that has been loaded.  `Promise` in `TaskDispatch` is the refinement mapping: the owner is
the executor that has accepted the task, the number of lives counts the crashes, and the
outcome is the task's status once the coordinator has left its loops.

Left out: the dispatch semaphore and the reservations (they delay a task or order its
candidates; every order is tried), the pruning of finished tasks, shutdown of the
coordinator, and errors of the job store, which are the subject of `SharedStore`.

### CopyPipeline and LoadPromise

`CopyPipeline.tla` models `ImpalaToGreenplumBackend.move()` in copy mode: the connection
pool, the reader thread (`_producer`), and the writer, which is the task's own thread.  Every
call to the source or the database may fail.  The actions follow the code call by call;
`Test` and `Put` are separate because the stop event may be set between them; `Put` may time
out at a full queue.  A batch is its number, so that order, loss and duplication show.
The failures of `COMMIT` are in doubt: it may have taken effect; and closing the source, which comes
last, may fail after it.  Several tasks share the pool; `stage_and_insert` uses the same pipeline.

`LoadPromise.tla` is `move()` without threads, queue and COPY: a task borrows one of `PoolMax`
connections, its partition gets into the table in one step or not at all, the connection goes
back, and then the caller is told.  A task that was told "failed" may have been loaded (the COMMIT
in doubt), but nothing is loaded any more once its caller has been told.

### SharedStore and RowPromise

`SharedStore.tla` models coordinators that share a table of jobs (`SqlJobStore`): `run()` and
its saves, the cancel handler with its two writes, `reconcile_interrupted_jobs` at a start,
the periodic loop of `ha.py` (`beat`, `list_owned`, `fresh_ids`, `select_orphans`, the second
look, the save as FAILED), ended and restarted processes, failed writes and queries, late
heartbeats.  How a single task ends is the subject of `TaskDispatch`; here a job counts the
tasks that have ended (`over`), and ends in any status that fits.  The cancel handler marks those
tasks as over that have an executor, which may be any of them.

| Variable | Code |
|---|---|
| `row[j]` | the row of a job: `coordinator_id`, `cancel_requested`, and the snapshot in `data` |
| `mem[j]`, `pc[j]` | the `Job` that `run()` works with, and where it stands |
| `queue[c][j]` | the calls of `asave` that wait for the job's lock, in their order |
| `cancel` | the cancel handler that is at work, with the copy it read |
| `round[c]`, `suspects[c]`, `hand[c]` | the HA loop: what it has listed, what it has read again and is about to save |
| `stage[c]`, `fresh` | whether a process is down, starting or serving; whose heartbeat counts |
| `late`, `excused`, `abandoned` | history: what has gone wrong so far, for the properties |

A save writes the whole snapshot, whoever wrote the row before; `_upsert` leaves
`coordinator_id` as it was.  The properties name the situations in which the code lets a final
status be overwritten, instead of leaving those situations out: somebody asked for the job's
cancellation, a query for the living failed, another coordinator started (these jobs are
`excused`), or the job's own coordinator was not fresh while it served (`late`).  Outside them,
an ended job is over in its process and stays as it is.  `Settles` excepts the jobs that
nobody reconciles: those whose last save failed under a coordinator that lives, and those that
a start could not read (`abandoned`).

`RowPromise.tla` is what a client who polls a job may rely on, job by job: after it was accepted
the job is shown further and further on, never back; the final status comes with all of its tasks,
and before the run is over; nobody else touches the job while it runs; and where a run has died
without a last word, or lost it, somebody may declare it FAILED, once.  The promise does not bind a
job in one of the situations named above (`void`), and stays binding for all others.

### BundleSync

`BundleSync.tla` models one cycle of `BundleSyncer` after the other (observe, refresh, adopt,
transition, catch up), and the `BundleStore` of every executor.  A tree is known by its
version.  A call is a record in `calls` until an executor takes it up; `live` says whether
the coordinator still waits for it.  A call that was given up may be executed later, or never
(`GiveUp`); a process may end in the middle of one (`Crash`), and forgets what was staged.  A commit
may raise before it has replaced the link, or after (`CommitBreaks`).  A source that has changed since
its scan makes the building of a bundle fail, or, when files were only added, goes unnoticed.

| Variable | Code |
|---|---|
| `step`, `targets`, `queue`, `answer` | where `run_once` stands, and the round of calls it waits for |
| `manifest`, `sourceVersion`, `active`, `retrying` | the last scan and `_pending`, `source_version`, `active_version`, `_retry_at` |
| `record`, `reachable`, `waiting` | the `ExecutorSync` of each executor: `version`, `reachable`, `next_try` |
| `link`, `releases`, `staged`, `installing` | `.sync/current`, `.sync/releases`, `_staged`, the prepare that holds the lock |
| `edited` | releases whose files an operator has changed by hand |
| `skipped`, `astray`, `touched` | history: executors that a transition left out, that executed an abandoned call, or whose files were edited |

The first state is a synchronised system whose coordinator has just started.  Abstracted:
retry delays are a flag that may be cleared at any time, two equal late requests to one
executor are one, and a scan of the tree sees one version.  Left out: shared mode (nothing is
moved), the switch `enabled`, the cached version that the executor's task service compares
(`status` scans), and the drain, which is a step here and is modelled in `Admission`.

### Dashboard

`Dashboard.tla` models the page in the browser: `dashboard-common.js`, which both services serve,
and those loaders of the two pages that have state of their own.  JavaScript runs one callback at a
time, so an action is what happens between two awaits.  A load of the history is a record in a slot
of `histCalls`: sent with the offset and the filter of that moment, answered, drawn (the pager is
made with the offset of *that* moment), and shown after one more await.  The table is known by the
answer it was drawn from.  The API tab and the header's links share the schema `/openapi.json`,
which is kept; the coordinator's page draws its tab after one more await (`drawing`).  A label of a
copy button is restored by a timer.  `getJSON` does not look at the status of an answer: an error
whose body is JSON is taken for a schema without paths, which is kept for good (`SpecFails`), or for
a history that is switched off, which hides the filter bar (`HistFails`).  The timeline's bars are
computed as the code computes them, with its rounding.  The duration of a phase is recorded, and
then shown as it is, or read off the browser's clock, once for the scale of all bars and again for
its own bar; both kinds may be negative because two clocks differ.

Left out: formatting, the jobs tab's contents (drawn from one answer each time), probes of the
status tab, the coordinator's table of links to the executors (shown whatever the schema says), and
services without a history database, whose history tab is one sentence.

## 3. Runs, bounds, fairness

| Run | What it asks | Instance | Distinct states |
|---|---|---|---|
| `admission` | With updates of `_inflight` interruptible, do the gate and the keys still work? Is a free unit ever left beside a waiting job? Is the promise kept? `TypeOK`, `SwitchAlone`, `NoneStranded`, `KeepsPromise` | 3 requests, two with one key and different bodies; limits 0, 1, 2; 1 pending; 2 switches | 1,229,984 |
| `admission_atomic` | With uninterrupted updates, are counter and capacity exact, and does every accepted job finish? `InflightExact`, `CapacityBound`, `AcceptedFinishes` | 4 requests, two with one key; limits 0, 1; 2 pending; 1 switch | 74,900 |
| `admission_race` | Does the counter return to zero with interruptible updates? `NothingLeaks`: no | 3 requests without keys, limit 1 | – |
| `dispatch` | Is there one owner, does an error say what its kind allows to conclude, is a repeated POST never run twice in a process, is a partition of a DONE job loaded, is the promise kept? `TypeOK`, `OneOwner`, `HonestFailure`, `OneRunPerProcess`, `DoneIsLoaded`, `KeepsPromise` | 2 executors, 2 attempts each, 1 crash, a client's and operators' cancels | 973,698 |
| `dispatch_versions` | With file synchronisation: does every job end, does a cancel win, is a final status changed by a cancel only? `SettledOnce`, `Settles`, `CancelWins` | 1 executor, 2 attempts, 2 versions, 1 crash | 422,785 |
| `dispatch_retry` | Is a failed task never loaded? `FailedNotLoaded`: no | 2 executors, no crash | – |
| `dispatch_sync` | Is a repeated POST never run twice in a process, with synchronisation? `OneRunPerProcess`: no | synchronisation on, 2 attempts | – |
| `copy` | Is a partition loaded wholly or not at all, does nothing leak, does nobody wait for what cannot come, is the promise kept, does every task end? `TypeOK`, `AllOrNothing`, `ReaderGone`, `ConnectionBound`, `SlotsExact`, `NobodyStuck`, `KeepsPromise`, `Ends` | 2 tasks, 1 connection, queue of 2, up to 3 batches | 252,153 |
| `bundle` | Does the link stay whole, is a version that cannot run somewhere switched to nowhere, are the records true, do all come to the source's version? `TypeOK`, `LinkResolves`, `AllOrNothing`, `EligibleHonest`, `Converges` | 2 executors; 4 versions, one with an error, one that fails on one executor; 2 releases kept, 2 changes, 1 fault of any kind | 78,238 |
| `store` | Is an ended job over, does its status stay, do saves go forward, does a client see what was promised, does every job come to rest? `TypeOK`, `EndedMeansOver`, `FinalKept`, `NoRegress`, `KeepsPromise`, `Settles` | 2 coordinators, 1 job of 2 tasks, 1 cancel, 1 fault of any kind | 448,108 |
| `store_final` | Does a final status ever change? `FinalStays`: yes | as `store` | – |
| `dashboard` | Is each page of the history shown with the pager of its own answer, do the bars compare their phases, does the page come to rest? `TypeOK`, `PagerOfItsAnswer`, `BarsCompare`, `HistSettles`, `LabelReturns` | pages of 2 rows, 2 filters, 2 loads at a time, 3 inputs, 1 failed request or changed row; 7 phases to draw 2 from, recorded or running, negative, short, long | 512,526 |

**Why the bounds are enough to be interesting.** In `admission`, limit 1 and three requests give a
job in a slot, one waiting for it, and one at the gate; two switches let a job be woken by the first
and be late for the second; limit 0 is the code's other branch.  In `admission_atomic`, the capacity
(1 + 2) is reached and exceeded by a fourth request, and the key's loser gives its admission back
while others wait.  In `dispatch`, two attempts are the least for a doubt that is followed by a
definite answer, and two executors for a failover; one crash lets a POST be accepted twice.  The
number of POSTs is bounded by the code itself (`Sends`).  `dispatch_versions` has one executor,
since its questions are about repeated POSTs and versions rather than failover.  In `copy`, three
batches and the end mark overfill a queue of two, and the two tasks queue for one connection, reused
or new.  In `bundle`, two changes let a transition be overtaken by a revert, and two kept releases
let a prune meet a release that is staged; the fault may fall between any two steps.  In `store`,
the three ways of failing a job (its own end, a start, the periodic loop) meet the saves of a job
that goes on; two tasks make an older and a newer snapshot.  In `dashboard`, two loads overtake each
other, and three inputs are a search, a page and a tab; its running phases include one that is
negative at the first reading of the clock, and one that outgrows the scale between the two.  Two
faults at a time were looked at in larger runs that take longer than the ones kept here (millions of
states of `BundleSync` and of `SharedStore`), and the invariants are proved for any number.  Bounds
that are not the code's are constants named in the modules: `MaxSwitches`, `MaxVersion`,
`MaxCrashes`, `MaxBatches`, `MaxChanges`, `MaxCancels`, `MaxCalls`, `MaxClicks`, `MaxFaults`.  No
symmetry is used.

**Fairness.**  `Admission`: weak fairness of each handler thread, of each job on the event
loop, of `DrainEnds` (`drain_timeout_s`) and of `EndSwitch` (HTTP timeouts); a job in a slot
ends since its calls have timeouts and the polling has a limit.  Nothing makes a switch begin.
`TaskDispatch`: weak fairness of the coordinator's coroutines, all of whose calls have
timeouts, of the cancel handler once it has been called, and of every run, whose database
answers.  Messages need not arrive, and versions need not catch up.  `CopyPipeline`: weak
fairness of both threads of every task; the calls to the source and the database return.
In these three weak fairness is enough: no step is needed that others enable and disable
for ever.  `SharedStore`: weak fairness of every job's `run()`, of the cancel handler's writes, of
each queue of saves, and of each coordinator's start-up steps and HA loop (`Recovery`); the
heartbeat of a coordinator that is down gets old (`Expire`).  None need be started again, so it is
the living that bring the jobs of the dead to rest.  `BundleSync`: weak fairness
of the syncer's cycle, whose calls have timeouts, of each executor's threads and of its restart;
strong fairness of the three steps that a delay can put off and a later cycle makes possible
again (`BeginPrepare`, `AlreadyThere`, `BeginCatchUp`): the delays are finite, the cycle is
repeated.  `Dashboard`: weak fairness of every request and of the labels' timers; strong fairness
of the page's own timer, which the browser runs whenever the page is looked at, and which finds
no free slot only while loads are under way.

**Deadlock** is checked in every run.  `Admission`, `TaskDispatch` and `CopyPipeline` have an `Idle`
step for the states in which everything is over; in the other modules a loop or a timer always
goes on.  No other state may be without a successor.

Every property of a passing run has a mutant, a plausible mistake in the code (a dropped
re-check, a release too many, a counter that is not incremented, an event that is not set),
which stands beside the action it replaces and makes TLC find the property violated.

## 4. Proofs

`AdmissionProofs.tla`, `TaskDispatchProofs.tla`, `CopyProofs.tla`, `BundleSyncProofs.tla`,
`SharedStoreProofs.tla`, `RowProofs.tla` and `DashboardProofs.tla` hold theorems for every value of
the constants: any finite set of requests, executors, tasks, coordinators or jobs, any number of
attempts, versions, changes, crashes and other faults, any limits, pool, queue and page sizes.  They
rest on the named assumptions in the modules (sets are finite, sizes are naturals, some are
positive) and on the theorems about finite sets and sequences of the standard library.

| Theorem | Says | Argument |
|---|---|---|
| `AdmissionProofs!Types` | `Spec => []TypeOK` | `IInv` below |
| `AdmissionProofs!SlotsBounded` | `Spec => []SlotBound` | `IInv` |
| `AdmissionProofs!SwitchesAlone` | `Spec => []SwitchAlone` | `IInv` |
| `AdmissionProofs!KeysUnique` | `Spec => []OneJobPerKey` | inductive with the types |
| `AdmissionProofs!InflightIsExact`, `CapacityHolds` | with uninterrupted updates, `Spec => []InflightExact`, `Spec => []CapacityBound` | `CountInv` |
| `AdmissionProofs!NothingIsLeaked` | with uninterrupted updates, `Spec => []NothingLeaks`, which the other kind breaks | `CountInv` |
| `AdmissionProofs!NobodyStranded` | `Spec => []NoneStranded` | `WaitInv` |
| `AdmissionProofs!PromiseIsKept` | `Spec => KeepsPromise`, i.e. `Admission` implements `JobPromise`, with either kind of update | `IInv`, `AnswerInv` |
| `TaskDispatchProofs!Types` | `Spec => []TypeOK` | `IInv` of that module |
| `TaskDispatchProofs!OneOwnerHolds` | `Spec => []OneOwner` | `Targeted` |
| `TaskDispatchProofs!FailureIsHonest` | `Spec => []HonestFailure` | `Exhausted`, `Reported`, `Conflicted` |
| `TaskDispatchProofs!PromiseIsKept` | with synchronisation off, `Spec => KeepsPromise`, i.e. `TaskDispatch` implements `TaskPromise` | `IInv`, `Lives` |
| `TaskDispatchProofs!OneRunHolds` | with synchronisation off, `Spec => []OneRunPerProcess`, which it breaks when it is on | `Reported` |
| `TaskDispatchProofs!DoneHolds`, `SettledOnceHolds` | `Spec => []DoneIsLoaded`, `Spec => SettledOnce` | `CancelInv` |
| `CopyProofs!Types` | `Spec => []TypeOK` | `IInv` of that module |
| `CopyProofs!LoadsWhole` | `Spec => []AllOrNothing` | `TaskInv` |
| `CopyProofs!ReadersGone` | `Spec => []ReaderGone` | `TaskInv` |
| `CopyProofs!ConnectionsBounded`, `SlotsAreExact` | `Spec => []ConnectionBound`, `Spec => []SlotsExact` | `PoolInv` |
| `CopyProofs!NobodyIsStuck` | `Spec => []NobodyStuck` | `StopInv` |
| `CopyProofs!PromiseIsKept` | `Spec => KeepsPromise`, i.e. `CopyPipeline` implements `LoadPromise` | `TaskInv`, `PoolInv` |
| `BundleSyncProofs!Types` | `Spec => []TypeOK` | `Base` |
| `BundleSyncProofs!LinksResolve` | `Spec => []LinkResolves` | `Untouched` |
| `BundleSyncProofs!NothingHalfway` | `Spec => []AllOrNothing` | `Checked` |
| `BundleSyncProofs!RecordsHonest` | `Spec => []EligibleHonest` | `Believed` |
| `SharedStoreProofs!Types` | `Spec => []TypeOK` | `IInv` of that module |
| `SharedStoreProofs!EndedJobsAreOver` | `Spec => []EndedMeansOver` | `JobInv` |
| `SharedStoreProofs!FinalStatusKept`, `NoTaskRegresses` | `Spec => FinalKept`, `Spec => NoRegress` | `JobInv`, for steps |
| `RowProofs!PromiseIsKept` | `Spec => KeepsPromise`, i.e. `SharedStore` implements `RowPromise` | `JobInv`, `WordInv` |
| `DashboardProofs!Types`, `PagersFit` | `Spec => []TypeOK`, `Spec => []PagerOfItsAnswer` | `ServerOK`, `HistOK` |
| `DashboardProofs!RunningShown`, `LinksLead` | `Spec => []RunningIsTrue`, `Spec => []NoDeadLink` | `ConsoleOK`, `ApiOK` |
| `DashboardProofs!BarsCompareTheirPhases` | `Spec => []BarsCompare` | `TimelineOK` |

**Admission.**  `SlotBound` and `SwitchAlone` are not inductive.  `SlotInv` adds that
`running` counts the jobs in a slot, that the semaphore's value is what is left of the limit,
and that a job is in the queue of waiters once, exactly while its `pc` says so; without the
last part a wake-up could hit a job that runs.  `GateInv` adds that the gate is closed exactly
during a switch, that nothing runs in a drained one, and that with the gate closed no job is
between its wake-up at the gate and its slot.  That last conjunct is what makes the re-check
after the semaphore necessary and, in unlimited mode, unnecessary.  `CountInv`, for
uninterrupted updates only, ties `_inflight` to the set of requests that own an admission.
With it goes the leak of `admission_race`: when all is done nobody owns one, so the counter is
zero; the assumption `~Preemptible` is what makes the difference between the run and the theorem.

`WaitInv` is about the semaphore's wake-ups, which asyncio passes from hand to hand: a woken job may
find its unit taken by one that came later, or return it because the gate was closed meanwhile.
While somebody is queued there are at least as many woken jobs as the semaphore has units, so no
unit lies idle beside a job that waits (`NoneStranded`), also when a switch falls between the
wake-up and the job's next step.  For the promise, `AnswerInv` ties the store to the answers and to
who has become a job; every step of `Admission` is then a step of `JobPromise`, or none.  Liveness
(`AcceptedFinishes`) stays with TLC, but what it rests on is proved: nobody is ever forgotten.

**TaskDispatch.**  Call a POST live when it may be, or become, a run.  `Targeted` says that all
live POSTs go to one executor, `task.executor_url`; while candidates are tried, that it is the
head of the list, and only there while `ambiguous` is set.  So a candidate is left for the next
one only when nothing is live, which is the reason for the flag.  A POST that is under way is
live whatever the coordinator thinks of it: this is what makes the invariant survive lost and
late answers.  `Exhausted` adds that a task is failed as declined by all only then, `Reported`
that, with no crash and no synchronisation, an executor's table shows every run it has started, so that
a reported failure means that the run is over.  `Conflicted` says that a 409 comes only from an executor
that has accepted the task before, with another version.
The types need `Counted`: the POSTs sent, and the attempts left for the candidates left, are
together within `Cardinality(Executors) * (Retries + 1)`; and `Tabled`, that a table shows only
runs of this life, because a GET returns what it finds there.  For the promise, `Lives` counts:
without synchronisation there are at most as many runs as crashes, and one more if the table
shows the task.  A step of the protocol is then a `Take`, `Load`, `Die` or `Tell` of the promise,
or none.  The proofs look at an executor's step as one of five kinds (`OtherSteps`).

`CancelInv` follows a cancel from the client or an operator to what the job's status tells: no
request to an executor without the flag, no cancelled run that nobody asked for, and a job that is
finished before `finalize_job` has run only by the cancel handler.  It gives `SettledOnce`: after
the first final status there is one more change at most, to CANCELLED, although `finalize_job` and
the handler write the status in either order.  And it gives `DoneIsLoaded`: a job is DONE without
its partition only if an operator has cancelled the task at its executor (section 5).

**CopyPipeline.**  `AllOrNothing` needs to know where each batch is.  `Flows` says that while
the streaming goes well, the transaction, the writer's hand, the queue and the reader's hand
hold the batches 1, 2, 3, ... one after the other, and that the end mark comes last and, if
the reader has no error, after the whole source.  `Complete` carries this past the end mark
to COMMIT, `Stored` says that the table is not touched before.  A step of one task leaves the
others' invariants alone (`Others`, `OthersKeep`), so each action is looked at for its own task.
`PoolInv` relates the semaphore, the idle connections and the tasks' places: idle connections
together with the tasks that have one or are about to open one are at most `PoolMax`, which is
why a task that holds a slot and finds no idle connection may open one.

`StopInv` says that the writer streams only with a reader, and joins it only after it has set the
stop event.  With `Flows`, which knows when the end mark is still to come, nobody waits for what
cannot come: `NobodyStuck`, the safety half of `Ends`.  For the promise, each step of a writer is
looked at for what the caller sees: the table changes in COMMIT only, and there from nothing to all
batches, because of `Complete`; a slot of the pool is a right to borrow, because of `PoolInv`; and
a reader's step is never seen.

**BundleSync.**  The invariant has four layers, each proved with the ones before it.  `Base` is
the types and who waits for whom: a call that the coordinator still waits for belongs to the
current round, so there is at most one for each executor, and a prepare that holds an executor's
lock installs a known version.  `Untouched` says that on an executor whose files nobody edited the
link, and what is staged, are among the releases: an abandoned commit may come at any later time,
and finds either its release or nothing.  That is `LinkResolves`.  `Checked` follows a version from
the import check to the link: what is released, staged or linked has passed the check on its
executor, and what is active, recorded, told or being committed has passed it on *every* executor
but those that a transition left out, since a transition goes on to its commits with all votes
only (`Voted`).  That is `AllOrNothing`; the exception of the skipped executors is the price of
leaving the unreachable ones out.  `Believed` ties the coordinator's record of an executor to its
link: true unless a step under way can make it false, in which case the executor is not eligible.
It excepts the executors on which a late call has been executed (`astray`).

**SharedStore.** `JobInv` is about one stored job outside the excepted situations (`excused`, which
a cancellation is, too, and `late`).  `QueueInv`: the snapshots that wait in the queue of the job's
coordinator go forward, one after the other, from the row's to the job's own, and nobody else's
wait, which is what `NoRegress` needs and what the job's lock is for.  `LoopInv`: how far `run()`
has come fits the job in memory.  `FinalFits`: when the row is final, `run()` has made its last
save, or its process has ended, and no save of its own waits.  `HandsFit`: what the HA loop is about
to fail has no process any more. `OwnerBeats` says that the coordinator of a job that is alive is
fresh, or has been late; it is what makes the loop's choice of orphans right, since it lists the
jobs before it asks who is fresh. A final status could be overwritten by a save that waits, which
`FinalFits` excludes, or by what the HA loop has in its hands, which is FAILED where the row is.

`WordInv` (in `RowProofs`) compares what is said of a job in its three places.  While the loop is
alive its own copy has the status that goes with where it stands, all that waits in the queue says
the same, and the row is not ahead; nobody has set the cancel flag in any of them.  A final row tells
of all tasks, and when the loop has nothing left to save, the row is final or the last save has
failed (`LastWord`).  So a write is a `Tell` of `RowPromise`, a return comes after the last word, and
what the HA loop saves is a `Declare` after the run has gone, or says again what the row says.
Jobs share no state, so each action is looked at for its own job (`OtherFine`).

**Dashboard.**  `HistOK` says that a pager that has been drawn but not yet shown fits the answer of
its own load: the total is read in the same callback that draws it, which is why a load that
overtakes another cannot lend it its total.  `ApiOK` says that the schema that is kept, or waits to be
drawn, has no path that the server lacks, `ConsoleOK` that "running" is shown just while a query is
under way.  For `BarsCompare` the rounding is looked at: `ScaleIsMax` says that the scale is the
longest duration at the first reading, or 1, `Readings` how the second reading compares with it, and
`Widths` that the widths are ordered as the durations are and that the scale's own is 100.  So a
recorded phase stays within its track, and fills it if no phase is longer, while the bar of a running
one may exceed it.  Only a running phase's negative duration is not shown.  The timeline has two
phases, of any lengths and readings.

Every invariant was checked by TLC on the small instances before it was proved.  Four of them are
theorems only and in no run's list: `SlotBound` and `OneJobPerKey`, which `JobPromise` contains
(its `Start` and `Accept`), so that the run checks them through `KeepsPromise`; and the two plain ones
of the dashboard, `RunningIsTrue` and `NoDeadLink`.

Only model-checked: everything about liveness (`AcceptedFinishes`, both `Settles`, `CancelWins`,
`Ends`, `Converges`, `HistSettles`, `LabelReturns`), since fairness rests on ENABLED, which the
prover does not handle.  Every invariant and every action property that a run checks is proved; so
is each of the four refinements.

## 5. Disagreements between the code and its documents

- **A unit of capacity can leak** (`admission_race`).  The class docstring of `JobAdmission`
  says its counter changes on the event loop only; the handlers that call `try_admit` are plain
  `def` endpoints and run in threads.  Under CPython 3.9 an update can be lost, and the
  coordinator counts a job for ever that does not exist.
- **A failed task may have been loaded** (`dispatch_retry`).  The retry handler argues that a
  failed copy task has committed nothing.  A task also fails when its start or its polling stays
  unanswered, or when an error nobody expected ends its polling (`Breaks`), and its executor then goes
  on to commit; the message of the last kind does not even ask for a check of the remote state, nor
  does that of a conflict.  A failure that the executor has reported may hide a load, too, when COMMIT took
  effect and then raised.  `HonestFailure` is the part that does hold: for each kind of error, what
  may be concluded from it.
- **A repeated POST may run twice** (`dispatch_sync`).  With file synchronisation on,
  `create_task` awaits the version between looking the task up and storing it.
- **A final status can change** (`store_final`).  The user guide (`docs/USER.md:366-369`) says of
  the four final statuses that polling may stop, since they do not change any more.  At its start a
  coordinator fails every unfinished job of the table (`app.py:612`), also those that another one is
  running; the next save of that one writes its own snapshot over FAILED.  In the same way
  the owner's save overwrites CANCELLED when the cancel came through another coordinator.
  `FinalKept` is the part that does hold.

These were met while modelling, and no run is about them:

- **DONE may leave a partition out.**  A task cancelled at its executor by an operator is neither
  FAILED nor loaded, and `finalize_job` (`dispatcher.py:114`) looks for FAILED only; the user
  guide (`docs/USER.md:367`) says that DONE means all tasks are done.  `DoneIsLoaded` names this
  exception, and says that there is no other.
- **The heartbeat has the wrong period.**  `heartbeat_interval_s` is shown on a page and used
  nowhere else.  `_ha_loop` beats once per `orphan_reconcile_interval_s`, by default 30 s, and a
  heartbeat counts for `coordinator_stale_s`, by default 30 s, too: it is late in every round.  `docs/PERFORMANCE.md:121-122`
  and `docs/OPERATOR.md:1107` describe the other setting.  In `SharedStore` a
  late heartbeat is therefore an ordinary step (`Expire`).
- **The prepare of the current version may remove it.**  When an operator has edited the files of the
  current release, its version differs from its name, and `prepare` (`executor/sync.py:220-222`)
  removes the directory to install it anew, while the link points to it.  The docstring
  (`executor/sync.py:205`) says that the current version is not changed.  `LinkResolves` leaves
  these executors out.
- **Ownership is not taken over.**  `ha.py:8-9` says that a job is stamped again by the coordinator
  that takes it; `_upsert` never updates `coordinator_id`.
- **A cancel flag can be lost.**  `save` (`job_store.py:317`) writes the owner's copy of
  `cancel_requested` over the flag that another coordinator has set; `docs/DESIGN.md:319` says that
  the owner notices it in its polling.

## 6. Plan

In this order, the most important behaviour first:

1. `Admission`, `TaskDispatch` with `TaskPromise`, `CopyPipeline`, and the theorems about
   them: done.
2. `SharedStore`, coordinators over one table, and its theorems: done.  That an ended job stays as it
   is became two properties, `EndedMeansOver` and `FinalKept`, with named exceptions.
3. `BundleSync`, the syncer and the executors' stores, and its theorems: done.  The gate, the
   drain and the commit under running jobs stay in `Admission`, since they share no other state.
4. `Dashboard`, the script that both services serve, and its theorems: done.
5. The promises of `Admission`, `CopyPipeline` and `SharedStore` to their clients (`JobPromise`,
   `LoadPromise`, `RowPromise`), and that they are kept: done.
6. Next: a promise for `BundleSync`, in which a version is offered, checked everywhere and then in
   force, without calls, staging and records; and one for the history tab of `Dashboard`.

What could follow, with less to gain: the executors' slots, their drain at SIGTERM and the pruning
of finished tasks against repeated POSTs (`ExecutorTasks`); the cached version of `BundleStore`
against a scan that ends late; the writers of the file store; `plan_file_budget`, `_chunk` and
`assign` as functions against their definitions.

## 7. Not modelled

- **Staged loads.**  Between the exports and the load stands one test of the exports' statuses
  (`_run_stage_load`); before it the tasks follow the protocol of `TaskDispatch`, after it the code
  assembles SQL and calls the database once.  An export cancelled at its executor passes the
  test, for the same reason as above.
- **Executor tasks** beyond the protocol: the slot semaphore and the drain delay runs, which
  `RunStarts` may do for any time; pruning removes tasks that have ended long ago, and a repeated
  POST comes within the retries of one start.
- **Splitting and selection.**  The parser is a library; the splitter and the selector are
  sequential text processing and sorting, and `TaskDispatch` takes every order of candidates.
- **`LocalDispatcher`**, an in-process stand-in for development, and the **file store**, which is
  for a single coordinator in development.
- **Retention and history** append records and delete them by age; no decision reads them.
- **Shared mode** of the file synchronisation, in which nothing is moved, and the executor's cached
  version.
- **Configuration, logging, metrics, templates, the text interface, query shells, the load
  generator, the directory copy script**: input, output and presentation, or programs beside the
  services.
- **Vendored scripts.**  `core/static/redoc.standalone.js` and `core/static/swagger-ui-bundle.js` are
  minified bundles of other projects, served as they are.  The program itself is written in
  Python; the only JavaScript of its own is the dashboards' script, which is modelled in `Dashboard`
  except for its formatting.
