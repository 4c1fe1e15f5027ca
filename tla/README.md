# homelab-vm-provisioner: a TLA+ verification development

The provisioner runs jobs on virtual machines. An API puts jobs into a
PostgreSQL table behind a database microservice; worker daemons claim them,
lock the resources they touch, execute them with the provisioner CLI and write
the outcome back. Everything that is hard about it lies between the workers
and the tables: threads of several workers compete for the same rows through
HTTP calls that may fail on one side and succeed on the other.

This directory holds TLA+ models of that core, TLC configurations that check
them on small instances, and theorems that TLAPS proves for any number of jobs,
workers, threads and keys. `PROJECT.json` lists every run, theorem, hazard and
the source lines each definition stands for.

Paths below are relative to the repository; `db` is
`homelab-vm-provisioner-db`, `worker` is `homelab-vm-provisioner-worker`.

## The system

| part | source | state | operations |
|---|---|---|---|
| job table | `db/src/repository.js`, `db/migrations/001_initial_schema.sql` | a row per job: status, claimed_by, attempts | enqueue, claim, mark running, mark succeeded, mark failed (retry or give up), cancel |
| resource lock table | same | a row per locked key: job, worker, expires_at | acquire all keys or none, release by job and worker, clean up |
| resource keys | `worker/hlvmp_worker/executor.py` | none | which keys a job needs, sorted |
| job processing | `worker/hlvmp_worker/worker.py` (`_process_job`), `db_client.py` | the threads of the pool | acquire, mark running, execute, persist, mark succeeded or failed, release |
| worker main loop | `worker.py` (`run`), `config.py` | futures, active_jobs, wake event, shutdown flag | claim while a slot is free, poll or wait for a wake, refresh, shut down |
| executor operations | `executor.py` | machines, disks, snapshots (in the provisioner CLI) | provision with clean-up, destroy, clone, start, stop, reconcile, snapshots, logs |
| runtime state cache | `executor.py`, `worker.py`, `repository.js` | a row per machine, snapshot records | refresh in the background, write after a job, delete |
| log collection | `executor.py`, `repository.js` | log rows | read, truncate to 1 MB, store |
| wake and health socket | `worker/hlvmp_worker/socket_server.py` | socket, thread | wake, health, stop |
| job events, users, networks, definitions | `repository.js`, `server.js` | rows | single statements |
| proxy | `homelab-vm-provisioner-proxy/src/server.js` | none | forwards requests |
| API, client, provisioner CLI | submodules, empty in this repository | | |

They interact in three ways. The API and the workers share the **tables** and
reach them by HTTP, so each request is atomic at most by itself. The threads of
one worker share the **worker id**: the tables cannot tell them apart. The
background refresh shares the **state cache** with the jobs and takes no lock.

What is hard about the parts, and what would make each of them correct:

* *Job table.* A claim does not change the status; a failure re-queues. Correct
  if a job is executed by the one that the row names, fails only after it was
  tried, is tried at most `max_attempts` times, and is settled once.
* *Resource locks.* A lease with a fixed life in a table that forgets nothing
  by itself. Correct if grants are whole, nobody loses a live row to somebody
  else, acquires do not deadlock, and no row outlives its use.
* *Job processing.* Ten places where a call can fail. Correct if jobs that need
  the same key never overlap, and every job reaches a final status.
* *Main loop.* Three kinds of threads, one wake event, and signals at any
  moment. Correct if it never claims more than it can run, makes a claim after
  every wake, reports a truthful health, starves no job, and stops when told to.
* *Socket.* A file that outlives its process. Correct if a running server can
  be reached, whatever an earlier worker left at the path.
* *Executor operations.* Correct if a job that is retried does not destroy what
  its first attempt achieved.
* *Runtime state cache.* Correct if an older observation that overwrites what a
  job stored does not stay, and if snapshots and their records go together.
* *Log collection.* Two programs check the same limit, on a log that grows.
  Correct if what is sent is accepted, is the most that fits, and if a log that
  cannot be stored ends the job.

## Modules

```
JobDomain          the identifiers: jobs, workers
  JobTable         the jobs table and its statements
  ResourceLocks    the resource_locks table, one step per request
    JobProcessing  the threads of the workers over both tables
      MCJobProcessing, JobProcessingProofs, JobOutcomeProofs, JobServiceProofs
JobService         abstract: what tables and workers promise of a job, and its
                   invariant, proved; JobProcessing and MachineJobs implement it
  LockService      abstract: what the lock table promises
  LockTransactions the resource_locks table, one step per SQL statement
      MCLockTransactions, LockTransactionsProofs
ResourceKeys       the keys of a job
  MachineJobs      what the jobs do to machines, snapshots and the state cache
      MCMachineJobs, MachineJobsProofs
WorkerLoop         the main thread of a worker, its pool and its socket
      MCWorkerLoop, WorkerLoopProofs
LogCollection      the collection of a log and its row
      MCLogCollection, LogCollectionProofs
```

**JobTable.** `jobs[j]` has the columns that any condition reads. A claim is two
steps, `ClaimSelect` (SELECT ... FOR UPDATE SKIP LOCKED) and `ClaimCommit`,
because the row lock is held between them; `claiming[w]` is that lock, and all
other UPDATEs wait for it (`RowUnlocked`). A claim that its worker has given up,
after 10 s or by its death, may stay open beside the worker's next one:
`abandoned[w]` are the rows of such claims. `markJobFailed` reads the row without
locking it and writes it later: `MarkFailed` takes the attempts that were read
as an argument. `max_attempts` is one constant for all jobs.

**ResourceLocks.** `locks[k]` is the row of key `k`, and its remaining life in
ticks. A row without life is still there until an acquire of its key or a
clean-up deletes it.

**JobProcessing.** A slot is a thread of a worker's pool; `pc[s]` is the call it
is blocked in, and the step that leaves it is the service executing the call
and the thread going on. `Timeout` is a call that fails under the thread (the
client gives up after 10 s, or gets an error): the thread does what its
exception handler does (`GiveUp`), and the request is lost or stays in `late`,
from where `Land` executes it at any later time. `Crash` kills a worker with all
its threads, `Start` starts it again, knowing nothing. `overran` and `strayed`
are history variables: the jobs whose lease ran out while it was in use, and
the jobs a late mark request has written.

| model | code |
|---|---|
| `Enqueue`, `Cancel` | `POST /jobs`, `POST /jobs/:id/cancel` |
| `ClaimStart`, `ClaimDeliver`, `ClaimRollback` | the claim in `run` with its transaction, and its two outcomes |
| `ClaimLate`, `ClaimUnheard` | a claim the worker has given up, and its end, which nobody hears of |
| `Acquire`, `AcquireRefused` | `_process_job`, the block before `try` |
| `Run`, `RunRejected` | `mark_job_running` and its error |
| `Execute` | `execute_job` and the persistence of its result |
| `Succeed`, `ReadAttempts`, `Fail`, `Release` | the remaining calls, `mark_job_failed` in its two statements |
| `Timeout`, `Land*` | `DatabaseClient._request` failing; the request arriving all the same |

**LockService** says what the table promises, in four actions: a grant of all
the keys of a job, none of which belonged to anybody; an owner giving rows
back; dead rows disappearing; time passing. **LockTransactions** is the same
table as concurrent transactions at READ COMMITTED: `rows` is committed,
`writer` and `draft` are the uncommitted change of a key, `txn[t]` is how far a
transaction has come. `NOW()` is the time of BEGIN. An INSERT waits for the
transaction that has an undecided change of the key; a DELETE works on the rows
it saw when it began, in any order, and passes over those that have gone
(`Passed`). PostgreSQL's part is external code, modelled from how the
repository uses it.

**JobService** says what tables and workers together promise of a job to the one
who has enqueued it: one thread at a time executes it, at most `max_attempts`
times, not beside another job that needs one of its keys, and only that thread
ends the execution. Claims, locks, requests and the calls of a thread have
disappeared. It has two implementations. JobProcessing is the one that works for
it: status and attempts are the row's (`StatusOf`, `TriesOf`), the executors of
a job are the threads past mark running whose worker the running row names
(`ExecutorsOf`). Jobs whose lease ran out or whose row a late request has
written are `Lost`: they look the same whatever happens to them. MachineJobs is
the one that relies on it: the same promise, seen from inside the handlers, with
the keys that ResourceKeys gives a job. `Vanish` is a crash, or a
`mark_job_failed` that failed. `SendBack` is the action one would not expect in
a promise: a thread that was not allowed to start the job marks it failed, be it
queued, cancelled, orphaned or settled (see `resettled` below). What the
refinement shows of it is that it never ends somebody's execution, and fails a
job for good only when no attempt is left. `Promise` says what all this comes to
as an invariant, and `PromiseKept` proves it of whoever implements the module.

**ResourceKeys** is `get_resource_locks`. Only the reconciliation of networks
needs more than one key. `MCLockTransactions` takes its keys from it;
JobProcessing is checked with one key, and proved for any.

**MachineJobs** is the other side of `Execute`: `JobExecutor`, the persistence
of its results, and the background refresh. A handler is the list of calls it
makes to the provisioner and the service (`Handler`); `todo[j]` is what is left
of it. A call does its work (`Work`), is refused because of what it finds
(`Refuse`, `Refusable`), or breaks, its work done, half done or not done
(`Break`); an exception then leads where the code's exception handlers lead
(`Raise`): within the `try` of the two makers to the clean-up, which destroys
the machine, otherwise to `mark_job_failed` (`Settle`), which queues the job
again or gives up.

| model | code |
|---|---|
| `Enqueue`, `DeleteDefinition` | `upsertVmDefinitionAndEnqueueJob` or `POST /jobs`; `deleteVmDefinition` with its cascade |
| `Cancel` | `POST /jobs/:id/cancel` |
| `Start`, `StartCancelled` | claim, locks and `mark_job_running` in one step, no other job in progress having a key of it (`Locked`); the second one of a job cancelled after its claim |
| `Find` | `_load_vm_definition`, `get_vm_snapshot`: not found is not retriable |
| `Make` ... `Reconcile` | the calls of `service_mode` |
| `StoreState` ... `DropRecord`, `Succeed` | the rest of `_process_job` |
| `CleanUp`, `CleanUpFails` | the `except` blocks of provision and clone |
| `Vanish` | the worker is killed in the middle of a call, or `mark_job_failed` fails: the job stays running without a thread |
| `SendBack` | a thread that could not start the job marks it failed: a queued, cancelled, orphaned or settled job is queued again, or fails |
| `RefreshList` ... `RefreshEnd` | `_refresh_runtime_state_caches` |

The provisioner is external. Where the repository does not show what it does,
both outcomes are allowed: an operation on a machine that is (or is not) there
may be refused or not, a make that breaks may leave a machine, a destroy may or
may not take the snapshots along. What is assumed of it is written in the
guards: starting, restoring and taking a snapshot need a machine, cloning needs
a source, and snapshot ids are new. The machine a job locks (`targetVmId`) and the
one its handler works on (`vmName` in the payload) are the same in the model: both
are written by the API, whose source is not here. That jobs are executed one at a time on
their keys, and what may otherwise happen to a row between two executions, is
what JobService allows: `JobsServed` of MachineJobs, together with `JobsServed`
of JobProcessing, which the workers establish for jobs that keep their lease.
The history variables `leftBehind` and `unrecorded` are the exceptions the code
accepts: failures after the handler has returned, failed clean-ups, threads that
died, jobs sent back after they had succeeded, and snapshots whose record was
not written.

**WorkerLoop** is `WorkerDaemon.run` as a thread among others. `main` is where
the main thread is; `phase[f]` is how far the call of `_process_job` behind
future `f` has come. Of the tables it keeps only what the loop can tell apart:
`queue`, the queued jobs; `locked`, those of them whose rows an open transaction
of somebody else has locked, so that a claim passes over them (`SKIP LOCKED`) and
an UPDATE waits; and `elsewhere`, the keys that others have locked; what the calls do to the tables is JobProcessing's. `threading.Event`
is a flag and a lock that is not reentrant: `EventLocked` are the places where
the main thread holds the lock, so `Signal`, whose handler runs in the main
thread and calls `set()`, leads to `stuck` there. The socket is `thread` (the
server) and `file` (what is behind the path: nothing, a dead worker's file, this
worker's socket, or another one's). History variables: `woken`, the jobs queued
at the last wake; `passedOver`, the queued jobs which the last claim made since
could not see; `left` and `shared`, the jobs of which `active_jobs` is known
to be wrong; `overlapped`, that another worker used the path.

| model | code |
|---|---|
| `UnlinkStale`, `Bind` | `SocketServer.start`, and the `except` of `run` that goes on without |
| `Loop` | the list of futures is cleaned, `available_slots > 0` decides |
| `Claim` | `claimNextJobForHost`: the oldest queued job whose row is not locked (`Visible`), or none |
| `ClaimFails`, `ClaimMisread` | the call fails, and its transaction may stay open (`ClaimGoesOn`); an error with 404 in its text is an answer without a job |
| `NothingClaimed`, `Submit` | what the loop does with an answer |
| `RowLocked`, `RowFreed` | another worker's claim or `mark_job_failed` locks the row of a queued job; its end |
| `EnterWait`, `EndWait`, `Clear` | `wake_event.wait(timeout)` and `clear()`, after each of the three reasons to wait |
| `Drained`, `DrainTimesOut`, `StopServer`, `Exit` | the `finally` clause: `as_completed(timeout=300)`, the stop of the server, the end of the pool's `with` block |
| `Acquire`, `Return`, `Execute`, `Finish` | `_process_job`: the locks and mark running; the returns before `try`; the work; the `finally` clause |
| `Wake`, `Signal`, `OtherStarts`, `OtherStops` | clients of the socket, signals, another worker on the same path |
| `Crash`, `Launch` | the process is killed, its locks, acquires and claim outlive it; it is started again |

**LogCollection** is `_execute_collect_vm_logs` with the service's side. A log
is the sequence of the offsets at which its lines end, so that the size of any
part of it is a difference of two numbers, without a recursive sum. `Read`
reads the file at one moment and selects the lines, the last `lines` of them
(`FirstWanted`; as the code slices, a negative number leaves out so many at the
beginning, and 0 none); `Truncate` is one round of the loop over the reversed lines; `Store`, `StoreRefused` and `StoreFails` are
the answers to the request, which may be lost or wait in `late` until `Land`.
`Write` and `Rotate` change the file at any time.

## What the runs check

Passing runs:

| run | instance | shows |
|---|---|---|
| `contention` | 2 workers, 1 thread each, 2 jobs, same key, 1 attempt, life 2, no faults | `NoLeak`: a live row always has a thread that counts on it. `NoOrphan`: a running job always has a thread that will settle it. `AttemptsBounded`, `FailedWasTried`: losing a claim or a lock to another worker neither uses up attempts nor fails a job. `JobsServed`, the refinement to JobService: of two jobs with a common key one is executed at a time |
| `faults` | 2 workers, 1 job, 2 attempts, 1 failed call, 1 crash with restart | `Serialized` with its inductive invariant `LeaseInv`; `ExecutionOwnership` with `ClaimsQueued`; `LocksServed`, the refinement to LockService; `JobsServed`, the one to JobService |
| `one_slot` | 1 worker, 1 thread, 2 jobs, 2 attempts, 1 failed call, fair | `JobSettles`: a queued job ends, or is left running by a thread that could not report. `SettledStays`: nothing is settled twice |
| `lock_statements` | 3 connections, 2 jobs that need the same 2 keys, clock to 3 | `Promise`, the refinement to LockService; `WaitsGoUp`, acquires cannot deadlock; `StatementInv`, the inductive invariant |
| `machines` | 2 machines, 2 jobs of any type, 2 attempts each, 1 call that breaks, thread that dies or race that is lost, anywhere | `MachinesHaveMakers`: a failed provision or clone leaves no machine. `MachinesStay`: nothing that fails harms a machine but its own job's, the source of a clone least of all. `RecordsOutlive`, `SnapshotsRecorded`: a record does not go before its snapshot, a snapshot without a record has somebody who will write it. `MachineInv`, their inductive strengthening. `JobsServed`, the refinement to JobService |
| `cache` | 2 machines, 2 jobs of any type, 1 definition deleted, refresh without end, fair | `CacheConverges`: in the end the row of every existing, defined machine is right |
| `worker_loop` | 1 worker, 2 threads, 2 jobs, one behind a key locked elsewhere at first, any signals and wakes, 1 mishap, fair | `WakesHeard`: every wake is followed by a claim; when the loop sleeps for want of a job, one that a wake has told of is queued only if that claim could not see it (its row was locked, or its error was read as "no job"). `NeverOvercommitted`: a claimed job starts at once. `HealthCounts`: `active_jobs` is the jobs in process, with two exceptions. `SocketReachable`: a server that runs is behind its path. `EndsGracefully`: a worker that ends by itself has finished its jobs. `ShutdownEnds`: and it does end, unless the signal met the event's lock. `QueueDrains`: no job starves behind an older one that is blocked, nor one that a claim could not see |
| `log_collection` | limit 3 bytes, lines of 1, 2 and 4, the last 1, 3 or (0) all lines of up to 3, or (-1) all but the first, 2 attempts, 1 failed read or call, fair | `LongestEnd` with `TruncationInv`: what is sent is the longest end that fits. `RefusedOnlyForNothing`: a refusal means that no line was wanted, or that the last one is too large by itself. `RowSound`: the row fits and counts its lines, late requests included. `CollectionEnds` |

Runs that end in a violation show where the code differs from what the
repository says of it:

| run | says | the code |
|---|---|---|
| `cancelled_runs` | "succeeded, failed, cancelled: Terminal states" (`db/README.md`) | `markJobRunning` asks for `claimed_by` only, which a cancellation leaves in place; one worker with one thread is enough |
| `resettled` | "succeeded, failed, cancelled: Terminal states", "safely claim jobs without race conditions" (`db/README.md`) | the claim leaves the status `queued` and does not look at `claimed_by`, so two workers get the same job; when the first has succeeded, the second one's mark running is rejected and its exception handler marks the job failed, which `markJobFailed` does whatever the row says |
| `lease_expiry` | "Jobs requiring the same locks are serialized" (`worker/README.md`) | the life of a lock is 5 minutes and nothing renews it |
| `signal` | "Graceful shutdown (waits for active jobs to complete)" (`worker/README.md`) | the handler's `wake_event.set()` waits for ever for the event's lock when the signal finds the main thread inside `wait()` or `clear()`; a second signal does not help |

Three more differences have no run of their own:

* "Maximum allowed attempts before giving up" (`001_initial_schema.sql`): two
  threads of one worker that have claimed the same job both pass `claimed_by =
  $2`, so the second executes it once more after the first has succeeded. It is
  the claim of `resettled` with a shared worker id, and the reason why
  `AttemptsBoundedCorrect` and `JobsServedCorrect` assume one thread per worker.
* "Timestamp when the runtime state was last observed"
  (`004_runtime_observation_metadata.sql`): `observed_at` is the time of the
  write; the refresh observes all machines first and writes the rows later, over
  newer ones.
* "Lock firewall during network reconciliation" (`worker/README.md`): provision,
  clone and restore reconcile with the lock of their machine only.

These differences explain the shape of the properties the passing runs check:
`Serialized` speaks of jobs that have not outlived their lease, and
`ExecutionOwnership` also leaves out jobs hit by a late mark request.
`SettledStays` is checked with a single worker, and JobService has its
`SendBack`. The main loop's `ShutdownEnds` counts a worker that is stuck in its
handler as ended. Because of `observed_at`, the cache is checked for what it
converges to and not for what it says at any time. `MachinesStay` is silent
about a machine whose own maker runs again: a provision whose result could not
be stored is retried, its second attempt is refused because of the machine that
is there, and its clean-up destroys that machine, so that the job fails and
leaves nothing.

### Bounds

`MaxFaults` and `MaxCrashes` bound failed calls and killed workers, `MaxTime`
the clock of LockTransactions; all are guards. Attempts are bounded by nothing
but `MaxAttempts`, and the lives of locks by `TTL`. Two actors are enough for
every race here: a late request plays a third. One failed call suffices for a
request that lands at the worst moment, since it may wait arbitrarily long.
`faults` allows two attempts, for a retry to meet what the first attempt has
left behind; its workers are exchanged together with their threads. Two jobs on
one key are needed for contention, and one for everything else; the proofs make
the safety properties independent of these numbers. In MachineJobs two jobs and
two machines make every pair of handlers meet on the same machine and on a
source and its clone; one fault (`MaxFaults` counts broken calls, dying threads
and jobs sent back) and two attempts reach every retry after every call.
`MaxDeletes` bounds deleted definitions. `cache` leaves faults out
and has one attempt, since liveness over two jobs is what costs; `machines`
takes the two jobs as symmetric; the row of a deleted definition plays the write
that fails. A tick is longer than a call may take (10 s), which is why an
acquire that a thread hears of leaves it the whole life of the lock;
LockTransactions, where commits may be slow, does not assume it.

In WorkerLoop `MaxMishaps` is one budget for what may go wrong: a failed or
misread call, a row locked by somebody else's transaction, a job queued again, a
kill, a restart, a second worker on the path. Rows locked by others are in it
because without a bound other workers could take turns at locking a row whenever
this one looks. One is enough
for every race of the loop (the requeued job meets its own claim, the killed
worker leaves a file, the second worker overlaps the first's stop); signals,
wakes, cancellations and locks that come free are unbounded. Two threads and two
jobs make the pool full, free, and blocked behind a key; the three names of
futures are one more than the list may hold. What two mishaps in a row could
do to safety is left to the proofs, which have no bound. In LogCollection lines
shorter than, as long as the rest of, and longer than the limit of 3 bytes make
every outcome of the truncation; `MaxLines`, `MaxJobs` and `MaxFaults` bound the
log, the collections and the failures, and late requests are bounded by the
failures.

### Fairness

`FairSpec` is weak fairness of the claim (its start and its end), of the end of
claims the worker has given up, of every slot's steps, of late requests as a whole and of the clock. It stands for the
main loop, which polls again after every outcome; for threads that are
scheduled; for a service that answers; and for executor operations that end.
Nothing is assumed of faults, crashes, restarts, cancellations or of the
clean-up endpoint, which has no caller. With more than one thread `JobSettles`
does not hold: two threads can take turns claiming the job, each making the
other's `mark_job_running` fail, which re-queues it without counting an
attempt. That takes an unlucky schedule for ever; it is listed as a hazard.
The default configuration, concurrency 1, is the one checked. Crashes are left
out of that run because nothing restarts a worker.

`FairSpec` of MachineJobs is weak fairness of each job's steps, faults
excepted, and of the refresh, whose steps are one thread's.

`FairSpec` of WorkerLoop is weak fairness of the main thread, of each future's
thread, of every key that others have locked coming free, which the life of locks
guarantees, and of the transactions that have locked a row (`RowFreed`). Nothing is assumed of wakes, signals, enqueues or restarts.
`MainStep` as a whole is fair, so that the loop may always find its claim
failing only as often as `MaxMishaps` allows; a job that is queued again for
ever, as by two threads taking turns, is outside for the same reason.
`QueueDrains` needs the lock that blocks the oldest job to come free: until then
the loop claims that job over and over, and the younger ones wait. `FairSpec`
of LogCollection is weak fairness of the collecting job's steps.

Deadlock checking is off for JobProcessing and LockTransactions, where all jobs
may be settled and all locks gone, for WorkerLoop, whose worker may be down for
good, and for LogCollection, where the last collection ends; MachineJobs'
refresh never stops.

## What is proved

`JobProcessingProofs`, from the assumptions on the constants (ids are distinct
from the null values, every job needs at least one key, lives are positive):

* `TypeCorrect`.
* `LeaseCorrect`, `SerializedCorrect`. `Serialized` is not inductive: that two
  threads do not overlap says nothing of the rows they rely on. `LeaseInv` adds
  that a lease in use has all its rows, owned and alive (`HoldersLeased`), that
  one thread uses it (`OneHolder`), and that a release still on its way is the
  last use of the rows it will delete (`LateReleasesLeased`); without the last
  part a late release could take the rows of a thread that has acquired them
  since. Two leases that share a key would own the same row, hence
  `Serialized`. A lease that ran out leaves these guarantees through `overran`.
* `OwnershipCorrect`, `ClaimsQueuedCorrect`. Between its mark running and its
  settlement nobody writes a job's row: others who hold the job would hold its
  lease (`LeaseInv`), a claim only writes rows that are queued, and a
  cancellation too.
* `LocksServedCorrect`: the lock table implements LockService.

`JobOutcomeProofs`, about the same specification:

* `NoLeakCorrect`, `NoOrphanCorrect`: `UndisturbedInv` says that as long as no
  call fails and no worker is killed no request is late, every live row has a
  slot that uses it, and every running job has one that will settle it.
* `FailedWasTriedCorrect`: `TriedInv` follows a verdict from the read of
  `attempts` to the write of `failed`: it is only pronounced over an attempt.
* `SettledStaysCorrect`, on the condition `OneSlot` that a single thread works,
  the instance on which `SettledStays` holds at all (with two, `resettled` is a
  counterexample). `Unsettled` says that a thread with its job's end still to
  report finds the job unsettled; it is kept because claims give away queued
  jobs only (`ClaimsQueued`), and the only thread has nothing else in hand.
* `AttemptsBoundedCorrect`, on the condition `OneThread` that no two slots belong
  to one worker, which is the default concurrency. `BoundInv` says that a claimed, queued job has
  an attempt left, that a slot about to mark its job running finds it so, and
  that what a failing slot has read is true. It rests on `LeaseInv` and the
  ownership of executions.

`JobService`, for any implementation of it:

* `PromiseKept`: a job has at most one executing thread, and has it only while it
  is running; jobs executed at the same time have no key in common; the attempts
  stay within the maximum; nothing ends that was not tried. `PromiseFrame` is the
  argument for the steps that turn to one job.

`JobServiceProofs`, on the condition `OneThread`:

* `JobsServedCorrect`: every step is one of JobService or a stutter. The
  executors of a job are at most one because they hold its lease (`LeaseInv`); a
  start finds the job unstarted and an attempt left, and a failing thread has
  read the true `attempts` (`BoundInv`). What is new is `FinalInv`: a thread that
  marks its job failed for good, and not for another try, is the one the row
  names, so that a thread that was only refused can never fail a job that has an
  attempt left. That a job starts only while its keys are free follows from
  `LeaseInv` again: whoever executes another job that needs one of them holds the
  row of that key (`HolderFree`).
* `PromiseHolds`: hence `Promise`, of the rows and threads of JobProcessing.

`LockTransactionsProofs`, from the assumptions that keys are totally ordered:

* `TypeCorrect`, `StatementsCorrect`: types and `StatementInv`. An acquire has changed only
  keys below those it has still to come to; it has replaced only rows that were
  dead when it began; a DELETE has seen rows of one owner, or dead ones.
* `WaitsGoUpCorrect`: along acquires that wait for one another the keys rise,
  so the chain never closes, for any number of keys and connections.
* `PromiseCorrect`: every commit is one step of LockService, all else stutters.

`MachineJobsProofs`, for any machines, jobs, attempts, faults and deletions:

* `TypesHold`, which includes that `attempts` never exceeds `max_attempts`.
* `MachineInvHolds`, and with it `NoMachineWithoutMaker`, `NoMachineLost`,
  `NoSnapshotUnrecorded`, `NoSnapshotForgotten`. None of them is inductive, since none says what a
  thread in the middle of a handler has done already. `MachineInv` does: past
  its make a maker's machine is there (`StayInv`); a machine has a maker that is
  past the make or about to clean up (`MakersInv`); before a record goes its
  snapshot is gone (`ErasedInv`) and, ids being new, stays gone (`IdsInv`).
  `Shape` adds that what is left of a job is the rest of a handler of its type
  (`RestsOrdered` is what the parts need of it). The proof goes through
  `Moves`: every step of a job, whatever its outcome, begins, goes on, turns to
  the clean-up, ends, or is marked from outside, and touches its own machine only (`StepMoves`); each
  part of the invariant is then shown of a move.
* `JobsServedCorrect`: every move of a job is a step of JobService, every other
  step a stutter; `PromiseHolds` follows by `PromiseKept`.
* `OneWriterHolds`: a machine, its snapshots and their records change only in a
  step that begins with exactly one job in progress that mutates this machine.
  Two of them would need the same key (`Promise`); the handlers that lock
  something else, as far as they have come, only look (`Watching`); and neither
  the refresh nor the API touches them. It bounds what the missing locks of the
  refresh and of `refresh_vm_runtime_state` can do to rows of the state cache.
* `CalmRoundsSettle`: the safety half of `CacheConverges`. Whatever jobs, failures
  and earlier rounds have left in the rows, a round of the refresh during which
  nothing else happens (`Calm`) makes the row of every defined machine that is
  there right, and later rounds keep it so. `RoundInv` carries it through the
  round: what is observed and not written yet is still true and may be written,
  and a machine that has been passed over is absent. That the refresh comes to
  such a round is the half that rests on fairness. The proof needs that a set of
  machines has a first one, which follows from `Vms \subseteq Nat` by induction
  only; it is stated as `FirstAssumption`, and TLC evaluates it.

`WorkerLoopProofs`, for any concurrency, jobs, keys and mishaps:

* `TypesHold`, `SlotsSuffice`, `HealthIsTrue`, `NoWakeLost`, `SocketStays`,
  `EndIsGraceful`, from one inductive invariant: every unfinished call is behind
  a future in the list, and the list is below the concurrency when the loop
  claims (`FutureInv`), from which the slots suffice by the cardinality of a
  subset; `active_jobs` agrees with the unfinished calls of every job but those
  in `left` and `shared`, whose calls exclude one another (`CountInv`); between
  the claim that found nothing and the sleep, a queued job that a wake told of and
  that this claim has not passed over means that the flag is set (`WakeInv`); and the file is this worker's whenever
  its server runs (`SocketInv`).

`LogCollectionProofs`, for any limit, lines, counts and attempts:

* `TypesHold`, `TruncationCorrect`, `OffersLongestEnd`, `RowsSound`,
  `RefusalsExplained`. The invariant of the truncation gives the longest end,
  because the offsets of a log rise: every longer end is larger than the first
  one that did not fit. `LateSound` carries the line count of a request from the
  time it was sent to the time it lands.

Only model-checked: liveness (`JobSettles`, `CacheConverges`, `ShutdownEnds`,
`QueueDrains`, `CollectionEnds`). They rest on fairness, and so on ENABLED, which
the prover does not reason about. Every invariant and action property of the
passing runs is proved.

## Plan

1. WorkerLoop over JobProcessing's tables: several workers whose loops share a
   queue, and how long a blocked job may keep the younger ones of its host
   waiting.
2. JobService with more than one thread per worker: what is left of the promise
   where two threads share a worker id, which the tables cannot tell apart.

## Not modelled

Formatting, validation and authentication of requests; time stamps and texts
that no condition reads; the proxy; users, networks and definitions, which are
single statements; scripts that set up and start the services; the API, client
and CLI, whose directories are empty submodules. In the worker: the check of the
sudo rights and the thread that keeps them alive; the refresh as a part of the
loop, which only delays it (its writes are in MachineJobs); clients of the
socket that stay silent, which delay a wake by 5 s; and which texts of errors
contain 404, which the client takes for "not found": a failed claim may or may
not (`ClaimMisread`). A hazard that no
property covers is listed in `PROJECT.json` with the reason.
