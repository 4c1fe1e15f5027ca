--------------------------- MODULE JobProcessing ---------------------------
(***************************************************************************)
(* Worker daemons processing jobs: the threads of the workers' pools run   *)
(* WorkerDaemon._process_job (hlvmp_worker/worker.py) over the jobs table  *)
(* and the resource locks, which they reach by HTTP calls.                 *)
(*                                                                         *)
(* A slot is one thread of one worker's pool.  Its pc names the call it is *)
(* blocked in; the step that leaves a pc is the service executing that     *)
(* call and the slot receiving the answer.  A call may also fail under the *)
(* slot (timeout after 10 s, connection lost, 5xx): the slot then goes on  *)
(* as the code does after the exception, while the request is either lost  *)
(* or still on its way, in `late`, and lands at any later moment.          *)
(*                                                                         *)
(* Executor operations are one step with an outcome, the persistence of    *)
(* the runtime state and of the snapshot record included.  The worker's    *)
(* active_jobs is left out: no decision reads it, only the health answer.  *)
(***************************************************************************)
EXTENDS JobTable, ResourceLocks

CONSTANTS
    Slots,        \* the threads of all the workers
    SlotWorker,   \* SlotWorker[s]: the worker slot s belongs to
    JobKeys,      \* JobKeys[j]: executor.get_resource_locks of job j
    MaxFaults,    \* bound: calls that fail
    MaxCrashes    \* bound: workers that are killed

ASSUME JobProcessingAssumption ==
    /\ SlotWorker \in [Slots -> Workers]
    /\ JobKeys \in [Jobs -> SUBSET Keys]
    /\ \A j \in Jobs : JobKeys[j] # {}
    /\ MaxFaults \in Nat
    /\ MaxCrashes \in Nat

VARIABLES
    pc,         \* pc[s]: the call slot s is blocked in
    job,        \* job[s]: the job slot s processes
    retriable,  \* retriable[s]: the argument of its mark_job_failed
    seen,       \* seen[s]: attempts as read by its mark_job_failed
    up,         \* up[w]: worker w's process runs
    late,       \* requests on their way whose caller has given up
    faults, crashes,
    overran,    \* history: jobs whose lease ran out while it was in use
    strayed     \* history: jobs whose row a late request has written

slotVars == <<pc, job, retriable, seen>>
historyVars == <<overran, strayed>>
vars == <<jobs, claiming, abandoned, locks, pc, job, retriable, seen, up, late,
          faults, crashes, overran, strayed>>

-----------------------------------------------------------------------------
Calls == {"acquire", "markRunning", "markSucceeded", "markFailed", "release"}

Marks == {"markRunning", "markSucceeded", "markFailed"}

PC == Calls \cup {"idle", "execute"}

(* attempts not read yet *)
Unread == -1

Request == [op        : Calls,
            job       : Jobs,
            worker    : Workers,
            retriable : BOOLEAN,
            seen      : Nat \cup {Unread}]

RequestOf(s) == [op        |-> pc[s],
                 job       |-> job[s],
                 worker    |-> SlotWorker[s],
                 retriable |-> retriable[s],
                 seen      |-> seen[s]]

SlotsOf(w) == {s \in Slots : SlotWorker[s] = w}

(* From the moment its acquire is granted until its release is done, a     *)
(* slot counts on the locks of its job.                                    *)
Holding(s) == pc[s] \in PC \ {"idle", "acquire"}

(* The slot believes its job to be running, and to be its own. *)
Executing(s) == pc[s] \in {"execute", "markSucceeded"}

Init ==
    /\ JobTableInit
    /\ LocksInit
    /\ pc = [s \in Slots |-> "idle"]
    /\ job = [s \in Slots |-> NoJob]
    /\ retriable = [s \in Slots |-> FALSE]
    /\ seen = [s \in Slots |-> Unread]
    /\ up = [w \in Workers |-> TRUE]
    /\ late = {}
    /\ faults = 0
    /\ crashes = 0
    /\ overran = {}
    /\ strayed = {}

-----------------------------------------------------------------------------
(* What a slot does next. *)

Goto(s, p, r) ==
    /\ pc' = [pc EXCEPT ![s] = p]
    /\ retriable' = [retriable EXCEPT ![s] = r]
    /\ seen' = [seen EXCEPT ![s] = Unread]
    /\ UNCHANGED job

(* _process_job returns: from the finally clause, or before the try block *)
(* when the locks were not acquired                                        *)
Leave(s) ==
    /\ pc' = [pc EXCEPT ![s] = "idle"]
    /\ job' = [job EXCEPT ![s] = NoJob]
    /\ retriable' = [retriable EXCEPT ![s] = FALSE]
    /\ seen' = [seen EXCEPT ![s] = Unread]

(* Mutation: an error of the acquire call is taken for a granted lock. *)
GiveUpMutant(s) ==
    \/ pc[s] = "acquire" /\ Goto(s, "markRunning", FALSE)
    \/ pc[s] \in {"markRunning", "markSucceeded"} /\ Goto(s, "markFailed", TRUE)
    \/ pc[s] = "markFailed" /\ Goto(s, "release", FALSE)
    \/ pc[s] = "release" /\ Leave(s)

(* The except and finally clauses, by the call that raised *)
GiveUp(s) ==
    \/ pc[s] \in {"acquire", "release"} /\ Leave(s)
    \/ pc[s] \in {"markRunning", "markSucceeded"} /\ Goto(s, "markFailed", TRUE)
    \/ pc[s] = "markFailed" /\ Goto(s, "release", FALSE)

-----------------------------------------------------------------------------
(* The API: enqueues and cancels jobs. *)

Enqueue(j) ==
    /\ EnqueueJob(j)
    /\ UNCHANGED <<locks, slotVars, up, late, faults, crashes, historyVars>>

Cancel(j) ==
    /\ CancelQueuedJob(j)
    /\ UNCHANGED <<locks, slotVars, up, late, faults, crashes, historyVars>>

-----------------------------------------------------------------------------
(* The claim step of the worker's main loop: with a free slot, claim a     *)
(* job and submit it to the pool.                                          *)

IdleSlots(w) == {s \in SlotsOf(w) : pc[s] = "idle"}

ClaimStart(w) ==
    /\ up[w]
    /\ IdleSlots(w) # {}
    /\ ClaimSelect(w)
    /\ UNCHANGED <<locks, slotVars, up, late, faults, crashes, historyVars>>

(* Mutation: the claim is cleared before its job is handed to the pool. *)
ClaimDeliverMutant(w) ==
    /\ up[w]
    /\ ClaimCommit(w)
    /\ \E s \in IdleSlots(w) :
         /\ pc' = [pc EXCEPT ![s] = "acquire"]
         /\ job' = [job EXCEPT ![s] = claiming'[w]]
    /\ UNCHANGED <<locks, retriable, seen, up, late, faults, crashes, historyVars>>

ClaimDeliver(w) ==
    /\ up[w]
    /\ ClaimCommit(w)
    /\ \E s \in IdleSlots(w) :
         /\ pc' = [pc EXCEPT ![s] = "acquire"]
         /\ job' = [job EXCEPT ![s] = claiming[w]]
    /\ UNCHANGED <<locks, retriable, seen, up, late, faults, crashes, historyVars>>

ClaimRollback(w) ==
    /\ faults < MaxFaults
    /\ ClaimAbort(w)
    /\ faults' = faults + 1
    /\ UNCHANGED <<locks, slotVars, up, late, crashes, historyVars>>

(* A claim fails under the worker, which goes on, and the service executes *)
(* it all the same, at that time or later; nobody hears of the outcome.    *)
ClaimLate(w) ==
    /\ faults < MaxFaults
    /\ LateSelect(w)
    /\ faults' = faults + 1
    /\ UNCHANGED <<locks, slotVars, up, late, crashes, historyVars>>

ClaimUnheard(j, w) ==
    /\ LateCommit(j, w) \/ LateAbort(j, w)
    /\ UNCHANGED <<locks, slotVars, up, late, faults, crashes, historyVars>>

-----------------------------------------------------------------------------
(* _process_job, call by call. *)

Acquire(s) ==
    /\ pc[s] = "acquire"
    /\ LockAcquire(job[s], SlotWorker[s], JobKeys[job[s]])
    /\ Goto(s, "markRunning", FALSE)
    /\ UNCHANGED <<jobTableVars, up, late, faults, crashes, historyVars>>

AcquireRefused(s) ==
    /\ pc[s] = "acquire"
    /\ LockRefused(JobKeys[job[s]])
    /\ Leave(s)
    /\ UNCHANGED <<jobTableVars, up, late, faults, crashes, historyVars>>

Run(s) ==
    /\ pc[s] = "markRunning"
    /\ MarkRunning(job[s], SlotWorker[s])
    /\ Goto(s, "execute", FALSE)
    /\ UNCHANGED <<locks, up, late, faults, crashes, historyVars>>

(* Somebody else's claim: the service answers with an error *)
RunRejected(s) ==
    /\ pc[s] = "markRunning"
    /\ MarkRunningRejected(job[s], SlotWorker[s])
    /\ GiveUp(s)
    /\ UNCHANGED <<locks, up, late, faults, crashes, historyVars>>

Execute(s) ==
    /\ pc[s] = "execute"
    /\ \/ Goto(s, "markSucceeded", FALSE)
       \/ \E r \in BOOLEAN : Goto(s, "markFailed", r)
    /\ UNCHANGED <<jobTableVars, locks, up, late, faults, crashes, historyVars>>

Succeed(s) ==
    /\ pc[s] = "markSucceeded"
    /\ MarkSucceeded(job[s])
    /\ Goto(s, "release", FALSE)
    /\ UNCHANGED <<locks, up, late, faults, crashes, historyVars>>

ReadAttempts(s) ==
    /\ pc[s] = "markFailed"
    /\ seen[s] = Unread
    /\ seen' = [seen EXCEPT ![s] = jobs[job[s]].attempts]
    /\ UNCHANGED <<jobTableVars, locks, pc, job, retriable, up, late,
                   faults, crashes, historyVars>>

Fail(s) ==
    /\ pc[s] = "markFailed"
    /\ seen[s] # Unread
    /\ MarkFailed(job[s], retriable[s], seen[s])
    /\ Goto(s, "release", FALSE)
    /\ UNCHANGED <<locks, up, late, faults, crashes, historyVars>>

Release(s) ==
    /\ pc[s] = "release"
    /\ LockRelease(job[s], SlotWorker[s])
    /\ Leave(s)
    /\ UNCHANGED <<jobTableVars, up, late, faults, crashes, historyVars>>

(* The call fails under the slot; the request is lost or late. *)
Timeout(s) ==
    /\ faults < MaxFaults
    /\ pc[s] \in Calls
    /\ GiveUp(s)
    /\ \/ UNCHANGED late
       \/ late' = late \cup {RequestOf(s)}
    /\ faults' = faults + 1
    /\ UNCHANGED <<jobTableVars, locks, up, crashes, historyVars>>

SlotStep(s) ==
    \/ Acquire(s) \/ AcquireRefused(s)
    \/ Run(s) \/ RunRejected(s)
    \/ Execute(s)
    \/ Succeed(s)
    \/ ReadAttempts(s) \/ Fail(s)
    \/ Release(s)

-----------------------------------------------------------------------------
(* A late request lands: the service executes it, nobody hears. *)

LandLockRequest(r) ==
    /\ late' = late \ {r}
    /\ \/ r.op = "acquire" /\ LockAcquire(r.job, r.worker, JobKeys[r.job])
       \/ r.op = "acquire" /\ LockRefused(JobKeys[r.job])
       \/ r.op = "release" /\ LockRelease(r.job, r.worker)
    /\ UNCHANGED <<jobTableVars, strayed>>

LandMark(r) ==
    /\ late' = late \ {r}
    /\ \/ r.op = "markRunning" /\ MarkRunning(r.job, r.worker)
       \/ r.op = "markRunning" /\ MarkRunningRejected(r.job, r.worker)
       \/ r.op = "markSucceeded" /\ MarkSucceeded(r.job)
       \/ r.op = "markFailed" /\ r.seen # Unread /\ MarkFailed(r.job, r.retriable, r.seen)
    /\ strayed' = strayed \cup {r.job}
    /\ UNCHANGED locks

LandRead(r) ==
    /\ r.op = "markFailed"
    /\ r.seen = Unread
    /\ late' = (late \ {r}) \cup {[r EXCEPT !.seen = jobs[r.job].attempts]}
    /\ UNCHANGED <<jobTableVars, locks, strayed>>

Land(r) ==
    /\ r \in late
    /\ LandLockRequest(r) \/ LandMark(r) \/ LandRead(r)
    /\ UNCHANGED <<slotVars, up, faults, crashes, overran>>

-----------------------------------------------------------------------------
(* A worker is killed: its threads are gone, requests they had sent may    *)
(* still land.  A worker that starts again finds nothing of the past.      *)

Crash(w) ==
    /\ crashes < MaxCrashes
    /\ up[w]
    /\ up' = [up EXCEPT ![w] = FALSE]
    /\ pc' = [s \in Slots |-> IF SlotWorker[s] = w THEN "idle" ELSE pc[s]]
    /\ job' = [s \in Slots |-> IF SlotWorker[s] = w THEN NoJob ELSE job[s]]
    /\ retriable' = [s \in Slots |-> IF SlotWorker[s] = w THEN FALSE ELSE retriable[s]]
    /\ seen' = [s \in Slots |-> IF SlotWorker[s] = w THEN Unread ELSE seen[s]]
    /\ \E sent \in SUBSET {s \in SlotsOf(w) : pc[s] \in Calls} :
         late' = late \cup {RequestOf(s) : s \in sent}
    /\ ClaimAbandon(w)
    /\ crashes' = crashes + 1
    /\ UNCHANGED <<locks, faults, historyVars>>

Start(w) ==
    /\ ~up[w]
    /\ up' = [up EXCEPT ![w] = TRUE]
    /\ UNCHANGED <<jobTableVars, locks, slotVars, late, faults, crashes,
                   historyVars>>

-----------------------------------------------------------------------------
(* The lock service's clock and its clean-up endpoint. *)

InUse(j) == \/ \E s \in Slots : Holding(s) /\ job[s] = j
            \/ \E r \in late : r.op = "release" /\ r.job = j

RunsOut(j) == \E k \in JobKeys[j] : locks[k].left <= 1

Tick ==
    /\ LockTick
    /\ overran' = overran \cup {j \in Jobs : InUse(j) /\ RunsOut(j)}
    /\ UNCHANGED <<jobTableVars, slotVars, up, late, faults, crashes, strayed>>

Cleanup ==
    /\ LockCleanup
    /\ UNCHANGED <<jobTableVars, slotVars, up, late, faults, crashes,
                   historyVars>>

-----------------------------------------------------------------------------
ClaimStep(w) == ClaimDeliver(w) \/ ClaimRollback(w)

LateClaimStep(w) == \E j \in Jobs : ClaimUnheard(j, w)

Next ==
    \/ \E j \in Jobs : Enqueue(j) \/ Cancel(j)
    \/ \E w \in Workers : ClaimStart(w) \/ ClaimStep(w) \/ Crash(w) \/ Start(w)
    \/ \E w \in Workers : ClaimLate(w) \/ LateClaimStep(w)
    \/ \E s \in Slots : SlotStep(s) \/ Timeout(s)
    \/ \E r \in late : Land(r)
    \/ Tick
    \/ Cleanup

Spec == Init /\ [][Next]_vars

(* Threads, the service's transactions, the network and time make          *)
(* progress; executor operations end.  Nobody owes a fault, a crash, a     *)
(* restart, a cancellation or a clean-up.                                  *)
Fairness ==
    /\ \A w \in Workers : WF_vars(ClaimStart(w)) /\ WF_vars(ClaimStep(w))
                            /\ WF_vars(LateClaimStep(w))
    /\ \A s \in Slots : WF_vars(SlotStep(s))
    /\ WF_vars(\E r \in late : Land(r))
    /\ WF_vars(Tick)

FairSpec == Spec /\ Fairness

-----------------------------------------------------------------------------
TypeOK ==
    /\ JobTableTypeOK
    /\ LocksTypeOK
    /\ pc \in [Slots -> PC]
    /\ job \in [Slots -> Jobs \cup {NoJob}]
    /\ \A s \in Slots : pc[s] # "idle" => job[s] \in Jobs
    /\ retriable \in [Slots -> BOOLEAN]
    /\ seen \in [Slots -> Nat \cup {Unread}]
    /\ up \in [Workers -> BOOLEAN]
    /\ late \subseteq Request
    /\ faults \in Nat
    /\ crashes \in Nat
    /\ overran \subseteq Jobs
    /\ strayed \subseteq Jobs

(* Two slots never work on the same resource at a time, as long as neither *)
(* job has outlived its locks ("Jobs requiring the same locks are          *)
(* serialized"): _process_job with acquireResourceLocks, release by job    *)
(* and worker, lost and late requests, crashes and the clock.              *)
Serialized ==
    \A s, t \in Slots :
        /\ s # t
        /\ Holding(s) /\ job[s] \notin overran
        /\ Holding(t) /\ job[t] \notin overran
        => JobKeys[job[s]] \cap JobKeys[job[t]] = {}

(* What Serialized rests on.  The rows of a lease in use are all there,    *)
(* owned and unexpired; one slot uses a lease; a release still on its way  *)
(* finds the rows of its own slot, and nobody else relies on them.         *)
Leased(j, w) == \A k \in JobKeys[j] : OwnedBy(k, j, w) /\ locks[k].left > 0

Uses(s, j, w) == Holding(s) /\ job[s] = j /\ SlotWorker[s] = w

Releases(r, j, w) == r.op = "release" /\ r.job = j /\ r.worker = w

HoldersLeased ==
    \A s \in Slots :
        Holding(s) /\ job[s] \notin overran => Leased(job[s], SlotWorker[s])

OneHolder ==
    \A s, t \in Slots :
        /\ Holding(s) /\ job[s] \notin overran
        /\ Uses(t, job[s], SlotWorker[s])
        => s = t

LateReleasesLeased ==
    \A r \in late :
        r.op = "release" /\ r.job \notin overran =>
            /\ Leased(r.job, r.worker)
            /\ \A s \in Slots : ~Uses(s, r.job, r.worker)
            /\ \A q \in late : Releases(q, r.job, r.worker) => q = r

LeaseInv == HoldersLeased /\ OneHolder /\ LateReleasesLeased

(* The slot that executes a job is the one the jobs table names: the row   *)
(* stays running and claimed by its worker until the slot itself settles   *)
(* it.  Excepted are jobs whose lease ran out under them and jobs a late   *)
(* mark request has hit.                                                   *)
ExecutionOwnership ==
    \A s \in Slots :
        Executing(s) /\ job[s] \notin overran \cup strayed =>
            /\ jobs[job[s]].status = "running"
            /\ jobs[job[s]].claimed_by = SlotWorker[s]

(* What ExecutionOwnership rests on besides LeaseInv: a row locked by a    *)
(* claim stays queued until the claim ends.                                *)
ClaimsQueued ==
    \A w \in Workers, j \in Jobs :
        claiming[w] = j \/ j \in abandoned[w] => jobs[j].status = "queued"

OwnershipInv == ClaimsQueued /\ ExecutionOwnership

(* Without a failed call or a crash no lock outlives its use: every row    *)
(* with time left belongs to a slot that is still counting on it.          *)
NoLeak ==
    faults = 0 /\ crashes = 0 =>
        \A k \in Keys : locks[k].left > 0 =>
            \E s \in Slots : Uses(s, locks[k].job, locks[k].worker)

(* Without a failed call or a crash no job is left behind as running (the  *)
(* service has no recovery of stale jobs): some slot will still settle it. *)
NoOrphan ==
    faults = 0 /\ crashes = 0 =>
        \A j \in Jobs : jobs[j].status = "running" =>
            \E s \in Slots : Holding(s) /\ job[s] = j

(* "Maximum allowed attempts before giving up": the retry decision of      *)
(* markJobFailed keeps attempts within max_attempts.                       *)
AttemptsBounded ==
    \A j \in Jobs \ (overran \cup strayed) : jobs[j].attempts <= MaxAttempts

(* A job fails for good only after it was attempted: not for want of a     *)
(* lock, and not because another worker's claim got in between.            *)
FailedWasTried == \A j \in Jobs : jobs[j].status = "failed" => jobs[j].attempts > 0

(* No worker settles a job a second time: a job that succeeded or failed   *)
(* keeps its status.                                                       *)
SettledStays ==
    [][\A j \in Jobs \ (overran \cup strayed)' :
          jobs[j].status \in {"succeeded", "failed"} =>
              jobs'[j].status = jobs[j].status]_vars

(* A job that was queued gets its final status, or is orphaned: left       *)
(* running by a slot that could not report its end.                        *)
Orphaned(j) ==
    jobs[j].status = "running" /\ ~\E s \in Slots : Holding(s) /\ job[s] = j

JobSettles ==
    \A j \in Jobs : jobs[j].status = "queued" ~>
                       (jobs[j].status \in Terminal \/ Orphaned(j))

(* Whatever workers, late requests and the clock do to the lock table,     *)
(* taken together it is a lock service: whole grants of free keys, and no  *)
(* row lost to anybody but its owner or time.                              *)
Service == INSTANCE LockService

LocksServed == Service!LockServiceSpec

(* The threads that execute a job are those the table names; what it says  *)
(* of lost jobs does not count.                                            *)
Lost == overran \cup strayed

Executes(s, j) ==
    /\ job[s] = j
    /\ pc[s] \in {"execute", "markSucceeded", "markFailed"}
    /\ jobs[j].status = "running"
    /\ jobs[j].claimed_by = SlotWorker[s]

StatusOf == [j \in Jobs |-> IF j \in Lost THEN "unknown" ELSE jobs[j].status]

TriesOf == [j \in Jobs |-> IF j \in Lost THEN 0 ELSE jobs[j].attempts]

ExecutorsOf == [j \in Jobs |-> IF j \in Lost THEN {} ELSE {s \in Slots : Executes(s, j)}]

JobLife == INSTANCE JobService
    WITH status <- StatusOf, tries <- TriesOf, executors <- ExecutorsOf,
         keys <- JobKeys, lost <- Lost

(* Together with the tables, workers of one thread each are a job service: *)
(* one thread at a time executes a job, at most MaxAttempts times and on   *)
(* its keys alone, and nobody else ends its execution, although any thread *)
(* that has claimed the job may mark it failed.  With lost and late        *)
(* requests and crashes.                                                   *)
JobsServed == JobLife!JobServiceSpec

-----------------------------------------------------------------------------
(* What the repository's documents say of jobs and locks, and what         *)
(* the code does not keep.                                                 *)

(* "succeeded | failed | cancelled: Terminal states".  markJobRunning asks *)
(* only for the claim, which a cancellation leaves in place.               *)
TerminalIsFinal ==
    [][\A j \in Jobs : jobs[j].status \in Terminal => jobs'[j].status = jobs[j].status]_vars

(* "Jobs requiring the same locks are serialized", without the exception   *)
(* Serialized makes: nothing renews a lock, and a job may run longer.      *)
LocksSerialize ==
    \A s, t \in Slots :
        s # t /\ Holding(s) /\ Holding(t) => JobKeys[job[s]] \cap JobKeys[job[t]] = {}
=============================================================================
