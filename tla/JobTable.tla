------------------------------ MODULE JobTable ------------------------------
(***************************************************************************)
(* The `jobs` table of the database microservice and the statements its    *)
(* repository runs on it (homelab-vm-provisioner-db/src/repository.js).    *)
(* Every action is one statement or one transaction as PostgreSQL executes *)
(* it; who calls it, and in which order, is the business of the modules    *)
(* that compose this one.  Payload, result, error text and the time stamps *)
(* are data that no condition here reads.                                  *)
(***************************************************************************)
EXTENDS JobDomain

CONSTANTS
    Hosts,        \* host ids
    TargetHost,   \* TargetHost[j]: jobs.target_host_id
    WorkerHost,   \* WorkerHost[w]: the host worker w claims for
    MaxAttempts   \* jobs.max_attempts

ASSUME JobTableAssumption ==
    /\ TargetHost \in [Jobs -> Hosts]
    /\ WorkerHost \in [Workers -> Hosts]
    /\ MaxAttempts \in Nat \ {0}

VARIABLES
    jobs,      \* the rows; status "absent" before the INSERT
    claiming,  \* claiming[w]: the row locked by the open claim that w waits for
    abandoned  \* abandoned[w]: the rows locked by open claims that w waits for no more

claimVars == <<claiming, abandoned>>
jobTableVars == <<jobs, claimVars>>

JobStatus == {"absent", "queued", "running", "succeeded", "failed", "cancelled"}

Terminal == {"succeeded", "failed", "cancelled"}

JobRow == [status     : JobStatus,
           claimed_by : Workers \cup {NoWorker},
           attempts   : Nat]

JobTableTypeOK ==
    /\ jobs \in [Jobs -> JobRow]
    /\ claiming \in [Workers -> Jobs \cup {NoJob}]
    /\ abandoned \in [Workers -> SUBSET Jobs]

JobTableInit ==
    /\ jobs = [j \in Jobs |->
                 [status |-> "absent", claimed_by |-> NoWorker, attempts |-> 0]]
    /\ claiming = [w \in Workers |-> NoJob]
    /\ abandoned = [w \in Workers |-> {}]

-----------------------------------------------------------------------------
(* Row locks.  SELECT ... FOR UPDATE holds the row until its transaction   *)
(* ends; an UPDATE of a locked row waits.                                  *)

(* Mutation: UPDATE does not wait for the row lock. *)
RowUnlockedMutant(j) == TRUE

RowUnlocked(j) == \A w \in Workers : claiming[w] # j /\ j \notin abandoned[w]

SetStatus(j, s) == jobs' = [jobs EXCEPT ![j].status = s]

-----------------------------------------------------------------------------
(* INSERT INTO jobs: the next id of the sequence. *)
EnqueueJob(j) ==
    /\ jobs[j].status = "absent"
    /\ \A i \in Jobs : i < j => jobs[i].status # "absent"
    /\ SetStatus(j, "queued")
    /\ UNCHANGED claimVars

(* Mutation: the claim does not ask for status = 'queued'. *)
ClaimableMutant(j, w) ==
    /\ jobs[j].status # "absent"
    /\ TargetHost[j] = WorkerHost[w]
    /\ RowUnlocked(j)

(* WHERE status = 'queued' AND target_host_id = $1 ... SKIP LOCKED.  The   *)
(* row's claimed_by is not looked at.                                      *)
Claimable(j, w) ==
    /\ jobs[j].status = "queued"
    /\ TargetHost[j] = WorkerHost[w]
    /\ RowUnlocked(j)

(* ORDER BY created_at LIMIT 1 *)
NextJob(j, w) ==
    /\ Claimable(j, w)
    /\ \A i \in Jobs : Claimable(i, w) => j <= i

ClaimSelect(w) ==
    /\ claiming[w] = NoJob
    /\ \E j \in Jobs : NextJob(j, w) /\ claiming' = [claiming EXCEPT ![w] = j]
    /\ UNCHANGED <<jobs, abandoned>>

(* UPDATE jobs SET claimed_by; COMMIT *)
SetClaimedBy(j, w) == jobs' = [jobs EXCEPT ![j].claimed_by = w]

ClaimCommit(w) ==
    /\ claiming[w] # NoJob
    /\ SetClaimedBy(claiming[w], w)
    /\ claiming' = [claiming EXCEPT ![w] = NoJob]
    /\ UNCHANGED abandoned

(* An error inside the transaction: ROLLBACK *)
ClaimAbort(w) ==
    /\ claiming[w] # NoJob
    /\ claiming' = [claiming EXCEPT ![w] = NoJob]
    /\ UNCHANGED <<jobs, abandoned>>

(* The same for a claim whose worker has given up: more than one may be    *)
(* open at a time.                                                         *)
LateSelect(w) ==
    /\ \E j \in Jobs : NextJob(j, w) /\ abandoned' = [abandoned EXCEPT ![w] = @ \cup {j}]
    /\ UNCHANGED <<jobs, claiming>>

LateCommit(j, w) ==
    /\ j \in abandoned[w]
    /\ SetClaimedBy(j, w)
    /\ abandoned' = [abandoned EXCEPT ![w] = @ \ {j}]
    /\ UNCHANGED claiming

LateAbort(j, w) ==
    /\ j \in abandoned[w]
    /\ abandoned' = [abandoned EXCEPT ![w] = @ \ {j}]
    /\ UNCHANGED <<jobs, claiming>>

(* The worker is killed, its claim goes on. *)
ClaimAbandon(w) ==
    /\ claiming' = [claiming EXCEPT ![w] = NoJob]
    /\ abandoned' = [abandoned EXCEPT ![w] = @ \cup ({claiming[w]} \ {NoJob})]
    /\ UNCHANGED jobs

(* WHERE id = $1 AND claimed_by = $2: the only condition on the row *)
ClaimedBy(j, w) == jobs[j].claimed_by = w

(* Mutation: attempts is not counted. *)
MarkRunningMutant(j, w) ==
    /\ RowUnlocked(j)
    /\ ClaimedBy(j, w)
    /\ SetStatus(j, "running")
    /\ UNCHANGED claimVars

MarkRunning(j, w) ==
    /\ RowUnlocked(j)
    /\ ClaimedBy(j, w)
    /\ jobs' = [jobs EXCEPT ![j].status = "running",
                            ![j].attempts = @ + 1]
    /\ UNCHANGED claimVars

(* No row matches: the repository throws *)
MarkRunningRejected(j, w) ==
    /\ ~ClaimedBy(j, w)
    /\ UNCHANGED jobTableVars

MarkSucceeded(j) ==
    /\ RowUnlocked(j)
    /\ SetStatus(j, "succeeded")
    /\ UNCHANGED claimVars

(* Mutation: one attempt too many. *)
StatusAfterFailureMutant(retriable, seen) ==
    IF retriable /\ seen <= MaxAttempts THEN "queued" ELSE "failed"

(* Mutation: the attempt that just failed counted twice. *)
StatusAfterFailureMutant2(retriable, seen) ==
    IF retriable /\ seen + 1 < MaxAttempts THEN "queued" ELSE "failed"

(* Mutation: a failed attempt is not written back as failed. *)
StatusAfterFailureMutant3(retriable, seen) ==
    IF retriable /\ seen < MaxAttempts THEN "queued" ELSE "running"

(* markJobFailed reads attempts and max_attempts with a plain SELECT and   *)
(* writes the row in a second statement: `seen` is the attempts it read.   *)
StatusAfterFailure(retriable, seen) ==
    IF retriable /\ seen < MaxAttempts THEN "queued" ELSE "failed"

MarkFailed(j, retriable, seen) ==
    /\ RowUnlocked(j)
    /\ jobs' = [jobs EXCEPT ![j].status = StatusAfterFailure(retriable, seen),
                            ![j].claimed_by = NoWorker]
    /\ UNCHANGED claimVars

(* WHERE id = $1 AND status = 'queued'; claimed_by keeps its value *)
CancelQueuedJob(j) ==
    /\ RowUnlocked(j)
    /\ jobs[j].status = "queued"
    /\ SetStatus(j, "cancelled")
    /\ UNCHANGED claimVars

=============================================================================
