-------------------------- MODULE JobOutcomeProofs --------------------------
(***************************************************************************)
(* More theorems about JobProcessing: what becomes of locks and jobs as    *)
(* long as no call fails and no worker is killed, and that no job fails    *)
(* untried, whatever goes wrong.                                           *)
(***************************************************************************)
EXTENDS JobProcessingProofs

-----------------------------------------------------------------------------
(* Undisturbed executions. *)

Undisturbed == faults = 0 /\ crashes = 0

(* The slots that will still settle job j *)
Settling(s) == pc[s] \in {"execute", "markSucceeded", "markFailed"}

RowsUsed ==
    \A k \in Keys : locks[k].left > 0 =>
        \E s \in Slots : Uses(s, locks[k].job, locks[k].worker)

RunningSettled ==
    \A j \in Jobs : jobs[j].status = "running" =>
        \E s \in Slots : Settling(s) /\ job[s] = j

UndisturbedInv == Undisturbed => late = {} /\ RowsUsed /\ RunningSettled

(* The rows of a table nobody writes stay used. *)
LEMMA RowsKept ==
    ASSUME RowsUsed, UNCHANGED locks,
           \A t \in Slots : Holding(t) => Holding(t)' /\ job'[t] = job[t]
    PROVE  RowsUsed'
  BY DEF RowsUsed, Uses

(* No undisturbed step leaves a row without a slot that uses it. *)
LEMMA RowsStep ==
    TypeOK /\ late = {} /\ RowsUsed /\ [Next]_vars /\ Undisturbed /\ Undisturbed' => RowsUsed'
<1> SUFFICES ASSUME TypeOK, late = {}, RowsUsed, [Next]_vars, Undisturbed, Undisturbed'
             PROVE  RowsUsed'
  OBVIOUS
<1>p. pc \in [Slots -> PC] /\ job \in [Slots -> Jobs \cup {NoJob}]
  BY DEF TypeOK
<1>1. ASSUME UNCHANGED <<locks, pc, job>> PROVE RowsUsed'
  BY <1>1, RowsKept DEF Holding
<1>2. ASSUME NEW j \in Jobs, Enqueue(j) \/ Cancel(j) PROVE RowsUsed'
  BY <1>2, <1>1 DEF Enqueue, Cancel, slotVars
<1>3. ASSUME NEW w \in Workers, ClaimStart(w) \/ ClaimRollback(w) \/ Start(w) PROVE RowsUsed'
  BY <1>3, <1>1 DEF ClaimStart, ClaimRollback, Start, slotVars
<1>15. ASSUME NEW w \in Workers, ClaimLate(w) \/ LateClaimStep(w) PROVE RowsUsed'
  BY <1>15, <1>1, LateClaimFrame
<1>4. ASSUME NEW w \in Workers, ClaimDeliver(w) PROVE RowsUsed'
  <2>1. PICK s \in IdleSlots(w) : /\ pc' = [pc EXCEPT ![s] = "acquire"]
                                  /\ job' = [job EXCEPT ![s] = claiming[w]]
    BY <1>4 DEF ClaimDeliver
  <2>2. s \in Slots /\ ~Holding(s)
    BY DEF IdleSlots, SlotsOf, Holding
  <2> QED BY <2>1, <2>2, <1>4, <1>p, RowsKept DEF ClaimDeliver, Holding
<1>5. ASSUME NEW s \in Slots, Acquire(s) PROVE RowsUsed'
  <2> DEFINE j == job[s]
             w == SlotWorker[s]
  <2>1. /\ locks' = [k \in Keys |-> IF k \in JobKeys[j]
                                    THEN [job |-> j, worker |-> w, left |-> TTL] ELSE locks[k]]
        /\ Goto(s, "markRunning", FALSE) /\ pc[s] = "acquire"
    BY <1>5 DEF Acquire, LockAcquire
  <2>2. Uses(s, j, w)'
    BY <2>1, <1>p DEF Goto, Uses, Holding, PC, Calls
  <2>3. ASSUME NEW k \in Keys, locks'[k].left > 0
        PROVE  \E t \in Slots : Uses(t, locks[k].job, locks[k].worker)'
    <3>1. CASE k \in JobKeys[j]
      <4>1. locks'[k].job = j /\ locks'[k].worker = w
        BY <2>1, <3>1
      <4> QED BY <4>1, <2>2, <2>1 DEF Uses, Goto
    <3>2. CASE k \notin JobKeys[j]
      <4>1. locks'[k] = locks[k]
        BY <2>1, <3>2
      <4>2. PICK t \in Slots : Uses(t, locks[k].job, locks[k].worker)
        BY <4>1, <2>3 DEF RowsUsed
      <4> QED BY <4>1, <4>2, <2>1, <1>p DEF Uses, Goto, Holding, PC, Calls
    <3> QED BY <3>1, <3>2
  <2> QED BY <2>3 DEF RowsUsed, Uses
<1>6. ASSUME NEW s \in Slots, AcquireRefused(s) PROVE RowsUsed'
  BY <1>6, <1>p, RowsKept DEF AcquireRefused, LockRefused, Leave, Holding
<1>7. ASSUME NEW s \in Slots, Run(s) \/ RunRejected(s) \/ Execute(s) \/ Succeed(s) \/ Fail(s)
      PROVE  RowsUsed'
  <2>1. \E p \in PC \ {"idle", "acquire"} : \E r \in BOOLEAN : Goto(s, p, r)
    BY <1>7 DEF Run, RunRejected, GiveUp, Execute, Succeed, Fail, PC, Calls
  <2>2. UNCHANGED locks
    BY <1>7 DEF Run, RunRejected, Execute, Succeed, Fail
  <2> QED BY <2>1, <2>2, <1>p, RowsKept DEF Goto, Holding
<1>8. ASSUME NEW s \in Slots, ReadAttempts(s) PROVE RowsUsed'
  BY <1>8, <1>1 DEF ReadAttempts
<1>9. ASSUME NEW s \in Slots, Release(s) PROVE RowsUsed'
  <2>1. /\ locks' = [k \in Keys |-> IF OwnedBy(k, job[s], SlotWorker[s]) THEN NoRow ELSE locks[k]]
        /\ Leave(s)
    BY <1>9 DEF Release, LockRelease
  <2>2. ASSUME NEW k \in Keys, locks'[k].left > 0
        PROVE  \E t \in Slots : Uses(t, locks[k].job, locks[k].worker)'
    <3>1. ~OwnedBy(k, job[s], SlotWorker[s]) /\ locks'[k] = locks[k]
      BY <2>1, <2>2 DEF NoRow
    <3>2. PICK t \in Slots : Uses(t, locks[k].job, locks[k].worker)
      BY <3>1, <2>2 DEF RowsUsed
    <3>3. t # s
      BY <3>1, <3>2 DEF Uses, OwnedBy
    <3> QED BY <3>1, <3>2, <3>3, <2>1, <1>p DEF Uses, Leave, Holding
  <2> QED BY <2>2 DEF RowsUsed, Uses
<1>10. ASSUME Tick PROVE RowsUsed'
  <2>1. locks' = [k \in Keys |-> [locks[k] EXCEPT !.left = IF @ > 0 THEN @ - 1 ELSE 0]]
        /\ UNCHANGED <<pc, job>>
    BY <1>10 DEF Tick, LockTick, slotVars
  <2>2. ASSUME NEW k \in Keys, locks'[k].left > 0
        PROVE  \E t \in Slots : Uses(t, locks[k].job, locks[k].worker)'
    <3>1. locks[k] \in LockRow
      BY DEF TypeOK, LocksTypeOK
    <3>2. locks[k].left > 0 /\ locks'[k].job = locks[k].job /\ locks'[k].worker = locks[k].worker
      BY <2>1, <2>2, <3>1 DEF LockRow
    <3> QED BY <3>2, <2>1 DEF RowsUsed, Uses, Holding
  <2> QED BY <2>2 DEF RowsUsed, Uses
<1>11. ASSUME Cleanup PROVE RowsUsed'
  <2>1. locks' = [k \in Keys |-> IF Expired(k) THEN NoRow ELSE locks[k]]
        /\ UNCHANGED <<pc, job>>
    BY <1>11 DEF Cleanup, LockCleanup, slotVars
  <2>2. \A k \in Keys : locks'[k].left > 0 => locks'[k] = locks[k]
    BY <2>1 DEF NoRow
  <2> QED BY <2>1, <2>2 DEF RowsUsed, Uses, Holding
<1>12. ~\E s \in Slots : Timeout(s)
  BY DEF Timeout, Undisturbed
<1>13. ~\E w \in Workers : Crash(w)
  BY DEF Crash, Undisturbed
<1>14. ASSUME UNCHANGED vars PROVE RowsUsed'
  BY <1>14, <1>1 DEF vars
<1> QED
  BY <1>2, <1>3, <1>4, <1>5, <1>6, <1>7, <1>8, <1>9, <1>10, <1>11, <1>12, <1>13, <1>14,
     <1>15, Zenon
  DEF Next, ClaimStep, SlotStep

(* A job whose row and slots are not touched stays in good hands. *)
LEMMA RunningKept ==
    ASSUME RunningSettled,
           \A j \in Jobs : jobs'[j].status = "running" => jobs[j].status = "running",
           \A t \in Slots : Settling(t) => Settling(t)' /\ job'[t] = job[t]
    PROVE  RunningSettled'
  BY DEF RunningSettled

(* No undisturbed step leaves a running job to nobody. *)
LEMMA RunningStep ==
    TypeOK /\ late = {} /\ RunningSettled /\ [Next]_vars /\ Undisturbed /\ Undisturbed'
    => RunningSettled'
<1> SUFFICES ASSUME TypeOK, late = {}, RunningSettled, [Next]_vars, Undisturbed, Undisturbed'
             PROVE  RunningSettled'
  OBVIOUS
<1>p. /\ pc \in [Slots -> PC] /\ job \in [Slots -> Jobs \cup {NoJob}]
      /\ jobs \in [Jobs -> JobRow] /\ claiming \in [Workers -> Jobs \cup {NoJob}]
      /\ \A s \in Slots : pc[s] # "idle" => job[s] \in Jobs
  BY DEF TypeOK, JobTableTypeOK
<1>1. ASSUME UNCHANGED <<jobs, pc, job>> PROVE RunningSettled'
  BY <1>1, RunningKept DEF Settling
<1>2. ASSUME NEW j \in Jobs, Enqueue(j) \/ Cancel(j) PROVE RunningSettled'
  <2>1. \A i \in Jobs : jobs'[i].status = "running" => jobs[i].status = "running"
    BY <1>2, <1>p DEF Enqueue, Cancel, EnqueueJob, CancelQueuedJob, SetStatus, JobRow
  <2> QED BY <1>2, <2>1, RunningKept DEF Enqueue, Cancel, slotVars, Settling
<1>3. ASSUME NEW w \in Workers, ClaimStart(w) \/ ClaimRollback(w) \/ Start(w)
      PROVE  RunningSettled'
  BY <1>3, <1>1 DEF ClaimStart, ClaimSelect, ClaimRollback, ClaimAbort, Start, slotVars,
                    jobTableVars
<1>4. ASSUME NEW w \in Workers, Claims(w)
      PROVE  \A i \in Jobs : jobs'[i].status = "running" => jobs[i].status = "running"
  BY <1>4, ClaimKeepsStatus
<1>5. ASSUME NEW w \in Workers, ClaimLate(w) \/ LateClaimStep(w) PROVE RunningSettled'
  BY <1>4, <1>5, RunningKept, LateClaimFrame DEF Claims, Settling
<1>6. ASSUME NEW w \in Workers, ClaimDeliver(w) PROVE RunningSettled'
  <2>1. PICK s \in IdleSlots(w) : /\ pc' = [pc EXCEPT ![s] = "acquire"]
                                  /\ job' = [job EXCEPT ![s] = claiming[w]]
    BY <1>6 DEF ClaimDeliver
  <2>2. s \in Slots /\ ~Settling(s)
    BY DEF IdleSlots, SlotsOf, Settling
  <2>3. \A t \in Slots : Settling(t) => Settling(t)' /\ job'[t] = job[t]
    BY <2>1, <2>2, <1>p DEF Settling
  <2> QED BY <2>3, <1>4, <1>6, RunningKept DEF Claims, ClaimStep
<1>7. ASSUME NEW s \in Slots, Acquire(s) \/ AcquireRefused(s) \/ Release(s) PROVE RunningSettled'
  <2>1. ~Settling(s) /\ UNCHANGED jobs
    BY <1>7 DEF Acquire, AcquireRefused, Release, Settling, jobTableVars
  <2>2. \A t \in Slots : Settling(t) => Settling(t)' /\ job'[t] = job[t]
    BY <1>7, <2>1, <1>p DEF Acquire, AcquireRefused, Release, Goto, Leave, Settling
  <2> QED BY <2>1, <2>2, RunningKept
<1>8. ASSUME NEW s \in Slots, Run(s) PROVE RunningSettled'
  <2>1. /\ jobs' = [jobs EXCEPT ![job[s]].status = "running", ![job[s]].attempts = @ + 1]
        /\ Goto(s, "execute", FALSE) /\ pc[s] = "markRunning"
    BY <1>8 DEF Run, MarkRunning
  <2>2. Settling(s)' /\ job' = job
    BY <2>1, <1>p DEF Goto, Settling
  <2>3. \A t \in Slots : Settling(t) => Settling(t)'
    BY <2>1, <2>2, <1>p DEF Goto, Settling
  <2>4. ASSUME NEW j \in Jobs, jobs'[j].status = "running"
        PROVE  \E t \in Slots : Settling(t)' /\ job'[t] = j
    <3>1. CASE j = job[s]
      BY <3>1, <2>2
    <3>2. CASE j # job[s]
      BY <3>2, <2>1, <2>2, <2>3, <2>4, <1>p DEF RunningSettled
    <3> QED BY <3>1, <3>2
  <2> QED BY <2>4 DEF RunningSettled
<1>9. ASSUME NEW s \in Slots, RunRejected(s) \/ Execute(s) PROVE RunningSettled'
  <2>1. \E p \in {"markSucceeded", "markFailed"} : \E r \in BOOLEAN : Goto(s, p, r)
    BY <1>9 DEF RunRejected, GiveUp, Execute
  <2>2. UNCHANGED jobs
    BY <1>9 DEF RunRejected, MarkRunningRejected, Execute, jobTableVars
  <2> QED BY <2>1, <2>2, <1>p, RunningKept DEF Goto, Settling
<1>10. ASSUME NEW s \in Slots, Succeed(s) \/ Fail(s) PROVE RunningSettled'
  <2>1. /\ job[s] \in Jobs /\ pc' = [pc EXCEPT ![s] = "release"] /\ job' = job
    BY <1>10, <1>p DEF Succeed, Fail, Goto
  <2>2. PICK x : /\ \/ jobs' = [jobs EXCEPT ![job[s]].status = x]
                    \/ jobs' = [jobs EXCEPT ![job[s]].status = x, ![job[s]].claimed_by = NoWorker]
                 /\ x # "running"
    <3>1. StatusAfterFailure(retriable[s], seen[s]) # "running"
      BY DEF StatusAfterFailure
    <3>2. CASE Succeed(s)
      <4>1. jobs' = [jobs EXCEPT ![job[s]].status = "succeeded"]
        BY <3>2 DEF Succeed, MarkSucceeded, SetStatus
      <4>2. "succeeded" # "running"
        OBVIOUS
      <4> QED BY <4>1, <4>2, Zenon
    <3>3. CASE Fail(s)
      BY <3>1, <3>3, Zenon DEF Fail, MarkFailed
    <3> QED BY <3>2, <3>3, <1>10
  <2>3. jobs'[job[s]].status # "running" /\ \A j \in Jobs \ {job[s]} : jobs'[j] = jobs[j]
    BY <2>1, <2>2, <1>p DEF JobRow
  <2>4. ASSUME NEW j \in Jobs, jobs'[j].status = "running"
        PROVE  \E t \in Slots : Settling(t)' /\ job'[t] = j
    <3>1. j # job[s] /\ jobs[j].status = "running"
      BY <2>3, <2>4
    <3>2. PICK t \in Slots : Settling(t) /\ job[t] = j
      BY <3>1 DEF RunningSettled
    <3> QED BY <3>1, <3>2, <2>1, <1>p DEF Settling
  <2> QED BY <2>4 DEF RunningSettled
<1>11. ASSUME NEW s \in Slots, ReadAttempts(s) PROVE RunningSettled'
  BY <1>11, <1>1 DEF ReadAttempts, jobTableVars
<1>12. ASSUME Tick \/ Cleanup PROVE RunningSettled'
  BY <1>12, <1>1 DEF Tick, Cleanup, slotVars, jobTableVars
<1>13. ~(\E s \in Slots : Timeout(s)) /\ ~\E w \in Workers : Crash(w)
  BY DEF Timeout, Crash, Undisturbed
<1>14. ASSUME UNCHANGED vars PROVE RunningSettled'
  BY <1>14, <1>1 DEF vars
<1> QED
  BY <1>2, <1>3, <1>5, <1>6, <1>7, <1>8, <1>9, <1>10, <1>11, <1>12, <1>13, <1>14, Zenon
  DEF Next, ClaimStep, SlotStep

(* A fault or a crash once counted stays counted. *)
LEMMA CountsStay ==
    TypeOK /\ [Next]_vars /\ Undisturbed' => Undisturbed /\ (late = {} => late' = {})
<1> SUFFICES ASSUME TypeOK, [Next]_vars, Undisturbed'
             PROVE  Undisturbed /\ (late = {} => late' = {})
  OBVIOUS
<1>n. faults \in Nat /\ crashes \in Nat
  BY DEF TypeOK
<1>1. CASE UNCHANGED <<faults, crashes, late>>
  BY <1>1 DEF Undisturbed
<1>2. ASSUME NEW s \in Slots, Timeout(s) PROVE FALSE
  BY <1>2, <1>n DEF Timeout, Undisturbed
<1>3. ASSUME NEW w \in Workers, Crash(w) PROVE FALSE
  BY <1>3, <1>n DEF Crash, Undisturbed
<1>4. ASSUME NEW w \in Workers, ClaimStart(w) \/ ClaimStep(w) \/ Start(w)
      PROVE  UNCHANGED <<faults, crashes, late>>
  BY <1>4, <1>n DEF ClaimStart, ClaimStep, ClaimDeliver, ClaimRollback, Start, Undisturbed
<1>9. ASSUME NEW w \in Workers, ClaimLate(w) \/ LateClaimStep(w)
      PROVE  UNCHANGED <<faults, crashes, late>>
  BY <1>9, <1>n, LateClaimFrame DEF Undisturbed
<1>5. ASSUME NEW s \in Slots, SlotStep(s) PROVE UNCHANGED <<faults, crashes, late>>
  BY <1>5 DEF SlotStep, Acquire, AcquireRefused, Run, RunRejected, Execute, Succeed,
     ReadAttempts, Fail, Release
<1>6. ASSUME NEW j \in Jobs, Enqueue(j) \/ Cancel(j) PROVE UNCHANGED <<faults, crashes, late>>
  BY <1>6 DEF Enqueue, Cancel
<1>7. ASSUME NEW r \in late, Land(r) PROVE Undisturbed /\ late # {}
  BY <1>7 DEF Land, Undisturbed
<1>8. ASSUME Tick \/ Cleanup \/ UNCHANGED vars PROVE UNCHANGED <<faults, crashes, late>>
  BY <1>8 DEF Tick, Cleanup, vars
<1> QED BY <1>1, <1>2, <1>3, <1>4, <1>5, <1>6, <1>7, <1>8, <1>9 DEF Next

(* The three together hold in every state. *)
LEMMA UndisturbedAlways == Spec => [](TypeOK /\ UndisturbedInv)
<1>1. Init => UndisturbedInv
  BY DEF Init, LocksInit, JobTableInit, NoRow, UndisturbedInv, RowsUsed, RunningSettled
<1>2. TypeOK /\ UndisturbedInv /\ [Next]_vars => UndisturbedInv'
  BY CountsStay, RowsStep, RunningStep DEF UndisturbedInv
<1> QED BY <1>1, <1>2, InitTypeOK, TypeOKStep, PTL DEF Spec

(* Without a failed call or a crash no lock outlives its use, for any      *)
(* number of jobs, workers, threads and keys.                              *)
THEOREM NoLeakCorrect == Spec => []NoLeak
<1>1. UndisturbedInv => NoLeak
  BY DEF UndisturbedInv, Undisturbed, RowsUsed, NoLeak
<1> QED BY <1>1, UndisturbedAlways, PTL

(* Without a failed call or a crash no job is left behind as running.      *)
THEOREM NoOrphanCorrect == Spec => []NoOrphan
<1>1. ASSUME UndisturbedInv PROVE NoOrphan
  <2>1. \A s \in Slots : Settling(s) => Holding(s)
    BY DEF Settling, Holding, PC, Calls
  <2> QED BY <1>1, <2>1 DEF UndisturbedInv, Undisturbed, RunningSettled, NoOrphan
<1> QED BY <1>1, UndisturbedAlways, PTL
-----------------------------------------------------------------------------
(* No job fails untried: whoever may yet write a job as failed for good    *)
(* has executed it, or read an attempts that says so.                      *)

(* What a call to mark_job_failed is, of job j with arguments r and n *)
FairVerdict(j, r, n) ==
    /\ r \/ jobs[j].attempts > 0
    /\ n <= jobs[j].attempts

SlotFair(s) ==
    /\ Executing(s) => jobs[job[s]].attempts > 0
    /\ pc[s] = "markFailed" => FairVerdict(job[s], retriable[s], seen[s])

RequestFair(r) == r.op = "markFailed" => FairVerdict(r.job, r.retriable, r.seen)

TriedInv ==
    /\ \A s \in Slots : SlotFair(s)
    /\ \A r \in late : RequestFair(r)
    /\ FailedWasTried

(* Attempts never go down. *)
Growing == \A j \in Jobs : jobs'[j].attempts >= jobs[j].attempts

(* A fair verdict leaves no job failed untried. *)
LEMMA VerdictTried ==
    ASSUME TypeOK, FailedWasTried, NEW j \in Jobs, NEW r \in BOOLEAN, NEW n \in Nat,
           FairVerdict(j, r, n), MarkFailed(j, r, n)
    PROVE  Growing /\ FailedWasTried'
<1>1. jobs \in [Jobs -> JobRow]
  BY DEF TypeOK, JobTableTypeOK
<1>2. PICK x : x = StatusAfterFailure(r, n)
  OBVIOUS
<1>3. jobs' = [jobs EXCEPT ![j].status = x, ![j].claimed_by = NoWorker]
  BY <1>2, Zenon DEF MarkFailed
<1>4. x = "failed" => jobs[j].attempts > 0
  <2>1. jobs[j].attempts \in Nat
    BY <1>1 DEF JobRow
  <2> QED BY <1>2, <2>1, JobTableAssumption DEF StatusAfterFailure, FairVerdict
<1>5. \A i \in Jobs : jobs'[i].attempts = jobs[i].attempts /\ jobs[i].attempts \in Nat
  BY <1>1, <1>3 DEF JobRow
<1>6. \A i \in Jobs : jobs'[i].status = IF i = j THEN x ELSE jobs[i].status
  BY <1>1, <1>3 DEF JobRow
<1> QED BY <1>4, <1>5, <1>6 DEF FailedWasTried, Growing

(* The other statements do not make a job failed, and count up at most. *)
LEMMA OthersTried ==
    ASSUME TypeOK, FailedWasTried,
           \/ UNCHANGED jobs
           \/ \E j \in Jobs : EnqueueJob(j) \/ CancelQueuedJob(j) \/ MarkSucceeded(j)
           \/ \E w \in Workers : Claims(w)
           \/ \E j \in Jobs, w \in Workers : MarkRunning(j, w)
    PROVE  Growing /\ FailedWasTried'
<1>1. /\ jobs \in [Jobs -> JobRow]
      /\ \A i \in Jobs : jobs[i].attempts \in Nat
  BY DEF TypeOK, JobTableTypeOK, JobRow
<1>2. CASE UNCHANGED jobs
  BY <1>1, <1>2 DEF Growing, FailedWasTried
<1>3. ASSUME NEW j \in Jobs, EnqueueJob(j) \/ CancelQueuedJob(j) \/ MarkSucceeded(j)
      PROVE  Growing /\ FailedWasTried'
  <2>1. PICK x \in {"queued", "cancelled", "succeeded"} : jobs' = [jobs EXCEPT ![j].status = x]
    BY <1>3 DEF EnqueueJob, CancelQueuedJob, MarkSucceeded, SetStatus
  <2>2. \A i \in Jobs : jobs'[i].attempts = jobs[i].attempts
                        /\ jobs'[i].status = IF i = j THEN x ELSE jobs[i].status
    BY <2>1, <1>1 DEF JobRow
  <2> QED BY <2>2, <1>1 DEF Growing, FailedWasTried
<1>4. ASSUME NEW w \in Workers, Claims(w) PROVE Growing /\ FailedWasTried'
  <2>1. \A i \in Jobs : jobs'[i].attempts = jobs[i].attempts /\ jobs'[i].status = jobs[i].status
    BY <1>4, ClaimKeepsStatus
  <2> QED BY <2>1, <1>1 DEF Growing, FailedWasTried
<1>5. ASSUME NEW j \in Jobs, NEW w \in Workers, MarkRunning(j, w)
      PROVE  Growing /\ FailedWasTried'
  <2>1. jobs' = [jobs EXCEPT ![j].status = "running", ![j].attempts = @ + 1]
    BY <1>5 DEF MarkRunning
  <2>2. \A i \in Jobs : /\ jobs'[i].attempts >= jobs[i].attempts
                        /\ jobs'[i].status = "failed" => jobs[i].status = "failed"
    BY <2>1, <1>1 DEF JobRow
  <2>3. \A i \in Jobs : jobs'[i].attempts \in Nat
    BY <2>1, <1>1 DEF JobRow
  <2> QED BY <2>2, <2>3, <1>1 DEF Growing, FailedWasTried
<1> QED BY <1>2, <1>3, <1>4, <1>5

(* Whoever does not move stays fair while attempts grow. *)
LEMMA FairKept ==
    ASSUME TypeOK, TypeOK', Growing
    PROVE  /\ \A t \in Slots : SlotFair(t) /\ UNCHANGED <<pc[t], job[t], retriable[t], seen[t]>>
                               => SlotFair(t)'
           /\ \A r \in late : RequestFair(r) => RequestFair(r)'
<1>1. \A j \in Jobs : jobs[j].attempts \in Nat /\ jobs'[j].attempts \in Nat
                      /\ jobs'[j].attempts >= jobs[j].attempts
  BY DEF TypeOK, JobTableTypeOK, JobRow, Growing
<1>2. ASSUME NEW j \in Jobs, NEW r, NEW n \in Nat \cup {Unread}, FairVerdict(j, r, n)
      PROVE  /\ r \/ jobs'[j].attempts > 0
             /\ n <= jobs'[j].attempts
  BY <1>1, <1>2 DEF FairVerdict, Unread
<1>3. ASSUME NEW t \in Slots, SlotFair(t), UNCHANGED <<pc[t], job[t], retriable[t], seen[t]>>
      PROVE  SlotFair(t)'
  <2>1. pc[t] # "idle" => job[t] \in Jobs /\ seen[t] \in Nat \cup {Unread}
    BY DEF TypeOK
  <2>2. pc'[t] = pc[t] /\ job'[t] = job[t] /\ retriable'[t] = retriable[t] /\ seen'[t] = seen[t]
    BY <1>3
  <2>3. ASSUME Executing(t)' PROVE jobs'[job[t]].attempts > 0
    <3>1. Executing(t) /\ pc[t] # "idle"
      BY <2>2, <2>3 DEF Executing
    <3>2. job[t] \in Jobs /\ jobs[job[t]].attempts > 0
      BY <3>1, <2>1, <1>3 DEF SlotFair
    <3> QED BY <3>2, <1>1
  <2>4. ASSUME pc[t] = "markFailed"
        PROVE  /\ retriable[t] \/ jobs'[job[t]].attempts > 0
               /\ seen[t] <= jobs'[job[t]].attempts
    BY <2>1, <2>4, <1>2, <1>3 DEF SlotFair
  <2> QED BY <2>2, <2>3, <2>4 DEF SlotFair, FairVerdict
<1>4. ASSUME NEW r \in late, RequestFair(r) PROVE RequestFair(r)'
  <2>1. r.job \in Jobs /\ r.seen \in Nat \cup {Unread}
    BY DEF TypeOK, Request
  <2> QED BY <2>1, <1>2, <1>4 DEF RequestFair, FairVerdict
<1> QED BY <1>3, <1>4

(* Giving up a call leads to a verdict only in its retriable form. *)
LEMMA GoneFair ==
    ASSUME TypeOK, NEW s \in Slots, GiveUp(s) \/ Leave(s)
    PROVE  /\ \A t \in Slots \ {s} : UNCHANGED <<pc[t], job[t], retriable[t], seen[t]>>
           /\ ~(Executing(s)')
           /\ pc'[s] = "markFailed" =>
                 job[s] \in Jobs /\ job'[s] = job[s] /\ retriable'[s] /\ seen'[s] = Unread
<1>1. /\ pc \in [Slots -> PC] /\ job \in [Slots -> Jobs \cup {NoJob}]
      /\ retriable \in [Slots -> BOOLEAN] /\ seen \in [Slots -> Nat \cup {Unread}]
      /\ pc[s] # "idle" => job[s] \in Jobs
  BY DEF TypeOK
<1>2. CASE Leave(s)
  BY <1>1, <1>2 DEF Leave, Executing
<1>3. CASE GiveUp(s)
  BY <1>1, <1>3 DEF GiveUp, Goto, Leave, Executing
<1> QED BY <1>2, <1>3

(* Every step keeps verdicts fair and failed jobs tried. *)
LEMMA TriedStep == TypeOK /\ TypeOK' /\ TriedInv /\ [Next]_vars => TriedInv'
<1> SUFFICES ASSUME TypeOK, TypeOK', TriedInv, [Next]_vars PROVE TriedInv'
  OBVIOUS
<1>p. /\ pc \in [Slots -> PC] /\ job \in [Slots -> Jobs \cup {NoJob}]
      /\ retriable \in [Slots -> BOOLEAN] /\ seen \in [Slots -> Nat \cup {Unread}]
      /\ \A s \in Slots : pc[s] # "idle" => job[s] \in Jobs
      /\ \A j \in Jobs : jobs[j].attempts \in Nat /\ jobs'[j].attempts \in Nat
  BY DEF TypeOK, JobTableTypeOK, JobRow
<1>t. FailedWasTried
  BY DEF TriedInv
<1>1. ASSUME Growing, FailedWasTried', late' \subseteq late, NEW s \in Slots, SlotFair(s)',
             \A t \in Slots \ {s} : UNCHANGED <<pc[t], job[t], retriable[t], seen[t]>>
      PROVE  TriedInv'
  BY <1>1, FairKept DEF TriedInv
<1>2. ASSUME Growing, FailedWasTried', late' \subseteq late, UNCHANGED slotVars
      PROVE  TriedInv'
  BY <1>2, FairKept DEF TriedInv, slotVars
<1>3. UNCHANGED jobs => Growing /\ FailedWasTried'
  BY <1>t, OthersTried
<1>4. ASSUME NEW j \in Jobs, Enqueue(j) \/ Cancel(j) PROVE TriedInv'
  BY <1>4, <1>2, <1>t, OthersTried DEF Enqueue, Cancel
<1>5. ASSUME NEW w \in Workers, ClaimStart(w) \/ ClaimRollback(w) \/ Start(w) PROVE TriedInv'
  BY <1>5, <1>2, <1>3 DEF ClaimStart, ClaimSelect, ClaimRollback, ClaimAbort, Start, jobTableVars
<1>6. ASSUME NEW w \in Workers, ClaimLate(w) \/ LateClaimStep(w) PROVE TriedInv'
  BY <1>6, <1>2, <1>t, OthersTried, LateClaimFrame DEF Claims, slotVars
<1>7. ASSUME NEW w \in Workers, ClaimDeliver(w) PROVE TriedInv'
  <2>1. Growing /\ FailedWasTried'
    BY <1>7, <1>t, OthersTried DEF Claims, ClaimStep
  <2>2. PICK s \in IdleSlots(w) : /\ pc' = [pc EXCEPT ![s] = "acquire"]
                                  /\ job' = [job EXCEPT ![s] = claiming[w]]
    BY <1>7 DEF ClaimDeliver
  <2>3. s \in Slots /\ UNCHANGED <<retriable, seen, late>>
    BY <1>7 DEF ClaimDeliver, IdleSlots, SlotsOf
  <2>4. SlotFair(s)'
    BY <2>2, <2>3, <1>p DEF SlotFair, Executing
  <2>5. \A t \in Slots \ {s} : UNCHANGED <<pc[t], job[t], retriable[t], seen[t]>>
    BY <2>2, <2>3, <1>p
  <2> QED BY <2>1, <2>3, <2>4, <2>5, <1>1
<1>8. ASSUME NEW s \in Slots, Acquire(s) PROVE TriedInv'
  <2>1. SlotFair(s)'
    BY <1>8, <1>p DEF Acquire, Goto, SlotFair, Executing
  <2>2. \A t \in Slots \ {s} : UNCHANGED <<pc[t], job[t], retriable[t], seen[t]>>
    BY <1>8, <1>p DEF Acquire, Goto
  <2>3. UNCHANGED <<jobs, late>>
    BY <1>8 DEF Acquire, jobTableVars
  <2> QED BY <2>1, <2>2, <2>3, <1>1, <1>3
<1>9. ASSUME NEW s \in Slots, AcquireRefused(s) \/ RunRejected(s) \/ Release(s) PROVE TriedInv'
  <2>1. UNCHANGED <<jobs, late>>
    BY <1>9 DEF AcquireRefused, RunRejected, MarkRunningRejected, Release, jobTableVars
  <2>2. GiveUp(s) \/ Leave(s)
    BY <1>9 DEF AcquireRefused, RunRejected, Release
  <2>3. SlotFair(s)'
    BY <2>1, <2>2, <1>p, GoneFair DEF SlotFair, FairVerdict, Unread
  <2> QED BY <2>1, <2>2, <2>3, <1>1, <1>3, GoneFair
<1>10. ASSUME NEW s \in Slots, Run(s) PROVE TriedInv'
  <2>1. /\ pc[s] = "markRunning" /\ Goto(s, "execute", FALSE) /\ UNCHANGED late
        /\ MarkRunning(job[s], SlotWorker[s])
    BY <1>10 DEF Run
  <2>2. job[s] \in Jobs /\ SlotWorker[s] \in Workers
    BY <2>1, <1>p, JobProcessingAssumption
  <2>3. Growing /\ FailedWasTried'
    BY <2>1, <2>2, <1>t, OthersTried
  <2>4. jobs'[job[s]].attempts > 0
    BY <2>1, <2>2, <1>p DEF MarkRunning, TypeOK, JobTableTypeOK, JobRow
  <2>5. SlotFair(s)'
    BY <2>1, <2>4, <1>p DEF Goto, SlotFair, Executing
  <2>6. \A t \in Slots \ {s} : UNCHANGED <<pc[t], job[t], retriable[t], seen[t]>>
    BY <2>1, <1>p DEF Goto
  <2> QED BY <2>1, <2>3, <2>5, <2>6, <1>1
<1>11. ASSUME NEW s \in Slots, Execute(s) PROVE TriedInv'
  <2>1. PICK p \in {"markSucceeded", "markFailed"}, r \in BOOLEAN : Goto(s, p, r)
    BY <1>11 DEF Execute
  <2>2. UNCHANGED <<jobs, late>> /\ pc[s] = "execute"
    BY <1>11 DEF Execute, jobTableVars
  <2>3. job[s] \in Jobs /\ jobs[job[s]].attempts > 0
    BY <2>2, <1>p DEF TriedInv, SlotFair, Executing
  <2>4. SlotFair(s)'
    BY <2>1, <2>2, <2>3, <1>p DEF Goto, SlotFair, Executing, FairVerdict, Unread
  <2>5. \A t \in Slots \ {s} : UNCHANGED <<pc[t], job[t], retriable[t], seen[t]>>
    BY <2>1, <1>p DEF Goto
  <2> QED BY <2>2, <2>4, <2>5, <1>1, <1>3
<1>12. ASSUME NEW s \in Slots, Succeed(s) PROVE TriedInv'
  <2>1. pc[s] = "markSucceeded" /\ Goto(s, "release", FALSE) /\ UNCHANGED late /\ MarkSucceeded(job[s])
    BY <1>12 DEF Succeed
  <2>2. Growing /\ FailedWasTried'
    BY <2>1, <1>p, <1>t, OthersTried
  <2>3. SlotFair(s)'
    BY <2>1, <1>p DEF Goto, SlotFair, Executing
  <2>4. \A t \in Slots \ {s} : UNCHANGED <<pc[t], job[t], retriable[t], seen[t]>>
    BY <2>1, <1>p DEF Goto
  <2> QED BY <2>1, <2>2, <2>3, <2>4, <1>1
<1>13. ASSUME NEW s \in Slots, ReadAttempts(s) PROVE TriedInv'
  <2>1. /\ pc[s] = "markFailed" /\ seen' = [seen EXCEPT ![s] = jobs[job[s]].attempts]
        /\ UNCHANGED <<jobs, pc, job, retriable, late>>
    BY <1>13 DEF ReadAttempts, jobTableVars
  <2>2. SlotFair(s)'
    BY <2>1, <1>p DEF TriedInv, SlotFair, Executing, FairVerdict
  <2> QED BY <2>1, <2>2, <1>1, <1>3, <1>p
<1>14. ASSUME NEW s \in Slots, Fail(s) PROVE TriedInv'
  <2>1. /\ pc[s] = "markFailed" /\ seen[s] # Unread /\ UNCHANGED late
        /\ MarkFailed(job[s], retriable[s], seen[s])
        /\ Goto(s, "release", FALSE)
    BY <1>14 DEF Fail
  <2>2. job[s] \in Jobs /\ retriable[s] \in BOOLEAN /\ seen[s] \in Nat
    BY <2>1, <1>p
  <2>3. FairVerdict(job[s], retriable[s], seen[s])
    BY <2>1 DEF TriedInv, SlotFair
  <2>4. Growing /\ FailedWasTried'
    BY <2>1, <2>2, <2>3, <1>t, VerdictTried
  <2>5. SlotFair(s)'
    BY <2>1, <1>p DEF Goto, SlotFair, Executing
  <2>6. \A t \in Slots \ {s} : UNCHANGED <<pc[t], job[t], retriable[t], seen[t]>>
    BY <2>1, <1>p DEF Goto
  <2> QED BY <2>1, <2>4, <2>5, <2>6, <1>1
<1>15. ASSUME NEW s \in Slots, Timeout(s) PROVE TriedInv'
  <2>1. GiveUp(s) /\ UNCHANGED jobs /\ late' \subseteq late \cup {RequestOf(s)}
    BY <1>15 DEF Timeout, jobTableVars
  <2>2. SlotFair(s)'
    BY <2>1, <1>p, GoneFair DEF SlotFair, FairVerdict, Unread
  <2>3. \A t \in Slots : SlotFair(t)'
    BY <2>1, <2>2, <1>3, FairKept, GoneFair DEF TriedInv
  <2>4. RequestFair(RequestOf(s))
    BY DEF TriedInv, SlotFair, RequestFair, RequestOf
  <2>5. \A r \in late' : RequestFair(r)
    BY <2>1, <2>4 DEF TriedInv
  <2>6. \A r \in late' : RequestFair(r)'
    BY <2>1, <2>5 DEF RequestFair, FairVerdict
  <2> QED BY <2>1, <2>3, <2>6, <1>3 DEF TriedInv
<1>16. ASSUME NEW w \in Workers, Crash(w) PROVE TriedInv'
  <2>1. /\ UNCHANGED jobs
        /\ late' \subseteq late \cup {RequestOf(s) : s \in Slots}
        /\ pc' = [s \in Slots |-> IF SlotWorker[s] = w THEN "idle" ELSE pc[s]]
        /\ job' = [s \in Slots |-> IF SlotWorker[s] = w THEN NoJob ELSE job[s]]
        /\ retriable' = [s \in Slots |-> IF SlotWorker[s] = w THEN FALSE ELSE retriable[s]]
        /\ seen' = [s \in Slots |-> IF SlotWorker[s] = w THEN Unread ELSE seen[s]]
    BY <1>16 DEF Crash, ClaimAbandon, SlotsOf
  <2>2. ASSUME NEW t \in Slots PROVE SlotFair(t)'
    <3>1. CASE SlotWorker[t] = w
      BY <2>1, <3>1 DEF SlotFair, Executing
    <3>2. CASE SlotWorker[t] # w
      BY <2>1, <3>2, <1>3, FairKept DEF TriedInv
    <3> QED BY <3>1, <3>2
  <2>3. \A s \in Slots : RequestFair(RequestOf(s))
    BY DEF TriedInv, SlotFair, RequestFair, RequestOf
  <2>4. \A r \in late' : RequestFair(r)
    BY <2>1, <2>3 DEF TriedInv
  <2>5. \A r \in late' : RequestFair(r)'
    BY <2>1, <2>4 DEF RequestFair, FairVerdict
  <2> QED BY <2>1, <2>2, <2>5, <1>3 DEF TriedInv
<1>17. ASSUME NEW r \in late, Land(r) PROVE TriedInv'
  <2>1. /\ r.job \in Jobs /\ r.worker \in Workers
        /\ r.retriable \in BOOLEAN /\ r.seen \in Nat \cup {Unread}
    BY DEF TypeOK, Request
  <2>2. RequestFair(r) /\ UNCHANGED slotVars
    BY <1>17 DEF TriedInv, Land
  <2>3. CASE LandLockRequest(r)
    BY <2>2, <2>3, <1>2, <1>3 DEF LandLockRequest, jobTableVars
  <2>4. CASE LandMark(r)
    <3>1. CASE \/ MarkRunning(r.job, r.worker) \/ MarkSucceeded(r.job)
               \/ MarkRunningRejected(r.job, r.worker)
      <4>1. Growing /\ FailedWasTried'
        BY <3>1, <2>1, <1>t, OthersTried DEF MarkRunningRejected, jobTableVars
      <4> QED BY <4>1, <2>2, <2>4, <1>2 DEF LandMark
    <3>2. CASE r.op = "markFailed" /\ r.seen # Unread /\ MarkFailed(r.job, r.retriable, r.seen)
      <4>1. Growing /\ FailedWasTried'
        BY <3>2, <2>1, <2>2, <1>t, VerdictTried DEF RequestFair
      <4> QED BY <4>1, <2>2, <2>4, <1>2 DEF LandMark
    <3> QED BY <3>1, <3>2, <2>4 DEF LandMark
  <2>5. CASE LandRead(r)
    <3> DEFINE q == [r EXCEPT !.seen = jobs[r.job].attempts]
    <3>1. UNCHANGED jobs /\ late' = (late \ {r}) \cup {q} /\ r.op = "markFailed"
      BY <2>5 DEF LandRead, jobTableVars
    <3>2. /\ q.op = r.op /\ q.job = r.job /\ q.retriable = r.retriable
          /\ q.seen = jobs[r.job].attempts
      BY DEF TypeOK, Request
    <3> HIDE DEF q
    <3>3. RequestFair(q)
      BY <3>1, <3>2, <2>1, <2>2, <1>p DEF RequestFair, FairVerdict
    <3>4. \A x \in late' : RequestFair(x)'
      BY <3>1, <3>3 DEF TriedInv, RequestFair, FairVerdict
    <3>5. \A t \in Slots : SlotFair(t)'
      BY <3>1, <2>2, <1>3, FairKept DEF TriedInv, slotVars
    <3> QED BY <3>1, <3>4, <3>5, <1>3 DEF TriedInv
  <2> QED BY <2>3, <2>4, <2>5, <1>17 DEF Land
<1>18. ASSUME Tick \/ Cleanup PROVE TriedInv'
  BY <1>18, <1>2, <1>3 DEF Tick, Cleanup, jobTableVars
<1>19. ASSUME UNCHANGED vars PROVE TriedInv'
  BY <1>19, <1>2, <1>3 DEF vars, slotVars
<1> QED
  BY <1>4, <1>5, <1>6, <1>7, <1>8, <1>9, <1>10, <1>11, <1>12, <1>13, <1>14, <1>15, <1>16,
     <1>17, <1>18, <1>19, Zenon
  DEF Next, ClaimStep, SlotStep

(* No job fails for good without having been attempted, whatever calls     *)
(* fail, requests come late and workers die.                               *)
THEOREM FailedWasTriedCorrect == Spec => []FailedWasTried
<1>1. Init => TypeOK /\ TriedInv
  BY InitTypeOK DEF Init, JobTableInit, TriedInv, FailedWasTried, SlotFair, Executing
<1>2. TypeOK /\ TriedInv /\ [Next]_vars => (TypeOK /\ TriedInv)'
  BY TypeOKStep, TriedStep
<1>3. TriedInv => FailedWasTried
  BY DEF TriedInv
<1> QED BY <1>1, <1>2, <1>3, PTL DEF Spec
-----------------------------------------------------------------------------
(* Attempts are bounded where every worker has one thread, the default     *)
(* PROVISIONER_CONCURRENCY.  With more, two threads of a worker can both   *)
(* hold its claim of one job.                                              *)

OneThread == \A s, t \in Slots : SlotWorker[s] = SlotWorker[t] => s = t

Clean == Jobs \ (overran \cup strayed)

(* A job that may still be started has an attempt left. *)
AttemptLeft ==
    \A j \in Clean : jobs[j].status \in {"absent", "queued", "cancelled"} =>
                        jobs[j].attempts < MaxAttempts

(* A thread that is about to start the job its worker has claimed finds it *)
(* not started yet.                                                        *)
StartsFresh ==
    \A s \in Slots :
        /\ pc[s] \in {"acquire", "markRunning"}
        /\ job[s] \in Clean
        /\ jobs[job[s]].claimed_by = SlotWorker[s]
        => jobs[job[s]].status \in {"queued", "cancelled"}

(* What mark_job_failed has read is not outdated when it writes. *)
ReadsTrue ==
    \A s \in Slots :
        pc[s] = "markFailed" /\ seen[s] # Unread /\ job[s] \in Clean =>
            seen[s] = jobs[job[s]].attempts

BoundInv == AttemptsBounded /\ AttemptLeft /\ StartsFresh /\ ReadsTrue

(* A step that writes no row and starts no slot. *)
LEMMA BoundFrame ==
    ASSUME BoundInv, UNCHANGED jobs, Clean' \subseteq Clean,
           \A t \in Slots :
              \/ UNCHANGED <<pc[t], job[t], seen[t]>>
              \/ pc'[t] \notin {"acquire", "markRunning", "markFailed"}
              \/ pc[t] = "acquire" /\ pc'[t] = "markRunning" /\ UNCHANGED job[t]
              \/ pc'[t] = "markFailed" /\ seen'[t] = Unread
    PROVE  BoundInv'
<1>1. AttemptsBounded' /\ AttemptLeft'
  BY DEF BoundInv, AttemptsBounded, AttemptLeft, Clean
<1>2. StartsFresh'
  BY DEF BoundInv, StartsFresh
<1>3. ReadsTrue'
  BY DEF BoundInv, ReadsTrue
<1> QED BY <1>1, <1>2, <1>3 DEF BoundInv

(* A step that writes a row, of a job left out or with care, and moves no  *)
(* slot but out of the way.                                                *)
LEMMA BoundRow ==
    ASSUME BoundInv, NEW j \in Jobs, Clean' \subseteq Clean,
           \A i \in Jobs \ {j} : jobs'[i] = jobs[i],
           j \in Clean' =>
              /\ jobs'[j].attempts = jobs[j].attempts
              /\ jobs'[j].status \in {"absent", "queued", "cancelled"} =>
                    jobs[j].attempts < MaxAttempts
              /\ \/ jobs'[j].status \in {"queued", "cancelled"}
                 \/ \A t \in Slots : job[t] = j /\ pc[t] \in {"acquire", "markRunning"} =>
                                        jobs'[j].claimed_by # SlotWorker[t],
           \A t \in Slots : \/ UNCHANGED <<pc[t], job[t], seen[t]>>
                            \/ pc'[t] \notin {"acquire", "markRunning", "markFailed"}
    PROVE  BoundInv'
<1>1. \A i \in Clean' : i \in Jobs /\ jobs'[i].attempts = jobs[i].attempts
  BY DEF Clean
<1>2. AttemptsBounded' /\ AttemptLeft'
  BY <1>1 DEF BoundInv, AttemptsBounded, AttemptLeft, Clean
<1>3. StartsFresh'
  <2> SUFFICES ASSUME NEW t \in Slots, pc'[t] \in {"acquire", "markRunning"},
                      job'[t] \in Clean', jobs'[job'[t]].claimed_by = SlotWorker[t]
               PROVE  jobs'[job'[t]].status \in {"queued", "cancelled"}
    BY DEF StartsFresh
  <2>1. pc'[t] = pc[t] /\ job'[t] = job[t]
    OBVIOUS
  <2>2. CASE job[t] = j
    BY <2>1, <2>2
  <2>3. CASE job[t] # j
    BY <2>1, <2>3, <1>1 DEF BoundInv, StartsFresh
  <2> QED BY <2>2, <2>3
<1>4. ReadsTrue'
  <2> SUFFICES ASSUME NEW t \in Slots, pc'[t] = "markFailed", seen'[t] # Unread, job'[t] \in Clean'
               PROVE  seen'[t] = jobs'[job'[t]].attempts
    BY DEF ReadsTrue
  <2>1. pc'[t] = pc[t] /\ job'[t] = job[t] /\ seen'[t] = seen[t]
    OBVIOUS
  <2> QED BY <2>1, <1>1 DEF BoundInv, ReadsTrue
<1> QED BY <1>2, <1>3, <1>4 DEF BoundInv

(* The jobs that are left out only become more. *)
LEMMA CleanShrinks == [Next]_vars => Clean' \subseteq Clean
<1> SUFFICES ASSUME [Next]_vars PROVE overran \subseteq overran' /\ strayed \subseteq strayed'
  BY DEF Clean
<1>1. ASSUME NEW s \in Slots, SlotStep(s) \/ Timeout(s) PROVE UNCHANGED historyVars
  BY <1>1 DEF SlotStep, Acquire, AcquireRefused, Run, RunRejected, Execute, Succeed,
     ReadAttempts, Fail, Release, Timeout
<1>2. ASSUME NEW w \in Workers, ClaimStart(w) \/ ClaimStep(w) \/ Crash(w) \/ Start(w)
      PROVE  UNCHANGED historyVars
  BY <1>2 DEF ClaimStart, ClaimStep, ClaimDeliver, ClaimRollback, Crash, Start
<1>7. ASSUME NEW w \in Workers, ClaimLate(w) \/ LateClaimStep(w) PROVE UNCHANGED historyVars
  BY <1>7, LateClaimFrame DEF historyVars
<1>3. ASSUME NEW j \in Jobs, Enqueue(j) \/ Cancel(j) PROVE UNCHANGED historyVars
  BY <1>3 DEF Enqueue, Cancel
<1>4. ASSUME NEW r \in late, Land(r)
      PROVE  overran \subseteq overran' /\ strayed \subseteq strayed'
  BY <1>4 DEF Land, LandLockRequest, LandMark, LandRead
<1>5. Tick => overran \subseteq overran' /\ strayed \subseteq strayed'
  BY DEF Tick
<1>6. Cleanup \/ UNCHANGED vars => UNCHANGED historyVars
  BY DEF Cleanup, vars, historyVars
<1> QED BY <1>1, <1>2, <1>3, <1>4, <1>5, <1>6, <1>7 DEF Next, historyVars

(* With one thread per worker, every step keeps the bound. *)
LEMMA BoundStep ==
    ASSUME OneThread, TypeOK, TypeOK', LeaseInv, OwnershipInv, BoundInv, [Next]_vars
    PROVE  BoundInv'
<1>c. Clean' \subseteq Clean /\ Clean \subseteq Jobs
  BY CleanShrinks DEF Clean
<1>p. /\ pc \in [Slots -> PC] /\ job \in [Slots -> Jobs \cup {NoJob}]
      /\ seen \in [Slots -> Nat \cup {Unread}] /\ retriable \in [Slots -> BOOLEAN]
      /\ \A s \in Slots : pc[s] # "idle" => job[s] \in Jobs
      /\ jobs \in [Jobs -> JobRow] /\ claiming \in [Workers -> Jobs \cup {NoJob}]
      /\ \A j \in Jobs : jobs[j].attempts \in Nat
  BY DEF TypeOK, JobTableTypeOK, JobRow
<1>n. MaxAttempts \in Nat /\ MaxAttempts > 0
  BY JobTableAssumption
<1>1. ASSUME UNCHANGED <<jobs, pc, job, seen>> PROVE BoundInv'
  BY <1>1, <1>c, BoundFrame
<1>2. ASSUME NEW j \in Jobs, Enqueue(j) \/ Cancel(j) PROVE BoundInv'
  <2>1. PICK x \in {"queued", "cancelled"} : jobs' = [jobs EXCEPT ![j].status = x]
    BY <1>2 DEF Enqueue, Cancel, EnqueueJob, CancelQueuedJob, SetStatus
  <2>2. jobs[j].status \in {"absent", "queued"} /\ UNCHANGED <<pc, job, seen>>
    BY <1>2 DEF Enqueue, Cancel, EnqueueJob, CancelQueuedJob, slotVars
  <2>3. /\ \A i \in Jobs \ {j} : jobs'[i] = jobs[i]
        /\ jobs'[j].attempts = jobs[j].attempts /\ jobs'[j].status = x
    BY <2>1, <1>p DEF JobRow
  <2>4. j \in Clean' => jobs[j].attempts < MaxAttempts
    BY <2>2, <1>c DEF BoundInv, AttemptLeft
  <2> QED BY <2>2, <2>3, <2>4, <1>c, BoundRow
<1>3. ASSUME NEW w \in Workers, ClaimStart(w) \/ ClaimRollback(w) \/ Start(w) PROVE BoundInv'
  BY <1>3, <1>1 DEF ClaimStart, ClaimSelect, ClaimRollback, ClaimAbort, Start, jobTableVars, slotVars
<1>4. ASSUME NEW w \in Workers, Claims(w), NEW j \in Jobs, jobs[j].status = "queued",
             \A i \in Jobs \ {j} : jobs'[i] = jobs[i]
      PROVE  /\ jobs'[j].attempts = jobs[j].attempts
             /\ jobs'[j].status = "queued"
             /\ j \in Clean' => jobs[j].attempts < MaxAttempts
  <2>1. j \in Clean' => jobs[j].attempts < MaxAttempts
    BY <1>4, <1>c DEF BoundInv, AttemptLeft
  <2> QED BY <1>4, <2>1, ClaimKeepsStatus
<1>5. ASSUME NEW w \in Workers, ClaimLate(w) \/ LateClaimStep(w) PROVE BoundInv'
  <2>1. UNCHANGED <<pc, job, seen>> /\ Claims(w)
    BY <1>5, LateClaimFrame DEF Claims
  <2>2. CASE UNCHANGED jobs
    BY <2>1, <2>2, <1>1
  <2>3. ASSUME NEW j \in Jobs, jobs[j].status = "queued", SetClaimedBy(j, w) PROVE BoundInv'
    <3>1. \A i \in Jobs \ {j} : jobs'[i] = jobs[i]
      BY <2>3, <1>p DEF SetClaimedBy
    <3> QED BY <2>1, <2>3, <3>1, <1>4, <1>c, BoundRow
  <2> QED BY <2>1, <2>2, <2>3, ClaimWrites DEF OwnershipInv, ClaimsQueued
<1>6. ASSUME NEW w \in Workers, ClaimDeliver(w) PROVE BoundInv'
  <2> DEFINE j == claiming[w]
  <2>1. /\ j \in Jobs /\ jobs[j].status = "queued" /\ UNCHANGED seen
        /\ \A i \in Jobs \ {j} : jobs'[i] = jobs[i]
    BY <1>6, <1>p DEF ClaimDeliver, ClaimCommit, SetClaimedBy, OwnershipInv, ClaimsQueued
  <2>2. PICK s \in Slots : /\ pc' = [pc EXCEPT ![s] = "acquire"]
                           /\ job' = [job EXCEPT ![s] = j]
    BY <1>6 DEF ClaimDeliver, IdleSlots, SlotsOf
  <2>3. /\ j \in Jobs /\ \A i \in Jobs \ {j} : jobs'[i] = jobs[i]
        /\ jobs'[j].attempts = jobs[j].attempts /\ jobs'[j].status = "queued"
        /\ j \in Clean' => jobs[j].attempts < MaxAttempts
    BY <2>1, <1>4, <1>6 DEF Claims, ClaimStep
  <2> HIDE DEF j
  <2>4. \A i \in Jobs : jobs'[i].attempts = jobs[i].attempts
    BY <2>3
  <2>5. AttemptsBounded' /\ AttemptLeft'
    BY <2>3, <2>4, <1>c DEF BoundInv, AttemptsBounded, AttemptLeft, Clean
  <2>6. StartsFresh'
    <3> SUFFICES ASSUME NEW t \in Slots, pc'[t] \in {"acquire", "markRunning"},
                        job'[t] \in Clean', jobs'[job'[t]].claimed_by = SlotWorker[t]
                 PROVE  jobs'[job'[t]].status \in {"queued", "cancelled"}
      BY DEF StartsFresh
    <3>1. CASE job'[t] = j
      BY <3>1, <2>3
    <3>2. CASE job'[t] # j
      <4>1. t # s /\ pc'[t] = pc[t] /\ job'[t] = job[t]
        BY <3>2, <2>2, <1>p
      <4>2. jobs'[job[t]] = jobs[job[t]]
        BY <4>1, <3>2, <2>3, <1>c
      <4> QED BY <4>1, <4>2, <1>c DEF BoundInv, StartsFresh
    <3> QED BY <3>1, <3>2
  <2>7. ReadsTrue'
    <3> SUFFICES ASSUME NEW t \in Slots, pc'[t] = "markFailed", seen'[t] # Unread,
                        job'[t] \in Clean'
                 PROVE  seen'[t] = jobs'[job'[t]].attempts
      BY DEF ReadsTrue
    <3>1. pc'[t] = pc[t] /\ job'[t] = job[t] /\ seen'[t] = seen[t]
      BY <2>1, <2>2, <1>p
    <3> QED BY <3>1, <2>4, <1>c DEF BoundInv, ReadsTrue
  <2> QED BY <2>5, <2>6, <2>7 DEF BoundInv
<1>7. ASSUME NEW s \in Slots, Acquire(s) \/ AcquireRefused(s) \/ Release(s) PROVE BoundInv'
  <2>1. UNCHANGED jobs
    BY <1>7 DEF Acquire, AcquireRefused, Release, jobTableVars
  <2>2. \A t \in Slots :
           \/ UNCHANGED <<pc[t], job[t], seen[t]>>
           \/ pc'[t] \notin {"acquire", "markRunning", "markFailed"}
           \/ pc[t] = "acquire" /\ pc'[t] = "markRunning" /\ UNCHANGED job[t]
    BY <1>7, <1>p DEF Acquire, AcquireRefused, Release, Goto, Leave
  <2> QED BY <2>1, <2>2, <1>c, BoundFrame
<1>8. ASSUME NEW s \in Slots, RunRejected(s) \/ Execute(s) \/ Timeout(s) PROVE BoundInv'
  <2>1. UNCHANGED jobs
    BY <1>8 DEF RunRejected, MarkRunningRejected, Execute, Timeout, jobTableVars
  <2>2. \/ Leave(s)
        \/ \E p \in {"markSucceeded", "markFailed", "release"}, r \in BOOLEAN : Goto(s, p, r)
    BY <1>8 DEF RunRejected, Execute, Timeout, GiveUp
  <2>3. \A t \in Slots :
           \/ UNCHANGED <<pc[t], job[t], seen[t]>>
           \/ pc'[t] \notin {"acquire", "markRunning", "markFailed"}
           \/ pc'[t] = "markFailed" /\ seen'[t] = Unread
    BY <2>2, <1>p DEF Goto, Leave
  <2> QED BY <2>1, <2>3, <1>c, BoundFrame
<1>9. ASSUME NEW s \in Slots, Run(s) PROVE BoundInv'
  <2> DEFINE j == job[s]
  <2>1. /\ pc[s] = "markRunning" /\ pc' = [pc EXCEPT ![s] = "execute"] /\ job' = job
        /\ seen' = [seen EXCEPT ![s] = Unread]
        /\ jobs' = [jobs EXCEPT ![j].status = "running", ![j].attempts = @ + 1]
        /\ jobs[j].claimed_by = SlotWorker[s] /\ j \in Jobs
    BY <1>9, <1>p DEF Run, MarkRunning, ClaimedBy, Goto
  <2>2. /\ \A i \in Jobs \ {j} : jobs'[i] = jobs[i]
        /\ jobs'[j].status = "running" /\ jobs'[j].claimed_by = SlotWorker[s]
        /\ jobs'[j].attempts = jobs[j].attempts + 1
    BY <2>1, <1>p DEF JobRow
  <2>3. j \in Clean => jobs[j].attempts < MaxAttempts
    BY <2>1 DEF BoundInv, StartsFresh, AttemptLeft
  <2>4. ASSUME NEW t \in Slots, t # s, job[t] = j, pc[t] = "markFailed" PROVE j \notin Clean
    <3>1. Holding(s) /\ Holding(t)
      BY <2>1, <2>4 DEF Holding, PC, Calls
    <3> QED BY <3>1, <2>4, SoleHolder DEF Clean
  <2> HIDE DEF j
  <2>5. AttemptsBounded' /\ AttemptLeft'
    BY <2>2, <2>3, <1>c, <1>n, <1>p DEF BoundInv, AttemptsBounded, AttemptLeft, Clean
  <2>6. StartsFresh'
    <3> SUFFICES ASSUME NEW t \in Slots, pc'[t] \in {"acquire", "markRunning"},
                        job'[t] \in Clean', jobs'[job'[t]].claimed_by = SlotWorker[t]
                 PROVE  jobs'[job'[t]].status \in {"queued", "cancelled"}
      BY DEF StartsFresh
    <3>1. t # s /\ pc'[t] = pc[t] /\ job'[t] = job[t]
      BY <2>1, <1>p
    <3>2. job[t] # j
      BY <3>1, <2>2 DEF OneThread
    <3>3. jobs'[job[t]] = jobs[job[t]]
      BY <3>1, <3>2, <2>2, <1>c
    <3> QED BY <3>1, <3>3, <1>c DEF BoundInv, StartsFresh
  <2>7. ReadsTrue'
    <3> SUFFICES ASSUME NEW t \in Slots, pc'[t] = "markFailed", seen'[t] # Unread,
                        job'[t] \in Clean'
                 PROVE  seen'[t] = jobs'[job'[t]].attempts
      BY DEF ReadsTrue
    <3>1. t # s /\ pc'[t] = pc[t] /\ job'[t] = job[t] /\ seen'[t] = seen[t]
      BY <2>1, <1>p
    <3>2. jobs'[job[t]] = jobs[job[t]]
      BY <3>1, <2>2, <2>4, <1>c
    <3> QED BY <3>1, <3>2, <1>c DEF BoundInv, ReadsTrue
  <2> QED BY <2>5, <2>6, <2>7 DEF BoundInv
<1>10. ASSUME NEW s \in Slots, Succeed(s) PROVE BoundInv'
  <2> DEFINE j == job[s]
  <2>1. /\ pc[s] = "markSucceeded" /\ pc' = [pc EXCEPT ![s] = "release"] /\ job' = job
        /\ seen' = [seen EXCEPT ![s] = Unread]
        /\ jobs' = [jobs EXCEPT ![j].status = "succeeded"] /\ j \in Jobs
    BY <1>10, <1>p DEF Succeed, MarkSucceeded, SetStatus, Goto
  <2>2. /\ \A i \in Jobs \ {j} : jobs'[i] = jobs[i]
        /\ jobs'[j].status = "succeeded" /\ jobs'[j].claimed_by = jobs[j].claimed_by
        /\ jobs'[j].attempts = jobs[j].attempts
    BY <2>1, <1>p DEF JobRow
  <2>3. j \in Clean' => jobs[j].claimed_by = SlotWorker[s]
    BY <2>1, <1>c DEF OwnershipInv, ExecutionOwnership, Executing, Clean
  <2>4. \A t \in Slots : pc[t] \in {"acquire", "markRunning"} => SlotWorker[t] # SlotWorker[s]
    BY <2>1 DEF OneThread
  <2>5. \A t \in Slots : \/ UNCHANGED <<pc[t], job[t], seen[t]>>
                         \/ pc'[t] \notin {"acquire", "markRunning", "markFailed"}
    BY <2>1, <1>p
  <2>6. j \in Jobs
    BY <2>1
  <2> HIDE DEF j
  <2> QED BY <2>2, <2>3, <2>4, <2>5, <2>6, <1>c, BoundRow
<1>11. ASSUME NEW s \in Slots, ReadAttempts(s) PROVE BoundInv'
  <2>1. /\ seen' = [seen EXCEPT ![s] = jobs[job[s]].attempts] /\ UNCHANGED <<jobs, pc, job>>
    BY <1>11 DEF ReadAttempts, jobTableVars
  <2>2. AttemptsBounded' /\ AttemptLeft' /\ StartsFresh'
    BY <2>1, <1>c DEF BoundInv, AttemptsBounded, AttemptLeft, StartsFresh, Clean
  <2>3. ReadsTrue'
    BY <2>1, <1>c, <1>p DEF BoundInv, ReadsTrue
  <2> QED BY <2>2, <2>3 DEF BoundInv
<1>12. ASSUME NEW s \in Slots, Fail(s) PROVE BoundInv'
  <2> DEFINE j == job[s]
  <2>1. /\ pc[s] = "markFailed" /\ pc' = [pc EXCEPT ![s] = "release"] /\ job' = job
        /\ seen[s] # Unread /\ seen' = [seen EXCEPT ![s] = Unread] /\ j \in Jobs
    BY <1>12, <1>p DEF Fail, Goto
  <2>2. PICK x : x = StatusAfterFailure(retriable[s], seen[s])
    OBVIOUS
  <2>3. jobs' = [jobs EXCEPT ![j].status = x, ![j].claimed_by = NoWorker]
    BY <1>12, <2>2, Zenon DEF Fail, MarkFailed
  <2>4. (x = "queued" /\ seen[s] < MaxAttempts) \/ x = "failed"
    BY <2>2 DEF StatusAfterFailure
  <2>5. j \in Clean' => seen[s] = jobs[j].attempts
    BY <2>1, <1>c DEF BoundInv, ReadsTrue
  <2>6. \A t \in Slots : \/ UNCHANGED <<pc[t], job[t], seen[t]>>
                         \/ pc'[t] \notin {"acquire", "markRunning", "markFailed"}
    BY <2>1, <1>p
  <2>7. j \in Jobs
    BY <2>1
  <2> HIDE DEF j
  <2>8. /\ \A i \in Jobs \ {j} : jobs'[i] = jobs[i]
        /\ jobs'[j].status = x /\ jobs'[j].claimed_by = NoWorker
        /\ jobs'[j].attempts = jobs[j].attempts
    BY <2>3, <2>7, <1>p DEF JobRow
  <2>9. \A t \in Slots : SlotWorker[t] # NoWorker
    BY JobProcessingAssumption, JobDomainAssumption
  <2> QED BY <2>4, <2>5, <2>6, <2>7, <2>8, <2>9, <1>c, BoundRow
<1>13. ASSUME NEW w \in Workers, Crash(w) PROVE BoundInv'
  <2>1. /\ UNCHANGED jobs
        /\ pc' = [s \in Slots |-> IF SlotWorker[s] = w THEN "idle" ELSE pc[s]]
        /\ job' = [s \in Slots |-> IF SlotWorker[s] = w THEN NoJob ELSE job[s]]
        /\ seen' = [s \in Slots |-> IF SlotWorker[s] = w THEN Unread ELSE seen[s]]
    BY <1>13 DEF Crash, ClaimAbandon
  <2> QED BY <2>1, <1>c, BoundFrame
<1>14. ASSUME NEW r \in late, Land(r) PROVE BoundInv'
  <2>1. r.job \in Jobs /\ UNCHANGED <<pc, job, seen>>
    BY <1>14 DEF TypeOK, Request, Land, slotVars
  <2>2. CASE LandLockRequest(r) \/ LandRead(r)
    BY <2>1, <2>2, <1>1 DEF LandLockRequest, LandRead, jobTableVars
  <2>3. CASE LandMark(r)
    <3>1. r.job \notin Clean'
      BY <2>3 DEF LandMark, Clean
    <3>2. \A i \in Jobs \ {r.job} : jobs'[i] = jobs[i]
      BY <2>1, <2>3, <1>p DEF LandMark, MarkRunning, MarkRunningRejected, MarkSucceeded,
         MarkFailed, SetStatus, jobTableVars
    <3> QED BY <2>1, <3>1, <3>2, <1>c, BoundRow
  <2> QED BY <2>2, <2>3, <1>14 DEF Land
<1>15. ASSUME Tick \/ Cleanup PROVE BoundInv'
  BY <1>15, <1>1 DEF Tick, Cleanup, jobTableVars, slotVars
<1>16. ASSUME UNCHANGED vars PROVE BoundInv'
  BY <1>16, <1>1 DEF vars
<1> QED
  BY <1>2, <1>3, <1>5, <1>6, <1>7, <1>8, <1>9, <1>10, <1>11, <1>12, <1>13, <1>14, <1>15,
     <1>16, Zenon
  DEF Next, ClaimStep, SlotStep

(* All of it together *)
Kept == TypeOK /\ LeaseInv /\ OwnershipInv /\ BoundInv

LEMMA KeptHolds == OneThread => (Spec => []Kept)
<1> SUFFICES ASSUME OneThread PROVE Spec => []Kept
  OBVIOUS
<1>1. Init => Kept
  <2> SUFFICES ASSUME Init PROVE Kept
    OBVIOUS
  <2>1. TypeOK /\ LeaseInv /\ OwnershipInv
    BY InitTypeOK, LeaseInit, OwnershipInit
  <2>2. BoundInv
    BY JobTableAssumption DEF Init, JobTableInit, BoundInv, AttemptsBounded, AttemptLeft,
       StartsFresh, ReadsTrue, Clean
  <2> QED BY <2>1, <2>2 DEF Kept
<1>2. Kept /\ [Next]_vars => Kept'
  <2> SUFFICES ASSUME Kept, [Next]_vars PROVE Kept'
    OBVIOUS
  <2>1. TypeOK' /\ LeaseInv' /\ OwnershipInv'
    BY TypeOKStep, LeaseStep, OwnershipStep DEF Kept
  <2> QED BY <2>1, BoundStep DEF Kept
<1> QED BY <1>1, <1>2, PTL DEF Spec

(* Where every worker has one thread, no job is attempted more than        *)
(* max_attempts times, whatever fails or crashes, except one whose lease   *)
(* ran out or whose row a late request has hit.                            *)
THEOREM AttemptsBoundedCorrect == OneThread => (Spec => []AttemptsBounded)
<1>1. Kept => AttemptsBounded
  BY DEF Kept, BoundInv
<1> QED BY <1>1, KeptHolds, PTL

-----------------------------------------------------------------------------
(* Settled once.                                                           *)

OneSlot == \A s, t \in Slots : s = t

Settled == {"succeeded", "failed"}

(* The slot has not written the end of its job yet. *)
Working(s) ==
    pc[s] \in {"acquire", "markRunning", "execute", "markSucceeded", "markFailed"}

Unsettled ==
    \A s \in Slots : Working(s) /\ job[s] \in Clean => jobs[job[s]].status \notin Settled

NoneResettled == \A j \in Clean' : jobs[j].status \in Settled => jobs'[j].status = jobs[j].status

(* A step that settles no job but, perhaps, those that do not count.       *)
LEMMA UnsettledFrame ==
    ASSUME Unsettled, Clean' \subseteq Clean,
           \A j \in Clean' : jobs'[j].status = jobs[j].status,
           \A s \in Slots : Working(s)' => Working(s) /\ job'[s] = job[s]
    PROVE  Unsettled' /\ NoneResettled
  BY DEF Unsettled, NoneResettled

(* The slot that works on a job finds it unsettled: nobody else works on   *)
(* it, and the service gives away queued jobs only.                        *)
LEMMA UnsettledStep ==
    ASSUME OneSlot, TypeOK, ClaimsQueued, Unsettled, [Next]_vars
    PROVE  Unsettled' /\ NoneResettled
<1>p. /\ pc \in [Slots -> PC] /\ job \in [Slots -> Jobs \cup {NoJob}]
      /\ jobs \in [Jobs -> JobRow] /\ claiming \in [Workers -> Jobs \cup {NoJob}]
      /\ \A s \in Slots : pc[s] # "idle" => job[s] \in Jobs
  BY DEF TypeOK, JobTableTypeOK
<1>c. Clean' \subseteq Clean /\ Clean \subseteq Jobs
  BY CleanShrinks DEF Clean
<1>1. ASSUME UNCHANGED <<jobs, pc, job>> PROVE Unsettled' /\ NoneResettled
  BY <1>1, <1>c, UnsettledFrame DEF Working
<1>2. ASSUME NEW j \in Jobs, Enqueue(j) \/ Cancel(j) PROVE Unsettled' /\ NoneResettled
  <2>1. PICK x \in {"queued", "cancelled"} : jobs' = [jobs EXCEPT ![j].status = x]
    BY <1>2, Zenon DEF Enqueue, Cancel, EnqueueJob, CancelQueuedJob, SetStatus
  <2>2. jobs[j].status \notin Settled
    BY <1>2 DEF Enqueue, Cancel, EnqueueJob, CancelQueuedJob, Settled
  <2>3. /\ jobs'[j].status \notin Settled
        /\ \A i \in Jobs \ {j} : jobs'[i] = jobs[i]
    BY <2>1, <1>p DEF Settled, JobRow
  <2>4. UNCHANGED <<pc, job>>
    BY <1>2 DEF Enqueue, Cancel, slotVars
  <2> QED BY <2>2, <2>3, <2>4, <1>c DEF Unsettled, NoneResettled, Working
<1>3. ASSUME NEW w \in Workers, ClaimDeliver(w) PROVE Unsettled' /\ NoneResettled
  <2>1. claiming[w] \in Jobs /\ jobs[claiming[w]].status = "queued"
    BY <1>3, <1>p DEF ClaimDeliver, ClaimCommit, ClaimsQueued
  <2>2. \A i \in Jobs : jobs'[i].status = jobs[i].status
    BY <1>3, ClaimKeepsStatus DEF Claims, ClaimStep
  <2>3. \A t \in Slots : Working(t)' => \/ Working(t) /\ job'[t] = job[t]
                                        \/ job'[t] = claiming[w]
    BY <1>3, <1>p DEF ClaimDeliver, IdleSlots, SlotsOf, Working
  <2>4. jobs'[claiming[w]].status \notin Settled
    BY <2>1, <2>2 DEF Settled
  <2> QED BY <2>2, <2>3, <2>4, <1>c DEF Unsettled, NoneResettled
<1>11. ASSUME NEW w \in Workers, ClaimLate(w) \/ LateClaimStep(w)
       PROVE  Unsettled' /\ NoneResettled
  <2>1. \A i \in Jobs : jobs'[i].status = jobs[i].status
    BY <1>11, ClaimKeepsStatus DEF Claims
  <2> QED BY <1>11, <2>1, <1>c, UnsettledFrame, LateClaimFrame DEF Working
<1>4. ASSUME NEW s \in Slots,
             \/ Acquire(s) \/ AcquireRefused(s) \/ RunRejected(s) \/ Execute(s)
             \/ ReadAttempts(s) \/ Release(s) \/ Timeout(s)
      PROVE  Unsettled' /\ NoneResettled
  <2>1. UNCHANGED jobs
    BY <1>4 DEF Acquire, AcquireRefused, RunRejected, MarkRunningRejected, Execute,
       ReadAttempts, Release, Timeout, jobTableVars
  <2>2. \/ Leave(s) \/ ReadAttempts(s)
        \/ Working(s) /\ \E p \in PC, r \in BOOLEAN : Goto(s, p, r)
        \/ Goto(s, "release", FALSE)
    BY <1>4 DEF Acquire, AcquireRefused, RunRejected, Execute, Release, Timeout, GiveUp, PC,
       Calls, Working
  <2>3. \A t \in Slots : Working(t)' => Working(t) /\ job'[t] = job[t]
    BY <2>2, <1>p DEF Leave, Goto, ReadAttempts, Working
  <2> QED BY <2>1, <2>3, <1>c, UnsettledFrame
<1>5. ASSUME NEW s \in Slots, Run(s) PROVE Unsettled' /\ NoneResettled
  <2>0. PICK j \in Jobs : j = job[s]
    BY <1>5, <1>p DEF Run
  <2>1. /\ Working(s) /\ job' = job /\ pc' = [pc EXCEPT ![s] = "execute"]
        /\ jobs' = [jobs EXCEPT ![j].status = "running", ![j].attempts = @ + 1]
    BY <1>5, <2>0 DEF Run, MarkRunning, Goto, Working
  <2>2. jobs'[j].status = "running" /\ \A i \in Jobs \ {j} : jobs'[i] = jobs[i]
    BY <2>1, <1>p DEF JobRow
  <2>3. \A t \in Slots : Working(t)' => Working(t) /\ job'[t] = job[t]
    BY <2>1, <1>p DEF Working
  <2>4. j \in Clean => jobs[j].status \notin Settled
    BY <2>0, <2>1 DEF Unsettled
  <2>5. jobs'[j].status \notin Settled
    BY <2>2 DEF Settled
  <2> QED BY <2>2, <2>3, <2>4, <2>5, <1>c DEF Unsettled, NoneResettled
<1>6. ASSUME NEW s \in Slots, Succeed(s) \/ Fail(s) PROVE Unsettled' /\ NoneResettled
  <2>0. PICK j \in Jobs : j = job[s]
    BY <1>6, <1>p DEF Succeed, Fail
  <2>1. Working(s) /\ pc' = [pc EXCEPT ![s] = "release"]
    BY <1>6 DEF Succeed, Fail, Goto, Working
  <2>2. \A i \in Jobs \ {j} : jobs'[i] = jobs[i]
    BY <1>6, <2>0, <1>p DEF Succeed, MarkSucceeded, SetStatus, Fail, MarkFailed
  <2>3. \A t \in Slots : ~Working(t)'
    BY <2>1, <1>p DEF OneSlot, Working
  <2>4. j \in Clean => jobs[j].status \notin Settled
    BY <2>0, <2>1 DEF Unsettled
  <2> QED BY <2>2, <2>3, <2>4, <1>c DEF Unsettled, NoneResettled
<1>7. ASSUME NEW w \in Workers, ClaimStart(w) \/ ClaimRollback(w) \/ Start(w)
      PROVE  Unsettled' /\ NoneResettled
  BY <1>7, <1>1 DEF ClaimStart, ClaimSelect, ClaimRollback, ClaimAbort, Start, jobTableVars,
     slotVars
<1>8. ASSUME NEW w \in Workers, Crash(w) PROVE Unsettled' /\ NoneResettled
  <2>1. \A t \in Slots : Working(t)' => Working(t) /\ job'[t] = job[t]
    BY <1>8 DEF Crash, Working
  <2> QED BY <1>8, <2>1, <1>c, UnsettledFrame DEF Crash, ClaimAbandon
<1>9. ASSUME NEW r \in late, Land(r) PROVE Unsettled' /\ NoneResettled
  <2>1. r.job \in Jobs /\ UNCHANGED <<pc, job>>
    BY <1>9 DEF TypeOK, Request, Land, slotVars
  <2>2. CASE LandLockRequest(r) \/ LandRead(r)
    BY <2>1, <2>2, <1>1 DEF LandLockRequest, LandRead, jobTableVars
  <2>3. CASE LandMark(r)
    <3>1. r.job \notin Clean'
      BY <2>3 DEF LandMark, Clean
    <3>2. \A i \in Jobs \ {r.job} : jobs'[i] = jobs[i]
      BY <2>1, <2>3, <1>p DEF LandMark, MarkRunning, MarkRunningRejected, MarkSucceeded,
         MarkFailed, SetStatus, jobTableVars
    <3> QED BY <2>1, <3>1, <3>2, <1>c, UnsettledFrame DEF Working
  <2> QED BY <2>2, <2>3, <1>9 DEF Land
<1>10. ASSUME Tick \/ Cleanup \/ UNCHANGED vars PROVE Unsettled' /\ NoneResettled
  BY <1>10, <1>1 DEF Tick, Cleanup, jobTableVars, slotVars, vars
<1> HIDE DEF NoneResettled, Unsettled
<1> QED
  BY <1>2, <1>3, <1>4, <1>5, <1>6, <1>7, <1>8, <1>9, <1>10, <1>11, Zenon
  DEF Next, ClaimStep, SlotStep

(* Where a single thread works, no job is settled a second time, whatever  *)
(* fails or crashes, unless its lease ran out or a late request hit it.    *)
THEOREM SettledStaysCorrect == OneSlot => (Spec => SettledStays)
<1> SUFFICES ASSUME OneSlot PROVE Spec => SettledStays
  OBVIOUS
<1>1. Init => TypeOK /\ ClaimsQueued /\ Unsettled
  <2> SUFFICES ASSUME Init PROVE TypeOK /\ ClaimsQueued /\ Unsettled
    OBVIOUS
  <2> QED BY InitTypeOK, OwnershipInit DEF OwnershipInv, Unsettled, Working, Init
<1>2. TypeOK /\ ClaimsQueued /\ Unsettled /\ [Next]_vars => (TypeOK /\ ClaimsQueued /\ Unsettled)'
  BY TypeOKStep, ClaimsQueuedStep, UnsettledStep
<1>3. TypeOK /\ ClaimsQueued /\ Unsettled /\ [Next]_vars =>
        [\A j \in Jobs \ (overran \cup strayed)' :
            jobs[j].status \in {"succeeded", "failed"} => jobs'[j].status = jobs[j].status]_vars
  BY UnsettledStep DEF NoneResettled, Settled, Clean
<1> QED BY <1>1, <1>2, <1>3, PTL DEF Spec, SettledStays
=============================================================================
