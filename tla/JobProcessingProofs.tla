------------------------ MODULE JobProcessingProofs ------------------------
(***************************************************************************)
(* Theorems about JobProcessing, for any jobs, workers, slots, keys and    *)
(* bounds.                                                                 *)
(***************************************************************************)
EXTENDS JobProcessing, TLAPS

-----------------------------------------------------------------------------
(* The operations of the two tables keep their types. *)

LEMMA SetStatusType ==
    ASSUME JobTableTypeOK, NEW j \in Jobs, NEW s \in JobStatus, SetStatus(j, s)
    PROVE  jobs' \in [Jobs -> JobRow]
  BY DEF JobTableTypeOK, JobRow, SetStatus

LEMMA QueueOpsType ==
    ASSUME JobTableTypeOK, NEW j \in Jobs, EnqueueJob(j) \/ CancelQueuedJob(j)
    PROVE  JobTableTypeOK'
<1>1. {"queued", "cancelled"} \subseteq JobStatus
  BY DEF JobStatus
<1> QED BY <1>1, SetStatusType DEF EnqueueJob, CancelQueuedJob, JobTableTypeOK, claimVars

LEMMA ClaimOpsType ==
    ASSUME JobTableTypeOK, NEW w \in Workers,
           ClaimSelect(w) \/ ClaimCommit(w) \/ ClaimAbort(w)
    PROVE  JobTableTypeOK'
<1>1. CASE ClaimSelect(w)
  BY <1>1 DEF ClaimSelect, JobTableTypeOK
<1>2. CASE ClaimCommit(w)
  BY <1>2 DEF ClaimCommit, SetClaimedBy, JobTableTypeOK, JobRow
<1>3. CASE ClaimAbort(w)
  BY <1>3 DEF ClaimAbort, JobTableTypeOK
<1> QED BY <1>1, <1>2, <1>3

LEMMA LateClaimOpsType ==
    ASSUME JobTableTypeOK, NEW w \in Workers,
           \/ LateSelect(w) \/ ClaimAbandon(w)
           \/ \E j \in Jobs : LateCommit(j, w) \/ LateAbort(j, w)
    PROVE  JobTableTypeOK'
<1>1. CASE LateSelect(w)
  BY <1>1 DEF LateSelect, JobTableTypeOK
<1>2. ASSUME NEW j \in Jobs, LateCommit(j, w) PROVE JobTableTypeOK'
  BY <1>2 DEF LateCommit, SetClaimedBy, JobTableTypeOK, JobRow
<1>3. ASSUME NEW j \in Jobs, LateAbort(j, w) PROVE JobTableTypeOK'
  BY <1>3 DEF LateAbort, JobTableTypeOK
<1>4. CASE ClaimAbandon(w)
  BY <1>4 DEF ClaimAbandon, JobTableTypeOK
<1> QED BY <1>1, <1>2, <1>3, <1>4

LEMMA RowAfterFailureType ==
    ASSUME NEW row \in JobRow, NEW s \in JobStatus
    PROVE  [row EXCEPT !.status = s, !.claimed_by = NoWorker] \in JobRow
  BY DEF JobRow

LEMMA MarkOpsType ==
    ASSUME JobTableTypeOK, NEW j \in Jobs, NEW w \in Workers,
           NEW r \in BOOLEAN, NEW n \in Nat,
           MarkRunning(j, w) \/ MarkSucceeded(j) \/ MarkFailed(j, r, n)
    PROVE  JobTableTypeOK'
<1>0. /\ {"running", "succeeded"} \subseteq JobStatus
      /\ StatusAfterFailure(r, n) \in JobStatus
  BY DEF JobStatus, StatusAfterFailure
<1>1. CASE MarkRunning(j, w)
  BY <1>0, <1>1 DEF MarkRunning, JobTableTypeOK, JobRow, claimVars
<1>2. CASE MarkSucceeded(j)
  BY <1>0, <1>2, SetStatusType DEF MarkSucceeded, JobTableTypeOK, claimVars
<1>3. CASE MarkFailed(j, r, n)
  <2>1. PICK s \in JobStatus : s = StatusAfterFailure(r, n)
    BY <1>0
  <2>2. jobs' = [jobs EXCEPT ![j].status = s, ![j].claimed_by = NoWorker]
    BY <1>3, <2>1, Zenon DEF MarkFailed
  <2>3. jobs' = [jobs EXCEPT ![j] = [@ EXCEPT !.status = s, !.claimed_by = NoWorker]]
    BY <2>2
  <2>4. [jobs[j] EXCEPT !.status = s, !.claimed_by = NoWorker] \in JobRow
    BY RowAfterFailureType DEF JobTableTypeOK
  <2>5. jobs' \in [Jobs -> JobRow]
    BY <2>3, <2>4 DEF JobTableTypeOK
  <2>6. UNCHANGED claimVars
    BY <1>3 DEF MarkFailed
  <2> QED BY <2>5, <2>6 DEF JobTableTypeOK, claimVars
<1> QED BY <1>1, <1>2, <1>3

LEMMA LockRowType == NoRow \in LockRow /\ TTL \in 0 .. TTL
  BY ResourceLocksAssumption DEF NoRow, LockRow

LEMMA LockOpsType ==
    ASSUME LocksTypeOK, NEW j \in Jobs, NEW w \in Workers, NEW K \in SUBSET Keys,
           LockAcquire(j, w, K) \/ LockRefused(K) \/ LockRelease(j, w)
    PROVE  LocksTypeOK'
<1> USE DEF LocksTypeOK
<1>1. CASE LockAcquire(j, w, K)
  BY <1>1, LockRowType DEF LockAcquire, LockRow
<1>2. CASE LockRefused(K)
  BY <1>2 DEF LockRefused
<1>3. CASE LockRelease(j, w)
  BY <1>3, LockRowType DEF LockRelease
<1> QED BY <1>1, <1>2, <1>3

LEMMA LockTimeType ==
    ASSUME LocksTypeOK, LockTick \/ LockCleanup
    PROVE  LocksTypeOK'
<1> USE DEF LocksTypeOK
<1>1. CASE LockTick
  <2>1. ASSUME NEW k \in Keys
        PROVE  [locks[k] EXCEPT !.left = IF @ > 0 THEN @ - 1 ELSE 0] \in LockRow
    <3>1. locks[k] \in LockRow
      OBVIOUS
    <3>2. \A n \in 0 .. TTL : (IF n > 0 THEN n - 1 ELSE 0) \in 0 .. TTL
      BY ResourceLocksAssumption
    <3> QED BY <3>1, <3>2 DEF LockRow
  <2> QED BY <1>1, <2>1 DEF LockTick
<1>2. CASE LockCleanup
  BY <1>2, LockRowType DEF LockCleanup
<1> QED BY <1>1, <1>2

-----------------------------------------------------------------------------
(* The slots. *)

LEMMA InitTypeOK == Init => TypeOK
  BY ResourceLocksAssumption
  DEF Init, JobTableInit, LocksInit, NoRow, TypeOK, JobTableTypeOK, JobRow,
      JobStatus, LocksTypeOK, LockRow, PC, Calls, Unread

(* What the moves of a slot do to its own variables. *)
SlotsTypeOK ==
    /\ pc \in [Slots -> PC]
    /\ job \in [Slots -> Jobs \cup {NoJob}]
    /\ \A s \in Slots : pc[s] # "idle" => job[s] \in Jobs
    /\ retriable \in [Slots -> BOOLEAN]
    /\ seen \in [Slots -> Nat \cup {Unread}]

LEMMA GotoType ==
    ASSUME SlotsTypeOK, NEW s \in Slots, pc[s] # "idle", NEW p \in PC,
           NEW r \in BOOLEAN, Goto(s, p, r)
    PROVE  SlotsTypeOK'
  BY DEF SlotsTypeOK, Goto

LEMMA LeaveType ==
    ASSUME SlotsTypeOK, NEW s \in Slots, Leave(s)
    PROVE  SlotsTypeOK'
  BY DEF SlotsTypeOK, Leave, PC

LEMMA GiveUpType ==
    ASSUME SlotsTypeOK, NEW s \in Slots, GiveUp(s)
    PROVE  SlotsTypeOK'
<1>1. {"markFailed", "release"} \subseteq PC
  BY DEF PC, Calls
<1> QED BY <1>1, GotoType, LeaveType DEF GiveUp

LEMMA RequestOfType ==
    ASSUME SlotsTypeOK, NEW s \in Slots, pc[s] \in Calls
    PROVE  RequestOf(s) \in Request
<1>1. job[s] \in Jobs /\ SlotWorker[s] \in Workers
  BY JobProcessingAssumption DEF SlotsTypeOK, Calls
<1> QED BY <1>1 DEF SlotsTypeOK, RequestOf, Request

LEMMA TypeOKStep == TypeOK /\ [Next]_vars => TypeOK'
<1> SUFFICES ASSUME TypeOK, [Next]_vars PROVE TypeOK'
  OBVIOUS
<1>a. /\ JobTableTypeOK
      /\ LocksTypeOK
      /\ SlotsTypeOK
      /\ up \in [Workers -> BOOLEAN]
      /\ late \subseteq Request
      /\ faults \in Nat /\ crashes \in Nat
      /\ overran \subseteq Jobs /\ strayed \subseteq Jobs
  BY DEF TypeOK, SlotsTypeOK
<1>b. ASSUME JobTableTypeOK', LocksTypeOK', SlotsTypeOK', UNCHANGED <<up, late>>,
             faults' \in Nat, UNCHANGED <<crashes, historyVars>>
      PROVE  TypeOK'
  BY <1>a, <1>b DEF TypeOK, SlotsTypeOK, historyVars
<1>c. UNCHANGED jobTableVars => JobTableTypeOK'
  BY <1>a DEF jobTableVars, claimVars, JobTableTypeOK
<1>d. UNCHANGED locks => LocksTypeOK'
  BY <1>a DEF LocksTypeOK
<1>e. UNCHANGED slotVars => SlotsTypeOK'
  BY <1>a DEF slotVars, SlotsTypeOK
<1>f. ASSUME NEW s \in Slots, pc[s] # "idle"
      PROVE  job[s] \in Jobs /\ SlotWorker[s] \in Workers /\ JobKeys[job[s]] \in SUBSET Keys
  BY <1>a, <1>f, JobProcessingAssumption DEF SlotsTypeOK
<1>g. ASSUME NEW s \in Slots, seen[s] # Unread
      PROVE  seen[s] \in Nat /\ retriable[s] \in BOOLEAN
  BY <1>a, <1>g DEF SlotsTypeOK
<1>1. ASSUME NEW j \in Jobs, Enqueue(j) PROVE TypeOK'
  BY <1>a, <1>b, <1>c, <1>d, <1>e, <1>1, QueueOpsType DEF Enqueue
<1>2. ASSUME NEW j \in Jobs, Cancel(j) PROVE TypeOK'
  BY <1>a, <1>b, <1>c, <1>d, <1>e, <1>2, QueueOpsType DEF Cancel
<1>3. ASSUME NEW w \in Workers, ClaimStart(w) PROVE TypeOK'
  BY <1>a, <1>b, <1>c, <1>d, <1>e, <1>3, ClaimOpsType DEF ClaimStart
<1>4. ASSUME NEW w \in Workers, ClaimDeliver(w) PROVE TypeOK'
  <2>1. SlotsTypeOK'
    BY <1>a, <1>4 DEF ClaimDeliver, ClaimCommit, IdleSlots, SlotsOf, SlotsTypeOK,
                     JobTableTypeOK, PC, Calls
  <2> QED BY <1>a, <1>b, <1>d, <1>4, <2>1, ClaimOpsType DEF ClaimDeliver
<1>5. ASSUME NEW w \in Workers, ClaimLate(w) \/ LateClaimStep(w) PROVE TypeOK'
  <2>1. JobTableTypeOK'
    BY <1>a, <1>5, LateClaimOpsType DEF ClaimLate, LateClaimStep, ClaimUnheard
  <2> QED BY <1>a, <1>b, <1>d, <1>e, <1>5, <2>1 DEF ClaimLate, LateClaimStep, ClaimUnheard
<1>6. ASSUME NEW w \in Workers, ClaimRollback(w) PROVE TypeOK'
  BY <1>a, <1>b, <1>c, <1>d, <1>e, <1>6, ClaimOpsType DEF ClaimRollback
<1>7. ASSUME NEW w \in Workers, Start(w) PROVE TypeOK'
  <2>1. up' \in [Workers -> BOOLEAN]
    BY <1>a, <1>7 DEF Start
  <2> QED BY <1>a, <1>c, <1>d, <1>e, <1>7, <2>1
          DEF Start, TypeOK, SlotsTypeOK, historyVars
<1>8. ASSUME NEW s \in Slots, Acquire(s) PROVE TypeOK'
  <2>1. pc[s] # "idle"
    BY <1>8 DEF Acquire
  <2>2. SlotsTypeOK'
    BY <1>a, <1>8, <2>1, GotoType DEF Acquire, PC, Calls
  <2> QED BY <1>a, <1>b, <1>c, <1>d, <1>f, <1>8, <2>1, <2>2, LockOpsType DEF Acquire
<1>9. ASSUME NEW s \in Slots, AcquireRefused(s) PROVE TypeOK'
  <2>1. pc[s] # "idle"
    BY <1>9 DEF AcquireRefused
  <2>2. SlotsTypeOK'
    BY <1>a, <1>9, <2>1, LeaveType DEF AcquireRefused, PC, Calls
  <2> QED BY <1>a, <1>b, <1>c, <1>d, <1>f, <1>9, <2>1, <2>2, LockOpsType DEF AcquireRefused
<1>10. ASSUME NEW s \in Slots, Run(s) PROVE TypeOK'
  <2>1. pc[s] # "idle"
    BY <1>10 DEF Run
  <2>2. SlotsTypeOK'
    BY <1>a, <1>10, <2>1, GotoType DEF Run, PC, Calls
  <2> QED BY <1>a, <1>b, <1>c, <1>d, <1>f, <1>10, <2>1, <2>2, MarkOpsType DEF Run
<1>11. ASSUME NEW s \in Slots, RunRejected(s) PROVE TypeOK'
  <2>1. pc[s] # "idle"
    BY <1>11 DEF RunRejected
  <2>2. SlotsTypeOK'
    BY <1>a, <1>11, <2>1, GiveUpType DEF RunRejected, PC, Calls
  <2> QED BY <1>a, <1>b, <1>c, <1>d, <1>f, <1>11, <2>1, <2>2 DEF RunRejected, MarkRunningRejected
<1>12. ASSUME NEW s \in Slots, Execute(s) PROVE TypeOK'
  <2>1. pc[s] # "idle"
    BY <1>12 DEF Execute
  <2>2. SlotsTypeOK'
    BY <1>a, <1>12, <2>1, GotoType DEF Execute, PC, Calls
  <2> QED BY <1>a, <1>b, <1>c, <1>d, <1>f, <1>12, <2>1, <2>2 DEF Execute
<1>13. ASSUME NEW s \in Slots, Succeed(s) PROVE TypeOK'
  <2>1. pc[s] # "idle"
    BY <1>13 DEF Succeed
  <2>2. SlotsTypeOK'
    BY <1>a, <1>13, <2>1, GotoType DEF Succeed, PC, Calls
  <2> QED BY <1>a, <1>b, <1>c, <1>d, <1>f, <1>13, <2>1, <2>2, MarkOpsType DEF Succeed
<1>14. ASSUME NEW s \in Slots, ReadAttempts(s) PROVE TypeOK'
  <2>1. jobs[job[s]].attempts \in Nat
    BY <1>a, <1>f, <1>14 DEF ReadAttempts, JobTableTypeOK, JobRow
  <2>2. SlotsTypeOK'
    BY <1>a, <1>14, <2>1 DEF ReadAttempts, SlotsTypeOK
  <2> QED BY <1>a, <1>b, <1>c, <1>d, <1>14, <2>2 DEF ReadAttempts
<1>15. ASSUME NEW s \in Slots, Fail(s) PROVE TypeOK'
  <2>1. pc[s] # "idle"
    BY <1>15 DEF Fail
  <2>2. SlotsTypeOK'
    BY <1>a, <1>15, <2>1, GotoType DEF Fail, PC, Calls
  <2>3. JobTableTypeOK'
    BY <1>a, <1>f, <1>g, <1>15, <2>1, MarkOpsType DEF Fail
  <2> QED BY <1>a, <1>b, <1>d, <1>15, <2>2, <2>3 DEF Fail
<1>16. ASSUME NEW s \in Slots, Release(s) PROVE TypeOK'
  <2>1. pc[s] # "idle"
    BY <1>16 DEF Release
  <2>2. SlotsTypeOK'
    BY <1>a, <1>16, <2>1, LeaveType DEF Release, PC, Calls
  <2> QED BY <1>a, <1>b, <1>c, <1>d, <1>f, <1>16, <2>1, <2>2, LockOpsType DEF Release
<1>17. ASSUME NEW s \in Slots, Timeout(s) PROVE TypeOK'
  <2>1. late' \subseteq Request
    BY <1>a, <1>17, RequestOfType DEF Timeout
  <2>2. SlotsTypeOK'
    BY <1>a, <1>17, GiveUpType DEF Timeout
  <2> QED BY <1>a, <1>c, <1>d, <1>17, <2>1, <2>2
          DEF Timeout, TypeOK, SlotsTypeOK, historyVars
<1>18. ASSUME NEW w \in Workers, Crash(w) PROVE TypeOK'
  <2>1. late' \subseteq Request
    BY <1>a, <1>18, RequestOfType DEF Crash, SlotsOf
  <2>2. SlotsTypeOK'
    BY <1>a, <1>18 DEF Crash, SlotsTypeOK, PC
  <2>3. up' \in [Workers -> BOOLEAN] /\ crashes' \in Nat
    BY <1>a, <1>18 DEF Crash
  <2>4. JobTableTypeOK'
    BY <1>a, <1>18, LateClaimOpsType DEF Crash
  <2> QED BY <1>a, <1>d, <1>18, <2>1, <2>2, <2>3, <2>4
          DEF Crash, TypeOK, SlotsTypeOK, historyVars
<1>19. ASSUME NEW r \in late, Land(r) PROVE TypeOK'
  <2>1. /\ r \in Request /\ r.job \in Jobs /\ r.worker \in Workers
        /\ r.retriable \in BOOLEAN /\ r.seen \in Nat \cup {Unread}
        /\ JobKeys[r.job] \in SUBSET Keys
    BY <1>a, JobProcessingAssumption DEF Request
  <2>2. JobTableTypeOK' /\ LocksTypeOK'
    BY <1>a, <1>c, <1>d, <1>19, <2>1, LockOpsType, MarkOpsType
    DEF Land, LandLockRequest, LandMark, LandRead, MarkRunningRejected
  <2>3. late' \subseteq Request
    <3>1. CASE LandRead(r)
      <4>1. jobs[r.job].attempts \in Nat
        BY <1>a, <2>1 DEF JobTableTypeOK, JobRow
      <4>2. [r EXCEPT !.seen = jobs[r.job].attempts] \in Request
        BY <2>1, <4>1 DEF Request
      <4> QED BY <1>a, <3>1, <4>2 DEF LandRead
    <3> QED BY <1>a, <1>19, <3>1 DEF Land, LandLockRequest, LandMark
  <2>4. strayed' \subseteq Jobs
    BY <1>a, <1>19, <2>1 DEF Land, LandLockRequest, LandMark, LandRead
  <2> QED BY <1>a, <1>e, <1>19, <2>2, <2>3, <2>4 DEF Land, TypeOK, SlotsTypeOK
<1>20. ASSUME Tick PROVE TypeOK'
  <2>1. LocksTypeOK'
    BY <1>a, <1>20, LockTimeType DEF Tick
  <2> QED BY <1>a, <1>c, <1>e, <1>20, <2>1 DEF Tick, TypeOK, SlotsTypeOK
<1>21. ASSUME Cleanup PROVE TypeOK'
  <2>1. LocksTypeOK'
    BY <1>a, <1>21, LockTimeType DEF Cleanup
  <2> QED BY <1>a, <1>b, <1>c, <1>e, <1>21, <2>1 DEF Cleanup
<1>22. ASSUME UNCHANGED vars PROVE TypeOK'
  BY <1>a, <1>22 DEF vars, TypeOK, JobTableTypeOK, LocksTypeOK
<1> QED
  BY <1>1, <1>2, <1>3, <1>4, <1>5, <1>6, <1>7, <1>8, <1>9, <1>10,
     <1>11, <1>12, <1>13, <1>14, <1>15, <1>16, <1>17, <1>18, <1>19,
     <1>20, <1>21, <1>22, Zenon
  DEF Next, ClaimStep, SlotStep

(* Every variable keeps its type. *)
THEOREM TypeCorrect == Spec => []TypeOK
  BY InitTypeOK, TypeOKStep, PTL DEF Spec

-----------------------------------------------------------------------------
(* Leases: the inductive invariant behind Serialized. *)

(* Somebody still counts on the locks of job j taken by worker w. *)
Relied(j, w) == \/ \E s \in Slots : Uses(s, j, w)
                \/ \E r \in late : Releases(r, j, w)

(* What the operations on the table leave of a lease: an acquire takes     *)
(* free keys only, a clean-up expired rows only, a release the rows of its *)
(* own job and worker, and a tick ends a lease only when it runs out.      *)
LEMMA LeaseKept ==
    ASSUME LocksTypeOK, NEW j \in Jobs, NEW w \in Workers, Leased(j, w),
           NEW i \in Jobs, NEW x \in Workers, NEW K \in SUBSET Keys,
           \/ UNCHANGED locks
           \/ LockAcquire(i, x, K)
           \/ LockCleanup
           \/ LockRelease(i, x) /\ (i # j \/ x # w)
           \/ LockTick /\ ~RunsOut(j)
    PROVE  Leased(j, w)'
<1>0. JobKeys[j] \in SUBSET Keys
  BY JobProcessingAssumption
<1> SUFFICES ASSUME NEW k \in JobKeys[j]
             PROVE  OwnedBy(k, j, w)' /\ locks'[k].left > 0
  BY DEF Leased
<1>1. k \in Keys /\ OwnedBy(k, j, w) /\ locks[k].left > 0 /\ locks[k] \in LockRow
  BY <1>0 DEF Leased, LocksTypeOK
<1>2. ~Free(k) /\ ~Expired(k)
  BY <1>1 DEF Free, Expired, NoRow
<1>3. CASE UNCHANGED locks
  BY <1>1, <1>3 DEF OwnedBy
<1>4. CASE LockAcquire(i, x, K)
  <2>1. locks'[k] = locks[k]
    BY <1>1, <1>2, <1>4 DEF LockAcquire
  <2> QED BY <1>1, <2>1 DEF OwnedBy
<1>5. CASE LockCleanup
  <2>1. locks'[k] = locks[k]
    BY <1>1, <1>2, <1>5 DEF LockCleanup
  <2> QED BY <1>1, <2>1 DEF OwnedBy
<1>6. CASE LockRelease(i, x) /\ (i # j \/ x # w)
  <2>1. ~OwnedBy(k, i, x)
    BY <1>1, <1>6 DEF OwnedBy
  <2>2. locks'[k] = locks[k]
    BY <1>1, <1>6, <2>1 DEF LockRelease
  <2> QED BY <1>1, <2>2 DEF OwnedBy
<1>7. CASE LockTick /\ ~RunsOut(j)
  <2>1. locks[k].left \in Nat /\ ~(locks[k].left <= 1)
    BY <1>1, <1>7, ResourceLocksAssumption DEF RunsOut, LockRow
  <2>2. locks'[k] = [locks[k] EXCEPT !.left = locks[k].left - 1]
    BY <1>1, <1>7, <2>1 DEF LockTick
  <2>3. /\ locks'[k].job = locks[k].job
        /\ locks'[k].worker = locks[k].worker
        /\ locks'[k].left = locks[k].left - 1
    BY <1>1, <2>2 DEF LockRow
  <2> QED BY <1>1, <2>1, <2>3 DEF OwnedBy
<1> QED BY <1>3, <1>4, <1>5, <1>6, <1>7

(* A step that gives no slot a lease, and breaks no lease still relied on, *)
(* keeps the invariant; a slot may leave its release behind as late.       *)
LEMMA LeaseFrame ==
    ASSUME TypeOK, LeaseInv, TypeOK',
           overran \subseteq overran',
           \A s \in Slots : Holding(s)' => Holding(s) /\ job'[s] = job[s],
           \A r \in late' : r.op = "release" =>
               \/ r \in late
               \/ \E s \in Slots :
                    pc[s] = "release" /\ r = RequestOf(s) /\ ~Holding(s)',
           \A j \in Jobs \ overran', w \in Workers :
               Leased(j, w) /\ Relied(j, w)' => Leased(j, w)'
    PROVE  LeaseInv'
<1>0. ASSUME NEW s \in Slots, pc[s] = "release"
      PROVE  Uses(s, RequestOf(s).job, RequestOf(s).worker)
  BY <1>0 DEF Uses, RequestOf, Holding, PC, Calls
<1>1. ASSUME NEW s \in Slots, NEW j, NEW w, Uses(s, j, w)'
      PROVE  Uses(s, j, w) /\ Holding(s)'
  BY <1>1 DEF Uses
<1>t. ASSUME NEW s \in Slots, Holding(s)
      PROVE  job[s] \in Jobs /\ SlotWorker[s] \in Workers
  BY <1>t, JobProcessingAssumption DEF TypeOK, Holding
<1>2. HoldersLeased'
  <2> SUFFICES ASSUME NEW s \in Slots, Holding(s)', job'[s] \notin overran'
               PROVE  Leased(job[s], SlotWorker[s])'
    BY DEF HoldersLeased, Leased
  <2>1. Leased(job[s], SlotWorker[s])
    BY DEF LeaseInv, HoldersLeased
  <2>2. Relied(job[s], SlotWorker[s])'
    BY DEF Relied, Uses
  <2> QED BY <1>t, <2>1, <2>2
<1>3. OneHolder'
  <2> SUFFICES ASSUME NEW s \in Slots, NEW t \in Slots,
                      Holding(s)', job'[s] \notin overran',
                      Uses(t, job[s], SlotWorker[s])'
               PROVE  s = t
    BY DEF OneHolder
  <2>1. Uses(t, job[s], SlotWorker[s])
    BY DEF Uses
  <2> QED BY <2>1 DEF LeaseInv, OneHolder
<1>4. LateReleasesLeased'
  <2> SUFFICES ASSUME NEW r \in late', r.op = "release", r.job \notin overran'
               PROVE  /\ Leased(r.job, r.worker)'
                      /\ \A s \in Slots : ~Uses(s, r.job, r.worker)'
                      /\ \A q \in late' : Releases(q, r.job, r.worker) => q = r
    BY DEF LateReleasesLeased
  <2>1. r.job \in Jobs \ overran' /\ r.worker \in Workers
    BY DEF TypeOK, Request
  <2>2. Relied(r.job, r.worker)'
    BY DEF Relied, Releases
  <2>3. CASE r \in late
    <3>1. /\ Leased(r.job, r.worker)
          /\ \A s \in Slots : ~Uses(s, r.job, r.worker)
          /\ \A q \in late : Releases(q, r.job, r.worker) => q = r
      BY <2>3 DEF LeaseInv, LateReleasesLeased
    <3>2. ASSUME NEW q \in late', Releases(q, r.job, r.worker) PROVE q = r
      BY <1>0, <3>1, <3>2 DEF Releases
    <3> QED BY <1>1, <2>1, <2>2, <3>1, <3>2
  <2>4. ASSUME NEW s \in Slots, pc[s] = "release", r = RequestOf(s), ~Holding(s)'
        PROVE  /\ Leased(r.job, r.worker)
               /\ \A t \in Slots : ~Uses(t, r.job, r.worker)'
               /\ \A q \in late' : Releases(q, r.job, r.worker) => q = r
    <3>1. Uses(s, r.job, r.worker)
      BY <1>0, <2>4
    <3>2. Holding(s) /\ job[s] = r.job /\ SlotWorker[s] = r.worker /\ job[s] \notin overran
      BY <3>1 DEF Uses
    <3>3. \A t \in Slots : Uses(t, r.job, r.worker) => t = s
      BY <3>2 DEF LeaseInv, OneHolder
    <3>4. Leased(r.job, r.worker)
      BY <3>2 DEF LeaseInv, HoldersLeased
    <3>5. ASSUME NEW q \in late', Releases(q, r.job, r.worker) PROVE q = r
      <4>1. q \notin late
        BY <3>1, <3>2, <3>5 DEF LeaseInv, LateReleasesLeased, Releases
      <4>2. PICK t \in Slots : pc[t] = "release" /\ q = RequestOf(t)
        BY <3>5, <4>1 DEF Releases
      <4>3. Uses(t, r.job, r.worker)
        BY <1>0, <3>5, <4>2 DEF Releases
      <4> QED BY <2>4, <3>3, <4>2, <4>3
    <3> QED BY <1>1, <2>4, <3>3, <3>4, <3>5
  <2> QED BY <2>1, <2>2, <2>3, <2>4
<1> QED BY <1>2, <1>3, <1>4 DEF LeaseInv

LEMMA LeaseAcquire ==
    ASSUME TypeOK, LeaseInv, NEW s \in Slots, Acquire(s)
    PROVE  LeaseInv'
<1> DEFINE j == job[s]
           w == SlotWorker[s]
<1>1. /\ j \in Jobs /\ w \in Workers /\ LocksTypeOK
      /\ JobKeys[j] \in SUBSET Keys /\ JobKeys[j] # {}
  BY JobProcessingAssumption DEF TypeOK, Acquire
<1>2. LockAcquire(j, w, JobKeys[j]) /\ UNCHANGED <<late, overran>>
  BY DEF Acquire, historyVars
<1>3. /\ Holding(s)' /\ UNCHANGED job
      /\ \A t \in Slots : t # s => pc'[t] = pc[t]
  BY DEF Acquire, Goto, Holding, PC, Calls, TypeOK
<1>4. ASSUME NEW t \in Slots, t # s PROVE Holding(t)' <=> Holding(t)
  BY <1>3, <1>4 DEF Holding
<1>5. \A i \in Jobs, x \in Workers : Leased(i, x) => Leased(i, x)'
  BY <1>1, <1>2, LeaseKept
<1>6. Leased(j, w)'
  BY <1>1, <1>2, <1>3, ResourceLocksAssumption DEF LockAcquire, Leased, OwnedBy
<1>7. ASSUME NEW x \in Workers, Leased(j, x) PROVE FALSE
  <2>1. PICK k \in JobKeys[j] : TRUE
    BY <1>1
  <2>2. Free(k)
    BY <1>2, <2>1 DEF LockAcquire
  <2>3. locks[k].left = 0
    BY <2>2 DEF Free, Expired, NoRow
  <2> QED BY <1>7, <2>1, <2>3 DEF Leased
<1> HIDE DEF w
<1>8. ASSUME NEW t \in Slots, t # s, NEW i, NEW x
      PROVE  Uses(t, i, x)' <=> Uses(t, i, x)
  BY <1>3, <1>4, <1>8 DEF Uses
<1>9. ASSUME NEW t \in Slots, Holding(t)
      PROVE  job[t] \in Jobs /\ SlotWorker[t] \in Workers
  BY <1>9, JobProcessingAssumption DEF TypeOK, Holding
<1>10. HoldersLeased'
  <2> SUFFICES ASSUME NEW t \in Slots, Holding(t)', job[t] \notin overran
               PROVE  Leased(job[t], SlotWorker[t])'
    BY <1>2, <1>3 DEF HoldersLeased, Leased
  <2>1. CASE t = s
    BY <1>6, <2>1 DEF w
  <2>2. CASE t # s
    BY <1>3, <1>4, <1>5, <1>9, <2>2 DEF LeaseInv, HoldersLeased
  <2> QED BY <2>1, <2>2
<1>11. ASSUME NEW t \in Slots, t # s, Uses(t, j, w) PROVE job[t] \in overran
  BY <1>7, <1>9, <1>11 DEF LeaseInv, HoldersLeased, Uses
<1>12. OneHolder'
  <2> SUFFICES ASSUME NEW t \in Slots, NEW u \in Slots, Holding(t)', job[t] \notin overran,
                      Uses(u, job[t], SlotWorker[t])', t # u
               PROVE  FALSE
    BY <1>2, <1>3 DEF OneHolder, Uses
  <2>1. CASE t # s /\ u # s
    BY <1>3, <1>4, <2>1 DEF LeaseInv, OneHolder, Uses
  <2>2. CASE t = s
    <3>1. Uses(u, j, w)
      BY <1>3, <1>4, <2>2 DEF Uses, w
    <3> QED BY <1>11, <2>2, <3>1 DEF Uses
  <2>3. CASE u = s
    <3>1. Uses(t, j, w)
      BY <1>3, <1>4, <2>3 DEF Uses, w
    <3> QED BY <1>11, <2>3, <3>1
  <2> QED BY <2>1, <2>2, <2>3
<1>13. LateReleasesLeased'
  <2> SUFFICES ASSUME NEW r \in late, r.op = "release", r.job \notin overran
               PROVE  /\ Leased(r.job, r.worker)'
                      /\ \A t \in Slots : ~Uses(t, r.job, r.worker)'
                      /\ \A q \in late : Releases(q, r.job, r.worker) => q = r
    BY <1>2 DEF LateReleasesLeased
  <2>1. r.job \in Jobs /\ r.worker \in Workers
    BY DEF TypeOK, Request
  <2>2. /\ Leased(r.job, r.worker)
        /\ \A t \in Slots : ~Uses(t, r.job, r.worker)
        /\ \A q \in late : Releases(q, r.job, r.worker) => q = r
    BY DEF LeaseInv, LateReleasesLeased
  <2>3. ~Uses(s, r.job, r.worker)'
    BY <1>3, <1>7, <2>1, <2>2 DEF Uses
  <2> QED BY <1>5, <1>8, <2>1, <2>2, <2>3
<1> QED BY <1>10, <1>12, <1>13 DEF LeaseInv

LEMMA LeaseStep == TypeOK /\ TypeOK' /\ LeaseInv /\ [Next]_vars => LeaseInv'
<1> SUFFICES ASSUME TypeOK, TypeOK', LeaseInv, [Next]_vars PROVE LeaseInv'
  OBVIOUS
<1>a. LocksTypeOK /\ (\A j \in Jobs : JobKeys[j] \in SUBSET Keys)
  BY JobProcessingAssumption DEF TypeOK
<1>b. ASSUME UNCHANGED <<locks, overran>>,
             \A s \in Slots : Holding(s)' => Holding(s) /\ job'[s] = job[s],
             \A r \in late' : r.op = "release" =>
               \/ r \in late
               \/ \E s \in Slots :
                    pc[s] = "release" /\ r = RequestOf(s) /\ ~Holding(s)'
      PROVE  LeaseInv'
  <2>1. \A j \in Jobs, w \in Workers : Leased(j, w) => Leased(j, w)'
    BY <1>b DEF Leased, OwnedBy
  <2> QED BY <1>b, <2>1, LeaseFrame
<1>c. ASSUME UNCHANGED <<locks, overran, late, pc, job>> PROVE LeaseInv'
  BY <1>b, <1>c DEF Holding
<1>d. ASSUME NEW s \in Slots, NEW p \in PC, NEW r, Goto(s, p, r), Holding(s),
             UNCHANGED <<locks, overran, late>>
      PROVE  LeaseInv'
  <2>1. \A t \in Slots : Holding(t)' => Holding(t) /\ job'[t] = job[t]
    BY <1>d DEF Goto, Holding, TypeOK
  <2> QED BY <1>b, <1>d, <2>1
<1>e. ASSUME NEW s \in Slots, Leave(s)
      PROVE  ~Holding(s)' /\ \A t \in Slots : Holding(t)' => Holding(t) /\ job'[t] = job[t]
  BY <1>e DEF Leave, Holding, TypeOK
<1>g. ASSUME NEW s \in Slots, GiveUp(s)
      PROVE  /\ \A t \in Slots : Holding(t)' => Holding(t) /\ job'[t] = job[t]
             /\ pc[s] = "release" => ~Holding(s)'
  <2>1. CASE Leave(s)
    BY <1>e, <2>1
  <2>2. CASE \E p \in PC, r \in BOOLEAN : Goto(s, p, r) /\ Holding(s) /\ pc[s] # "release"
    BY <2>2 DEF Goto, Holding, TypeOK
  <2> QED BY <1>g, <2>1, <2>2 DEF GiveUp, Holding, PC, Calls
<1>1. ASSUME NEW j \in Jobs, Enqueue(j) PROVE LeaseInv'
  BY <1>c, <1>1 DEF Enqueue, slotVars, historyVars
<1>2. ASSUME NEW j \in Jobs, Cancel(j) PROVE LeaseInv'
  BY <1>c, <1>2 DEF Cancel, slotVars, historyVars
<1>3. ASSUME NEW w \in Workers, ClaimStart(w) PROVE LeaseInv'
  BY <1>c, <1>3 DEF ClaimStart, slotVars, historyVars
<1>4. ASSUME NEW w \in Workers, ClaimDeliver(w) PROVE LeaseInv'
  <2>1. \A s \in Slots : Holding(s)' => Holding(s) /\ job'[s] = job[s]
    BY <1>4 DEF ClaimDeliver, IdleSlots, SlotsOf, Holding, PC, Calls, TypeOK
  <2> QED BY <1>b, <1>4, <2>1 DEF ClaimDeliver, historyVars
<1>5. ASSUME NEW w \in Workers, ClaimLate(w) \/ LateClaimStep(w) PROVE LeaseInv'
  BY <1>c, <1>5 DEF ClaimLate, LateClaimStep, ClaimUnheard, slotVars, historyVars
<1>6. ASSUME NEW w \in Workers, ClaimRollback(w) PROVE LeaseInv'
  BY <1>c, <1>6 DEF ClaimRollback, slotVars, historyVars
<1>7. ASSUME NEW w \in Workers, Start(w) PROVE LeaseInv'
  BY <1>c, <1>7 DEF Start, slotVars, historyVars
<1>8. ASSUME NEW s \in Slots, Acquire(s) PROVE LeaseInv'
  BY <1>8, LeaseAcquire
<1>9. ASSUME NEW s \in Slots, AcquireRefused(s) PROVE LeaseInv'
  BY <1>b, <1>e, <1>9 DEF AcquireRefused, LockRefused, historyVars
<1>10. ASSUME NEW s \in Slots, Run(s) PROVE LeaseInv'
  BY <1>d, <1>10 DEF Run, Holding, PC, Calls, historyVars
<1>11. ASSUME NEW s \in Slots, RunRejected(s) PROVE LeaseInv'
  BY <1>b, <1>g, <1>11 DEF RunRejected, historyVars
<1>12. ASSUME NEW s \in Slots, Execute(s) PROVE LeaseInv'
  BY <1>d, <1>12 DEF Execute, Holding, PC, Calls, historyVars
<1>13. ASSUME NEW s \in Slots, Succeed(s) PROVE LeaseInv'
  BY <1>d, <1>13 DEF Succeed, Holding, PC, Calls, historyVars
<1>14. ASSUME NEW s \in Slots, ReadAttempts(s) PROVE LeaseInv'
  BY <1>c, <1>14 DEF ReadAttempts, historyVars
<1>15. ASSUME NEW s \in Slots, Fail(s) PROVE LeaseInv'
  BY <1>d, <1>15 DEF Fail, Holding, PC, Calls, historyVars
<1>16. ASSUME NEW s \in Slots, Release(s) PROVE LeaseInv'
  <2>1. /\ Uses(s, job[s], SlotWorker[s]) /\ job[s] \in Jobs /\ SlotWorker[s] \in Workers
        /\ LockRelease(job[s], SlotWorker[s]) /\ UNCHANGED <<late, overran>>
        /\ ~Holding(s)'
        /\ \A t \in Slots : Holding(t)' => Holding(t) /\ job'[t] = job[t]
    BY <1>e, <1>16, JobProcessingAssumption
    DEF Release, Uses, Holding, PC, Calls, TypeOK, historyVars
  <2>2. ASSUME NEW j \in Jobs \ overran', NEW w \in Workers, Leased(j, w), Relied(j, w)'
        PROVE  Leased(j, w)'
    <3>1. CASE job[s] # j \/ SlotWorker[s] # w
      BY <1>a, <2>1, <2>2, <3>1, LeaseKept
    <3>2. CASE job[s] = j /\ SlotWorker[s] = w
      <4>1. \A t \in Slots : Uses(t, j, w)' => t = s
        BY <2>1, <2>2, <3>2 DEF LeaseInv, OneHolder, Uses
      <4>2. \A r \in late : ~Releases(r, j, w)
        BY <2>1, <2>2, <3>2 DEF LeaseInv, LateReleasesLeased, Releases
      <4> QED BY <2>1, <2>2, <4>1, <4>2 DEF Relied, Uses
    <3> QED BY <3>1, <3>2
  <2> QED BY <2>1, <2>2, LeaseFrame
<1>17. ASSUME NEW s \in Slots, Timeout(s) PROVE LeaseInv'
  <2>1. \A r \in late' : r \in late \/ r = RequestOf(s)
    BY <1>17 DEF Timeout
  <2>2. RequestOf(s).op = pc[s]
    BY DEF RequestOf
  <2>3. UNCHANGED <<locks, overran>> /\ GiveUp(s)
    BY <1>17 DEF Timeout, historyVars
  <2> QED BY <1>b, <1>g, <2>1, <2>2, <2>3
<1>18. ASSUME NEW w \in Workers, Crash(w) PROVE LeaseInv'
  <2>1. \A s \in Slots : Holding(s)' => Holding(s) /\ job'[s] = job[s]
    BY <1>18 DEF Crash, Holding
  <2>2. \A r \in late' : r.op = "release" =>
          r \in late \/ \E s \in Slots : pc[s] = "release" /\ r = RequestOf(s) /\ ~Holding(s)'
    BY <1>18 DEF Crash, SlotsOf, RequestOf, Holding
  <2> QED BY <1>b, <1>18, <2>1, <2>2 DEF Crash, historyVars
<1>19. ASSUME NEW r \in late, Land(r) PROVE LeaseInv'
  <2>1. UNCHANGED <<pc, job, overran>>
    BY <1>19 DEF Land, slotVars
  <2>2. \A s \in Slots : Holding(s)' => Holding(s) /\ job'[s] = job[s]
    BY <2>1 DEF Holding
  <2>3. r.job \in Jobs /\ r.worker \in Workers
    BY DEF TypeOK, Request
  <2>4. \A q \in late' : q.op = "release" => q \in late
    <3>1. ASSUME NEW n PROVE r.op = "markFailed" => [r EXCEPT !.seen = n].op = "markFailed"
      BY DEF TypeOK, Request
    <3> QED BY <1>19, <3>1 DEF Land, LandLockRequest, LandMark, LandRead
  <2>5. CASE LandMark(r) \/ LandRead(r)
    BY <1>b, <2>1, <2>2, <2>4, <2>5 DEF LandMark, LandRead
  <2>6. CASE LandLockRequest(r)
    <3>1. ASSUME NEW j \in Jobs \ overran', NEW w \in Workers, Leased(j, w), Relied(j, w)'
          PROVE  Leased(j, w)'
      <4>1. CASE r.op = "release" /\ LockRelease(r.job, r.worker) /\ r.job = j /\ r.worker = w
        <5>1. /\ \A s \in Slots : ~Uses(s, j, w)
              /\ \A q \in late : Releases(q, j, w) => q = r
          BY <2>1, <3>1, <4>1 DEF LeaseInv, LateReleasesLeased
        <5>2. late' = late \ {r}
          BY <2>6 DEF LandLockRequest
        <5> QED BY <2>1, <3>1, <5>1, <5>2 DEF Relied, Uses, Holding
      <4>2. CASE /\ r.op = "release" /\ LockRelease(r.job, r.worker)
                 /\ r.job # j \/ r.worker # w
        BY <1>a, <2>3, <3>1, <4>2, LeaseKept
      <4>3. CASE LockAcquire(r.job, r.worker, JobKeys[r.job]) \/ UNCHANGED locks
        BY <1>a, <2>3, <3>1, <4>3, LeaseKept
      <4> QED BY <2>6, <4>1, <4>2, <4>3 DEF LandLockRequest, LockRefused
    <3> QED BY <2>1, <2>2, <2>4, <3>1, LeaseFrame
  <2> QED BY <1>19, <2>5, <2>6 DEF Land
<1>20. ASSUME Tick PROVE LeaseInv'
  <2>1. /\ UNCHANGED <<pc, job, late>> /\ LockTick
        /\ overran' = overran \cup {j \in Jobs : InUse(j) /\ RunsOut(j)}
    BY <1>20 DEF Tick, slotVars
  <2>2. ASSUME NEW j \in Jobs \ overran', NEW w \in Workers, Leased(j, w), Relied(j, w)'
        PROVE  Leased(j, w)'
    <3>1. InUse(j)
      BY <2>1, <2>2 DEF Relied, InUse, Uses, Releases, Holding
    <3>2. ~RunsOut(j)
      BY <2>1, <2>2, <3>1
    <3> QED BY <1>a, <2>1, <2>2, <3>2, LeaseKept
  <2>3. \A s \in Slots : Holding(s)' => Holding(s) /\ job'[s] = job[s]
    BY <2>1 DEF Holding
  <2> QED BY <2>1, <2>2, <2>3, LeaseFrame
<1>21. ASSUME Cleanup PROVE LeaseInv'
  <2>1. UNCHANGED <<pc, job, late, overran>> /\ LockCleanup
    BY <1>21 DEF Cleanup, slotVars, historyVars
  <2>2. \A j \in Jobs, w \in Workers : Leased(j, w) => Leased(j, w)'
    BY <1>a, <2>1, LeaseKept
  <2>3. \A s \in Slots : Holding(s)' => Holding(s) /\ job'[s] = job[s]
    BY <2>1 DEF Holding
  <2> QED BY <2>1, <2>2, <2>3, LeaseFrame
<1>22. ASSUME UNCHANGED vars PROVE LeaseInv'
  BY <1>c, <1>22 DEF vars
<1> QED
  BY <1>1, <1>2, <1>3, <1>4, <1>5, <1>6, <1>7, <1>8, <1>9, <1>10, <1>11,
     <1>12, <1>13, <1>14, <1>15, <1>16, <1>17, <1>18, <1>19, <1>20, <1>21,
     <1>22, Zenon
  DEF Next, ClaimStep, SlotStep

LEMMA LeaseInit == Init => LeaseInv
  BY DEF Init, LeaseInv, HoldersLeased, OneHolder, LateReleasesLeased, Holding,
         Uses, PC, Calls

(* Two leases in use that share a key would own the same row of it. *)
LEMMA LeasesSerialize == TypeOK /\ LeaseInv => Serialized
<1> SUFFICES ASSUME TypeOK, LeaseInv, NEW s \in Slots, NEW t \in Slots, s # t,
                    Holding(s), job[s] \notin overran,
                    Holding(t), job[t] \notin overran,
                    NEW k \in JobKeys[job[s]] \cap JobKeys[job[t]]
             PROVE  FALSE
  BY DEF Serialized
<1>1. OwnedBy(k, job[s], SlotWorker[s]) /\ OwnedBy(k, job[t], SlotWorker[t])
  BY DEF LeaseInv, HoldersLeased, Leased
<1>2. Uses(t, job[s], SlotWorker[s])
  BY <1>1 DEF OwnedBy, Uses
<1> QED BY <1>2 DEF LeaseInv, OneHolder

(* The lease invariant of JobProcessing, and with it the serialization of  *)
(* jobs that need the same locks.                                          *)
THEOREM LeaseCorrect == Spec => []LeaseInv
<1>1. Init => TypeOK /\ LeaseInv
  BY InitTypeOK, LeaseInit
<1>2. (TypeOK /\ LeaseInv) /\ [Next]_vars => (TypeOK /\ LeaseInv)'
  BY TypeOKStep, LeaseStep
<1> QED BY <1>1, <1>2, PTL DEF Spec

THEOREM SerializedCorrect == Spec => []Serialized
  BY TypeCorrect, LeaseCorrect, LeasesSerialize, PTL

-----------------------------------------------------------------------------
(* Ownership: the jobs table agrees with the slot that executes. *)

LEMMA SoleHolder ==
    ASSUME TypeOK, LeaseInv, NEW s \in Slots, NEW t \in Slots,
           Holding(s), Holding(t), job[s] = job[t], job[s] \notin overran
    PROVE  s = t
<1>1. job[s] \in Jobs /\ JobKeys[job[s]] # {}
  BY JobProcessingAssumption DEF TypeOK, Holding
<1>2. Serialized
  BY LeasesSerialize
<1> QED BY <1>1, <1>2 DEF Serialized

LEMMA ExecutingHolds == ASSUME NEW s \in Slots, Executing(s) PROVE Holding(s)
  BY DEF Executing, Holding, PC, Calls

(* A row somebody is claiming is written by its claim only. *)
LEMMA ClaimsQueuedStep ==
    TypeOK /\ ClaimsQueued /\ [Next]_vars => ClaimsQueued'
<1> SUFFICES ASSUME TypeOK, ClaimsQueued, [Next]_vars PROVE ClaimsQueued'
  OBVIOUS
<1>a. JobTableTypeOK
  BY DEF TypeOK
<1>b. ASSUME UNCHANGED jobTableVars PROVE ClaimsQueued'
  BY <1>b DEF jobTableVars, claimVars, ClaimsQueued
<1>c. ASSUME NEW j \in Jobs, UNCHANGED claimVars, \A i \in Jobs \ {j} : jobs'[i] = jobs[i],
             RowUnlocked(j)
      PROVE  ClaimsQueued'
  BY <1>a, <1>c DEF ClaimsQueued, RowUnlocked, JobTableTypeOK, claimVars
<1>d. ASSUME NEW j \in Jobs, NEW s, SetStatus(j, s)
      PROVE  \A i \in Jobs \ {j} : jobs'[i] = jobs[i]
  BY <1>a, <1>d DEF SetStatus, JobTableTypeOK
<1>e. ASSUME NEW j \in Jobs, EnqueueJob(j) PROVE ClaimsQueued'
  <2>1. jobs'[j].status = "queued"
    BY <1>a, <1>e DEF EnqueueJob, SetStatus, JobTableTypeOK, JobRow
  <2> QED BY <1>a, <1>d, <1>e, <2>1 DEF EnqueueJob, ClaimsQueued, JobTableTypeOK, claimVars
<1>f. ASSUME NEW w \in Workers, ClaimSelect(w) PROVE ClaimsQueued'
  BY <1>a, <1>f DEF ClaimSelect, NextJob, Claimable, ClaimsQueued, JobTableTypeOK
<1>g. ASSUME NEW w \in Workers, ClaimCommit(w) PROVE ClaimsQueued'
  <2>1. \A i \in Jobs : jobs'[i].status = jobs[i].status
    BY <1>a, <1>g DEF ClaimCommit, SetClaimedBy, JobTableTypeOK, JobRow
  <2> QED BY <1>a, <1>g, <2>1, JobDomainAssumption DEF ClaimCommit, ClaimsQueued, JobTableTypeOK
<1>h. ASSUME NEW w \in Workers, ClaimAbort(w) PROVE ClaimsQueued'
  BY <1>a, <1>h, JobDomainAssumption DEF ClaimAbort, ClaimsQueued, JobTableTypeOK
<1>k. ASSUME NEW w \in Workers, LateSelect(w) PROVE ClaimsQueued'
  BY <1>a, <1>k DEF LateSelect, NextJob, Claimable, ClaimsQueued, JobTableTypeOK
<1>l. ASSUME NEW w \in Workers, NEW j \in Jobs, LateCommit(j, w) PROVE ClaimsQueued'
  <2>1. \A i \in Jobs : jobs'[i].status = jobs[i].status
    BY <1>a, <1>l DEF LateCommit, SetClaimedBy, JobTableTypeOK, JobRow
  <2> QED BY <1>a, <1>l, <2>1 DEF LateCommit, ClaimsQueued, JobTableTypeOK
<1>m. ASSUME NEW w \in Workers, NEW j \in Jobs, LateAbort(j, w) PROVE ClaimsQueued'
  BY <1>a, <1>m DEF LateAbort, ClaimsQueued, JobTableTypeOK
<1>n. ASSUME NEW w \in Workers, ClaimAbandon(w) PROVE ClaimsQueued'
  BY <1>a, <1>n, JobDomainAssumption DEF ClaimAbandon, ClaimsQueued, JobTableTypeOK
<1>i. ASSUME NEW j \in Jobs, NEW w, NEW r, NEW n,
             MarkRunning(j, w) \/ MarkSucceeded(j) \/ MarkFailed(j, r, n)
      PROVE  ClaimsQueued'
  BY <1>a, <1>c, <1>d, <1>i
  DEF MarkRunning, MarkSucceeded, MarkFailed, JobTableTypeOK
<1>j. \A s \in Slots : pc[s] # "idle" => job[s] \in Jobs
  BY DEF TypeOK
<1>1. ASSUME NEW j \in Jobs, Enqueue(j) \/ Cancel(j) PROVE ClaimsQueued'
  BY <1>c, <1>d, <1>e, <1>1 DEF Enqueue, Cancel, CancelQueuedJob
<1>2. ASSUME NEW w \in Workers, ClaimStart(w) \/ ClaimStep(w) PROVE ClaimsQueued'
  BY <1>f, <1>g, <1>h, <1>2
  DEF ClaimStart, ClaimStep, ClaimDeliver, ClaimRollback
<1>8. ASSUME NEW w \in Workers, ClaimLate(w) \/ LateClaimStep(w) PROVE ClaimsQueued'
  BY <1>k, <1>l, <1>m, <1>8 DEF ClaimLate, LateClaimStep, ClaimUnheard
<1>3. ASSUME NEW w \in Workers, Crash(w) \/ Start(w) PROVE ClaimsQueued'
  BY <1>b, <1>n, <1>3 DEF Crash, Start
<1>4. ASSUME NEW s \in Slots, Run(s) \/ Succeed(s) \/ Fail(s) PROVE ClaimsQueued'
  BY <1>i, <1>j, <1>4 DEF Run, Succeed, Fail
<1>5. ASSUME NEW s \in Slots,
             \/ Acquire(s) \/ AcquireRefused(s) \/ RunRejected(s) \/ Execute(s)
             \/ ReadAttempts(s) \/ Release(s) \/ Timeout(s)
      PROVE  ClaimsQueued'
  BY <1>b, <1>5 DEF Acquire, AcquireRefused, RunRejected, MarkRunningRejected,
                    Execute, ReadAttempts, Release, Timeout
<1>6. ASSUME NEW r \in late, Land(r) PROVE ClaimsQueued'
  <2>1. r.job \in Jobs
    BY DEF TypeOK, Request
  <2> QED BY <1>b, <1>i, <1>6, <2>1
          DEF Land, LandLockRequest, LandMark, LandRead, MarkRunningRejected
<1>7. ASSUME Tick \/ Cleanup \/ UNCHANGED vars PROVE ClaimsQueued'
  BY <1>b, <1>7 DEF Tick, Cleanup, vars, jobTableVars, claimVars
<1> QED BY <1>1, <1>2, <1>3, <1>4, <1>5, <1>6, <1>7, <1>8, Zenon DEF Next, SlotStep

(* What a worker does about claims, heard or not *)
Claims(w) == ClaimStart(w) \/ ClaimStep(w) \/ ClaimLate(w) \/ LateClaimStep(w) \/ Crash(w)

(* Of the jobs table, a claim writes claimed_by of one row or nothing. *)
LEMMA ClaimWrites ==
    ASSUME TypeOK, NEW w \in Workers, Claims(w)
    PROVE  UNCHANGED jobs \/ \E j \in Jobs : /\ claiming[w] = j \/ j \in abandoned[w]
                                            /\ SetClaimedBy(j, w)
<1>1. CASE ClaimDeliver(w)
  BY <1>1 DEF ClaimDeliver, ClaimCommit, TypeOK, JobTableTypeOK
<1>2. CASE LateClaimStep(w)
  BY <1>2 DEF LateClaimStep, ClaimUnheard, LateCommit, LateAbort
<1>3. CASE ClaimStart(w) \/ ClaimRollback(w) \/ ClaimLate(w) \/ Crash(w)
  BY <1>3 DEF ClaimStart, ClaimSelect, ClaimRollback, ClaimAbort, ClaimLate, LateSelect,
              Crash, ClaimAbandon
<1> QED BY <1>1, <1>2, <1>3 DEF Claims, ClaimStep

LEMMA ClaimKeepsStatus ==
    ASSUME TypeOK, NEW w \in Workers, Claims(w), NEW i \in Jobs
    PROVE  jobs'[i].status = jobs[i].status /\ jobs'[i].attempts = jobs[i].attempts
<1>1. jobs \in [Jobs -> JobRow]
  BY DEF TypeOK, JobTableTypeOK
<1> QED BY <1>1, ClaimWrites DEF SetClaimedBy, JobRow

(* The row it writes is that of a queued job. *)
LEMMA ClaimKeepsRow ==
    ASSUME TypeOK, ClaimsQueued, NEW w \in Workers, Claims(w),
           NEW i \in Jobs, jobs[i].status # "queued"
    PROVE  jobs'[i] = jobs[i]
<1>1. jobs \in [Jobs -> JobRow]
  BY DEF TypeOK, JobTableTypeOK
<1> QED BY <1>1, ClaimWrites DEF SetClaimedBy, ClaimsQueued

(* A claim nobody hears of leaves everything else alone. *)
LEMMA LateClaimFrame ==
    ASSUME NEW w \in Workers, ClaimLate(w) \/ LateClaimStep(w)
    PROVE  /\ UNCHANGED <<locks, pc, job, retriable, seen, up, late, crashes, overran, strayed>>
           /\ faults' = faults \/ faults' = faults + 1
  BY DEF ClaimLate, LateClaimStep, ClaimUnheard, slotVars, historyVars

LEMMA OwnershipStep ==
    TypeOK /\ LeaseInv /\ OwnershipInv /\ [Next]_vars => OwnershipInv'
<1> SUFFICES ASSUME TypeOK, LeaseInv, OwnershipInv, [Next]_vars PROVE OwnershipInv'
  OBVIOUS
<1>q. ClaimsQueued'
  BY ClaimsQueuedStep DEF OwnershipInv
<1> SUFFICES ExecutionOwnership'
  BY <1>q DEF OwnershipInv
<1>a. /\ JobTableTypeOK
      /\ pc \in [Slots -> PC] /\ job \in [Slots -> Jobs \cup {NoJob}]
      /\ \A s \in Slots : pc[s] # "idle" => job[s] \in Jobs
  BY DEF TypeOK
<1> DEFINE Owned(s) == /\ jobs[job[s]].status = "running"
                       /\ jobs[job[s]].claimed_by = SlotWorker[s]
           Sound(s) == Executing(s) /\ job[s] \notin overran \cup strayed
<1>b. \A s \in Slots : Sound(s) => Owned(s) /\ job[s] \in Jobs
  BY <1>a DEF OwnershipInv, ExecutionOwnership, Executing
<1>c. overran \subseteq overran' /\ strayed \subseteq strayed'
  <2>1. ASSUME NEW r \in late, Land(r) PROVE overran \subseteq overran' /\ strayed \subseteq strayed'
    BY <2>1 DEF Land, LandLockRequest, LandMark, LandRead
  <2> QED BY <2>1 DEF Next, Enqueue, Cancel, ClaimStart, ClaimStep, ClaimDeliver,
            ClaimRollback, ClaimLate, LateClaimStep, ClaimUnheard, Crash, Start, SlotStep, Acquire,
            AcquireRefused, Run, RunRejected, Execute, Succeed, ReadAttempts,
            Fail, Release, Timeout, Tick, Cleanup, vars, historyVars
(* A step that starts no execution and leaves the rows of the jobs being   *)
(* executed alone.                                                         *)
<1>d. ASSUME \A s \in Slots : Executing(s)' => Executing(s) /\ job'[s] = job[s],
             \A s \in Slots : Sound(s) /\ Executing(s)' /\ job[s] \notin strayed' =>
                                jobs'[job[s]] = jobs[job[s]]
      PROVE  ExecutionOwnership'
  BY <1>b, <1>c, <1>d DEF ExecutionOwnership
<1>e. ASSUME NEW s \in Slots, NEW p, p \notin {"execute", "markSucceeded"},
             NEW r, Goto(s, p, r) \/ Leave(s)
      PROVE  \A t \in Slots : Executing(t)' => t # s /\ Executing(t) /\ job'[t] = job[t]
  BY <1>a, <1>e DEF Goto, Leave, Executing
<1>f. ASSUME UNCHANGED slotVars
      PROVE  \A s \in Slots : Executing(s)' => Executing(s) /\ job'[s] = job[s]
  BY <1>f DEF slotVars, Executing
<1>g. ASSUME NEW s \in Slots, NEW t \in Slots, Sound(t), Holding(s), job[s] = job[t]
      PROVE  s = t
  BY <1>g, SoleHolder, ExecutingHolds
<1>h. ASSUME NEW s \in Slots, GiveUp(s)
      PROVE  \A t \in Slots : Executing(t)' => Executing(t) /\ job'[t] = job[t]
  BY <1>e, <1>h DEF GiveUp
<1>i. ASSUME NEW j \in Jobs, NEW x, SetStatus(j, x)
      PROVE  \A i \in Jobs \ {j} : jobs'[i] = jobs[i]
  BY <1>a, <1>i DEF SetStatus, JobTableTypeOK
<1>1. ASSUME NEW j \in Jobs, Enqueue(j) \/ Cancel(j) PROVE ExecutionOwnership'
  <2>1. jobs[j].status # "running" /\ UNCHANGED slotVars
        /\ \A i \in Jobs \ {j} : jobs'[i] = jobs[i]
    BY <1>i, <1>1 DEF Enqueue, EnqueueJob, Cancel, CancelQueuedJob
  <2> QED BY <1>b, <1>d, <1>f, <2>1
<1>2. ASSUME NEW w \in Workers, Claims(w),
             \A s \in Slots : Executing(s)' => Executing(s) /\ job'[s] = job[s]
      PROVE  ExecutionOwnership'
  <2>1. \A i \in Jobs : jobs[i].status = "running" => jobs'[i] = jobs[i]
    BY <1>2, ClaimKeepsRow DEF OwnershipInv
  <2> QED BY <1>b, <1>d, <1>2, <2>1
<1>3. ASSUME NEW w \in Workers, ClaimStart(w) \/ ClaimRollback(w) PROVE ExecutionOwnership'
  BY <1>2, <1>3, <1>f DEF ClaimStart, ClaimRollback, Claims, ClaimStep
<1>5. ASSUME NEW w \in Workers, ClaimLate(w) \/ LateClaimStep(w) PROVE ExecutionOwnership'
  BY <1>2, <1>5, <1>f, LateClaimFrame DEF Claims, slotVars
<1>4. ASSUME NEW w \in Workers, ClaimDeliver(w) PROVE ExecutionOwnership'
  <2>1. \A s \in Slots : Executing(s)' => Executing(s) /\ job'[s] = job[s]
    BY <1>a, <1>4 DEF ClaimDeliver, IdleSlots, SlotsOf, Executing
  <2> QED BY <1>2, <1>4, <2>1 DEF Claims, ClaimStep
<1>6. ASSUME NEW s \in Slots, Acquire(s) \/ AcquireRefused(s) \/ Release(s)
      PROVE  ExecutionOwnership'
  BY <1>d, <1>e, <1>6 DEF Acquire, AcquireRefused, Release, jobTableVars
<1>7. ASSUME NEW s \in Slots, Run(s) PROVE ExecutionOwnership'
  <2>1. job[s] \in Jobs /\ Holding(s) /\ MarkRunning(job[s], SlotWorker[s])
        /\ UNCHANGED <<job, historyVars>>
    BY <1>a, <1>7 DEF Run, Goto, Holding, PC, Calls
  <2>2. /\ jobs'[job[s]].status = "running"
        /\ jobs'[job[s]].claimed_by = SlotWorker[s]
        /\ \A i \in Jobs \ {job[s]} : jobs'[i] = jobs[i]
    BY <1>a, <2>1 DEF MarkRunning, ClaimedBy, JobTableTypeOK, JobRow
  <2>3. \A t \in Slots \ {s} : Executing(t)' => Executing(t)
    BY <1>a, <1>7 DEF Run, Goto, Executing
  <2>4. ASSUME NEW t \in Slots \ {s}, Executing(t)', job[t] \notin overran \cup strayed
        PROVE  jobs'[job[t]] = jobs[job[t]]
    BY <1>b, <1>g, <2>1, <2>2, <2>3, <2>4
  <2> QED BY <1>b, <2>1, <2>2, <2>3, <2>4 DEF ExecutionOwnership, historyVars
<1>8. ASSUME NEW s \in Slots, RunRejected(s) PROVE ExecutionOwnership'
  BY <1>d, <1>h, <1>8 DEF RunRejected, MarkRunningRejected, jobTableVars
<1>9. ASSUME NEW s \in Slots, Execute(s) PROVE ExecutionOwnership'
  <2>1. \A t \in Slots : Executing(t)' => Executing(t) /\ job'[t] = job[t]
    BY <1>a, <1>9 DEF Execute, Goto, Executing
  <2> QED BY <1>d, <1>9, <2>1 DEF Execute, jobTableVars
<1>10. ASSUME NEW s \in Slots, Succeed(s) \/ Fail(s) PROVE ExecutionOwnership'
  <2>1. job[s] \in Jobs /\ Holding(s) /\ Goto(s, "release", FALSE)
    BY <1>a, <1>10 DEF Succeed, Fail, Holding, PC, Calls
  <2>2. \A i \in Jobs \ {job[s]} : jobs'[i] = jobs[i]
    BY <1>a, <1>i, <1>10, <2>1 DEF Succeed, MarkSucceeded, Fail, MarkFailed, JobTableTypeOK
  <2>3. \A t \in Slots : Executing(t)' => t # s /\ Executing(t) /\ job'[t] = job[t]
    BY <1>e, <2>1
  <2> QED BY <1>b, <1>d, <1>g, <2>1, <2>2, <2>3
<1>11. ASSUME NEW s \in Slots, ReadAttempts(s) PROVE ExecutionOwnership'
  BY <1>d, <1>11 DEF ReadAttempts, jobTableVars, Executing
<1>12. ASSUME NEW s \in Slots, Timeout(s) PROVE ExecutionOwnership'
  BY <1>d, <1>h, <1>12 DEF Timeout, jobTableVars
<1>13. ASSUME NEW w \in Workers, Crash(w) PROVE ExecutionOwnership'
  <2>1. \A s \in Slots : Executing(s)' => Executing(s) /\ job'[s] = job[s]
    BY <1>13 DEF Crash, Executing
  <2> QED BY <1>2, <1>13, <2>1 DEF Claims
<1>14. ASSUME NEW w \in Workers, Start(w) PROVE ExecutionOwnership'
  BY <1>d, <1>f, <1>14 DEF Start, jobTableVars
<1>15. ASSUME NEW r \in late, Land(r) PROVE ExecutionOwnership'
  <2>1. r.job \in Jobs /\ UNCHANGED slotVars
    BY <1>15 DEF Land, TypeOK, Request
  <2>2. CASE LandMark(r)
    <3>1. \A i \in Jobs \ {r.job} : jobs'[i] = jobs[i]
      BY <1>a, <1>i, <2>1, <2>2
      DEF LandMark, MarkRunning, MarkRunningRejected, jobTableVars,
          MarkSucceeded, MarkFailed, JobTableTypeOK
    <3>2. r.job \in strayed'
      BY <2>2 DEF LandMark
    <3> QED BY <1>b, <1>d, <1>f, <2>1, <3>1, <3>2
  <2>3. CASE LandLockRequest(r) \/ LandRead(r)
    BY <1>d, <1>f, <2>1, <2>3 DEF LandLockRequest, LandRead, jobTableVars
  <2> QED BY <1>15, <2>2, <2>3 DEF Land
<1>16. ASSUME Tick \/ Cleanup PROVE ExecutionOwnership'
  BY <1>d, <1>f, <1>16 DEF Tick, Cleanup, jobTableVars
<1>17. ASSUME UNCHANGED vars PROVE ExecutionOwnership'
  BY <1>d, <1>17 DEF vars, Executing
<1> QED
  BY <1>1, <1>3, <1>4, <1>5, <1>6, <1>7, <1>8, <1>9, <1>10, <1>11, <1>12, <1>13,
     <1>14, <1>15, <1>16, <1>17, Zenon
  DEF Next, ClaimStep, SlotStep

LEMMA OwnershipInit == Init => OwnershipInv
  BY JobDomainAssumption
  DEF Init, JobTableInit, OwnershipInv, ClaimsQueued, ExecutionOwnership, Executing

(* The slot that executes a job is the one the jobs table names. *)
THEOREM OwnershipCorrect == Spec => []ExecutionOwnership
<1>1. Init => TypeOK /\ LeaseInv /\ OwnershipInv
  BY InitTypeOK, LeaseInit, OwnershipInit
<1>2. /\ TypeOK /\ LeaseInv /\ OwnershipInv
      /\ [Next]_vars
      => (TypeOK /\ LeaseInv /\ OwnershipInv)'
  BY TypeOKStep, LeaseStep, OwnershipStep
<1>3. OwnershipInv => ExecutionOwnership
  BY DEF OwnershipInv
<1> QED BY <1>1, <1>2, <1>3, PTL DEF Spec

(* A row locked by a claim stays queued until the claim ends. *)
THEOREM ClaimsQueuedCorrect == Spec => []ClaimsQueued
<1>1. Init => TypeOK /\ ClaimsQueued
  BY InitTypeOK, OwnershipInit DEF OwnershipInv
<1>2. TypeOK /\ ClaimsQueued /\ [Next]_vars => (TypeOK /\ ClaimsQueued)'
  BY TypeOKStep, ClaimsQueuedStep
<1> QED BY <1>1, <1>2, PTL DEF Spec

-----------------------------------------------------------------------------
(* The lock table keeps the promise of LockService. *)

LEMMA AcquireServed ==
    ASSUME NEW j \in Jobs, NEW w \in Workers, LockAcquire(j, w, JobKeys[j])
    PROVE  Service!LockServiceNext
<1>1. \A k \in JobKeys[j] : Service!Lapsed(k)
  BY DEF LockAcquire, Free, Expired, NoRow, Service!Lapsed
<1>2. Service!Grant(j, w, TTL)
  BY <1>1 DEF LockAcquire, Service!Grant
<1>3. TTL \in 0 .. TTL
  BY ResourceLocksAssumption
<1> QED BY <1>2, <1>3 DEF Service!LockServiceNext

LEMMA ReleaseServed ==
    ASSUME LocksTypeOK, NEW j \in Jobs, NEW w \in Workers, LockRelease(j, w)
    PROVE  Service!LockServiceNext
<1> DEFINE K == {k \in Keys : OwnedBy(k, j, w)}
<1>1. Service!GiveBack(j, w, K)
  BY DEF LockRelease, OwnedBy, NoRow, Service!GiveBack, Service!Without, Service!Nobody
<1> QED BY <1>1 DEF Service!LockServiceNext

LEMMA CleanupServed ==
    ASSUME LockCleanup
    PROVE  Service!LockServiceNext
<1> DEFINE K == {k \in Keys : Expired(k)}
<1>1. Service!Purge(K)
  BY DEF LockCleanup, Expired, NoRow, Service!Purge, Service!Lapsed, Service!Without,
         Service!Nobody
<1> QED BY <1>1 DEF Service!LockServiceNext

LEMMA TickServed ==
    ASSUME LockTick
    PROVE  Service!LockServiceNext
  BY DEF LockTick, Service!LockServiceNext, Service!TimePasses

LEMMA ServedStep ==
    TypeOK /\ [Next]_vars => [Service!LockServiceNext]_locks
<1> SUFFICES ASSUME TypeOK, [Next]_vars
             PROVE  Service!LockServiceNext \/ UNCHANGED locks
  OBVIOUS
<1>a. LocksTypeOK
  BY DEF TypeOK
<1>1. ASSUME NEW j \in Jobs, Enqueue(j) \/ Cancel(j) PROVE UNCHANGED locks
  BY <1>1 DEF Enqueue, Cancel
<1>2. ASSUME NEW w \in Workers,
             \/ ClaimStart(w) \/ ClaimStep(w) \/ Crash(w) \/ Start(w)
             \/ ClaimLate(w) \/ LateClaimStep(w)
      PROVE  UNCHANGED locks
  BY <1>2 DEF ClaimStart, ClaimStep, ClaimDeliver, ClaimRollback, Crash, Start, ClaimLate,
              LateClaimStep, ClaimUnheard
<1>3. ASSUME NEW s \in Slots, Acquire(s)
      PROVE  Service!LockServiceNext
  <2>1. job[s] \in Jobs /\ SlotWorker[s] \in Workers
    BY <1>3, JobProcessingAssumption DEF TypeOK, Acquire
  <2> QED BY <1>3, <2>1, AcquireServed DEF Acquire
<1>4. ASSUME NEW s \in Slots, Release(s)
      PROVE  Service!LockServiceNext
  <2>1. job[s] \in Jobs /\ SlotWorker[s] \in Workers
    BY <1>4, JobProcessingAssumption DEF TypeOK, Release
  <2> QED BY <1>a, <1>4, <2>1, ReleaseServed DEF Release
<1>5. ASSUME NEW s \in Slots, Timeout(s) \/ SlotStep(s), ~Acquire(s), ~Release(s)
      PROVE  UNCHANGED locks
  BY <1>5 DEF Timeout, SlotStep, AcquireRefused, LockRefused, Run, RunRejected, Execute,
              Succeed, ReadAttempts, Fail
<1>6. ASSUME NEW r \in late, Land(r)
      PROVE  Service!LockServiceNext \/ UNCHANGED locks
  <2>1. r.job \in Jobs /\ r.worker \in Workers
    BY DEF TypeOK, Request
  <2>2. CASE LandLockRequest(r)
    BY <1>a, <2>1, <2>2, AcquireServed, ReleaseServed DEF LandLockRequest, LockRefused
  <2>3. CASE LandMark(r) \/ LandRead(r)
    BY <2>3 DEF LandMark, LandRead
  <2> QED BY <1>6, <2>2, <2>3 DEF Land
<1>7. CASE Tick \/ Cleanup
  BY <1>7, TickServed, CleanupServed DEF Tick, Cleanup
<1>8. CASE UNCHANGED vars
  BY <1>8 DEF vars
<1> QED
  BY <1>1, <1>2, <1>3, <1>4, <1>5, <1>6, <1>7, <1>8, Zenon DEF Next, SlotStep

(* The lock table that workers, late requests and the clock act on is a    *)
(* lock service.                                                           *)
THEOREM LocksServedCorrect == Spec => LocksServed
<1>1. Init => Service!LockServiceInit
  BY DEF Init, LocksInit, NoRow, Service!LockServiceInit, Service!Nobody
<1>2. Spec => []TypeOK
  BY TypeCorrect
<1> QED
  BY <1>1, <1>2, ServedStep, PTL DEF Spec, LocksServed, Service!LockServiceSpec
=============================================================================
