-------------------------- MODULE JobServiceProofs --------------------------
(***************************************************************************)
(* Workers with one thread each, and the tables, implement JobService, for *)
(* any number of jobs, workers, keys, failed calls and crashes.            *)
(***************************************************************************)
EXTENDS JobOutcomeProofs

(* Nothing is lost, and of the other jobs all rows but one are kept. *)
OthersKept(j) ==
    /\ Lost' = Lost
    /\ \A i \in Jobs \ (Lost \cup {j}) :
          /\ jobs'[i].status = jobs[i].status /\ jobs'[i].attempts = jobs[i].attempts
          /\ \A t \in Slots : Executes(t, i)' <=> Executes(t, i)

(* What the service shows after a step that writes one row. *)
LEMMA LifeRow ==
    ASSUME NEW j \in Jobs, j \notin Lost, OthersKept(j)
    PROVE  /\ StatusOf' = [StatusOf EXCEPT ![j] = jobs'[j].status]
           /\ TriesOf' = [TriesOf EXCEPT ![j] = jobs'[j].attempts]
           /\ ExecutorsOf' = [ExecutorsOf EXCEPT ![j] = {t \in Slots : Executes(t, j)'}]
           /\ StatusOf[j] = jobs[j].status
           /\ TriesOf[j] = jobs[j].attempts
           /\ ExecutorsOf[j] = {t \in Slots : Executes(t, j)}
           /\ jobs'[j].attempts = jobs[j].attempts => UNCHANGED TriesOf
           /\ (\A t \in Slots : Executes(t, j)' <=> Executes(t, j)) => UNCHANGED ExecutorsOf
<1>1. StatusOf' = [StatusOf EXCEPT ![j] = jobs'[j].status] /\ StatusOf[j] = jobs[j].status
  BY DEF OthersKept, StatusOf
<1>2. /\ TriesOf' = [TriesOf EXCEPT ![j] = jobs'[j].attempts] /\ TriesOf[j] = jobs[j].attempts
      /\ jobs'[j].attempts = jobs[j].attempts => UNCHANGED TriesOf
  BY DEF OthersKept, TriesOf
<1> DEFINE E(i) == {t \in Slots : Executes(t, i)}
<1>3. \A i \in Jobs \ (Lost \cup {j}) : E(i)' = E(i)
  BY DEF OthersKept
<1>4. (\A t \in Slots : Executes(t, j)' <=> Executes(t, j)) => E(j)' = E(j)
  OBVIOUS
<1>5. /\ ExecutorsOf = [i \in Jobs |-> IF i \in Lost THEN {} ELSE E(i)]
      /\ ExecutorsOf' = [i \in Jobs |-> IF i \in Lost THEN {} ELSE E(i)']
  BY DEF OthersKept, ExecutorsOf
<1>6. E(j)' = {t \in Slots : Executes(t, j)'} /\ E(j) = {t \in Slots : Executes(t, j)}
  OBVIOUS
<1> HIDE DEF E
<1>7. /\ ExecutorsOf' = [ExecutorsOf EXCEPT ![j] = E(j)'] /\ ExecutorsOf[j] = E(j)
      /\ E(j)' = E(j) => UNCHANGED ExecutorsOf
  BY <1>3, <1>5
<1> QED BY <1>1, <1>2, <1>4, <1>6, <1>7

(* A step that changes no row and no executor the service shows, or only   *)
(* those of a lost job.                                                    *)
LEMMA LifeFrame ==
    ASSUME Lost' = Lost,
           \A i \in Jobs \ Lost :
              /\ jobs'[i].status = jobs[i].status /\ jobs'[i].attempts = jobs[i].attempts
              /\ \A t \in Slots : Executes(t, i)' <=> Executes(t, i)
    PROVE  UNCHANGED JobLife!serviceVars
<1>1. UNCHANGED StatusOf /\ UNCHANGED TriesOf
  BY DEF StatusOf, TriesOf
<1> DEFINE E(i) == {t \in Slots : Executes(t, i)}
<1>2. \A i \in Jobs \ Lost : E(i)' = E(i)
  OBVIOUS
<1>3. /\ ExecutorsOf = [i \in Jobs |-> IF i \in Lost THEN {} ELSE E(i)]
      /\ ExecutorsOf' = [i \in Jobs |-> IF i \in Lost THEN {} ELSE E(i)']
  BY DEF ExecutorsOf
<1> HIDE DEF E
<1>4. UNCHANGED ExecutorsOf
  BY <1>2, <1>3
<1> QED BY <1>1, <1>4 DEF JobLife!serviceVars

(* Jobs are lost. *)
LEMMA LifeLose ==
    ASSUME Lost \subseteq Lost', Lost' \subseteq Jobs,
           \A i \in Jobs \ Lost' :
              /\ jobs'[i].status = jobs[i].status /\ jobs'[i].attempts = jobs[i].attempts
              /\ \A t \in Slots : Executes(t, i)' <=> Executes(t, i)
    PROVE  JobLife!JobServiceNext
<1>1. /\ StatusOf' = [j \in Jobs |-> IF j \in Lost' THEN "unknown" ELSE StatusOf[j]]
      /\ TriesOf' = [j \in Jobs |-> IF j \in Lost' THEN 0 ELSE TriesOf[j]]
  BY DEF StatusOf, TriesOf
<1> DEFINE E(i) == {t \in Slots : Executes(t, i)}
<1>2. \A i \in Jobs \ Lost' : E(i)' = E(i)
  OBVIOUS
<1>3. /\ ExecutorsOf = [i \in Jobs |-> IF i \in Lost THEN {} ELSE E(i)]
      /\ ExecutorsOf' = [i \in Jobs |-> IF i \in Lost' THEN {} ELSE E(i)']
  BY DEF ExecutorsOf
<1> HIDE DEF E
<1>4. ExecutorsOf' = [j \in Jobs |-> IF j \in Lost' THEN {} ELSE ExecutorsOf[j]]
  BY <1>2, <1>3
<1>5. JobLife!Lose(Lost')
  BY <1>1, <1>4 DEF JobLife!Lose
<1> QED BY <1>5 DEF JobLife!JobServiceNext

(* Threads leave the jobs they execute. *)
LEMMA LifeVanish ==
    ASSUME Lost' = Lost, NEW gone \in SUBSET Slots,
           \A i \in Jobs \ Lost :
              /\ jobs'[i].status = jobs[i].status /\ jobs'[i].attempts = jobs[i].attempts
              /\ \A t \in Slots : Executes(t, i)' <=> Executes(t, i) /\ t \notin gone
    PROVE  JobLife!JobServiceNext
<1>1. UNCHANGED StatusOf /\ UNCHANGED TriesOf
  BY DEF StatusOf, TriesOf
<1> DEFINE E(i) == {t \in Slots : Executes(t, i)}
<1>2. \A i \in Jobs \ Lost : E(i)' = E(i) \ gone
  OBVIOUS
<1>3. /\ ExecutorsOf = [i \in Jobs |-> IF i \in Lost THEN {} ELSE E(i)]
      /\ ExecutorsOf' = [i \in Jobs |-> IF i \in Lost THEN {} ELSE E(i)']
  BY DEF ExecutorsOf
<1> HIDE DEF E
<1>4. ExecutorsOf' = [j \in Jobs |-> ExecutorsOf[j] \ gone]
  BY <1>2, <1>3
<1>5. JobLife!Vanish(gone)
  BY <1>1, <1>4 DEF JobLife!Vanish
<1> QED BY <1>5 DEF JobLife!JobServiceNext
-----------------------------------------------------------------------------
(* A thread that marks its job failed for good has executed it, and the    *)
(* table still names it.                                                   *)

Final(s) == pc[s] = "markFailed" /\ ~retriable[s]

Named(s) == jobs[job[s]].status = "running" /\ jobs[job[s]].claimed_by = SlotWorker[s]

FinalNamed == \A s \in Slots : Final(s) /\ job[s] \in Clean => Named(s)

(* A step that makes no verdict final and writes no row of a final one. *)
LEMMA FinalFrame ==
    ASSUME FinalNamed, Clean' \subseteq Clean,
           \A s \in Slots : Final(s)' => Final(s) /\ job'[s] = job[s],
           \A s \in Slots : Final(s) /\ Final(s)' /\ job[s] \in Clean' /\ Named(s) =>
                              jobs'[job[s]] = jobs[job[s]]
    PROVE  FinalNamed'
  BY DEF FinalNamed, Named

(* The rows a step may write: those of a queued job, of the job of the     *)
(* slot that acts, or of one a late request hits.                          *)
LEMMA FinalStep ==
    ASSUME Kept, FinalNamed, [Next]_vars
    PROVE  FinalNamed'
<1>c. Clean' \subseteq Clean /\ Clean \subseteq Jobs
  BY CleanShrinks DEF Clean
<1>p. /\ TypeOK /\ LeaseInv
      /\ pc \in [Slots -> PC] /\ job \in [Slots -> Jobs \cup {NoJob}]
      /\ retriable \in [Slots -> BOOLEAN] /\ jobs \in [Jobs -> JobRow]
      /\ claiming \in [Workers -> Jobs \cup {NoJob}]
      /\ \A s \in Slots : pc[s] # "idle" => job[s] \in Jobs
  BY DEF Kept, TypeOK, JobTableTypeOK
<1>g. ASSUME NEW s \in Slots, Holding(s), NEW t \in Slots \ {s}, Final(t), job[t] \in Clean
      PROVE  job[t] # job[s]
  BY <1>g, <1>p, SoleHolder DEF Final, Holding, PC, Calls, Clean
<1>1. ASSUME UNCHANGED <<jobs, pc, job, retriable>> PROVE FinalNamed'
  BY <1>1, <1>c, FinalFrame DEF Final
<1>2. ASSUME NEW j \in Jobs, Enqueue(j) \/ Cancel(j) PROVE FinalNamed'
  <2>1. jobs[j].status # "running" /\ \A i \in Jobs \ {j} : jobs'[i] = jobs[i]
    BY <1>2, <1>p DEF Enqueue, Cancel, EnqueueJob, CancelQueuedJob, SetStatus
  <2>2. UNCHANGED <<pc, job, retriable>>
    BY <1>2 DEF Enqueue, Cancel, slotVars
  <2> QED BY <2>1, <2>2, <1>c, FinalFrame DEF Final, Named
<1>3. ASSUME NEW w \in Workers, ClaimStart(w) \/ ClaimRollback(w) \/ Start(w) PROVE FinalNamed'
  BY <1>3, <1>1 DEF ClaimStart, ClaimSelect, ClaimRollback, ClaimAbort, Start, jobTableVars, slotVars
<1>4. ASSUME NEW w \in Workers, Claims(w),
             \A t \in Slots : Final(t)' => Final(t) /\ job'[t] = job[t]
      PROVE  FinalNamed'
  <2>1. \A i \in Jobs : jobs[i].status = "running" => jobs'[i] = jobs[i]
    BY <1>4, <1>p, ClaimKeepsRow DEF Kept, OwnershipInv
  <2> QED BY <1>4, <2>1, <1>c, FinalFrame DEF Named
<1>12. ASSUME NEW w \in Workers, ClaimLate(w) \/ LateClaimStep(w) PROVE FinalNamed'
  BY <1>4, <1>12, LateClaimFrame DEF Claims, Final
<1>13. ASSUME NEW w \in Workers, ClaimDeliver(w) PROVE FinalNamed'
  <2>1. \A t \in Slots : Final(t)' => Final(t) /\ job'[t] = job[t]
    BY <1>13, <1>p DEF ClaimDeliver, IdleSlots, SlotsOf, Final
  <2> QED BY <1>4, <1>13, <2>1 DEF Claims, ClaimStep
<1>5. ASSUME NEW s \in Slots,
             \/ Acquire(s) \/ AcquireRefused(s) \/ RunRejected(s) \/ Release(s) \/ Timeout(s)
      PROVE  FinalNamed'
  <2>1. \/ Leave(s) \/ Goto(s, "markFailed", TRUE)
        \/ \E p \in {"markRunning", "release"} : Goto(s, p, FALSE)
    BY <1>5 DEF Acquire, AcquireRefused, RunRejected, Release, Timeout, GiveUp
  <2>2. \A t \in Slots : Final(t)' => Final(t) /\ job'[t] = job[t]
    BY <2>1, <1>p DEF Leave, Goto, Final
  <2>3. UNCHANGED jobs
    BY <1>5 DEF Acquire, AcquireRefused, RunRejected, MarkRunningRejected, Release, Timeout,
       jobTableVars
  <2> QED BY <2>2, <2>3, <1>c, FinalFrame
<1>6. ASSUME NEW s \in Slots, Run(s) \/ Succeed(s) \/ Fail(s) PROVE FinalNamed'
  <2>1. Holding(s) /\ job[s] \in Jobs /\ \A t \in Slots : Final(t)' => t # s /\ Final(t) /\ job'[t] = job[t]
    BY <1>6, <1>p DEF Run, Succeed, Fail, Goto, Final, Holding, PC, Calls
  <2>2. \A i \in Jobs \ {job[s]} : jobs'[i] = jobs[i]
    BY <1>6, <2>1, <1>p DEF Run, MarkRunning, Succeed, MarkSucceeded, SetStatus, Fail, MarkFailed
  <2> QED BY <2>1, <2>2, <1>c, <1>g, FinalFrame
<1>7. ASSUME NEW s \in Slots, Execute(s) PROVE FinalNamed'
  <2>1. pc[s] = "execute" /\ UNCHANGED <<jobs, job>>
        /\ \A t \in Slots : Final(t)' => t = s \/ Final(t)
    BY <1>7, <1>p DEF Execute, Goto, Final, jobTableVars
  <2>2. job[s] \in Clean => Named(s)
    BY <2>1 DEF Kept, OwnershipInv, ExecutionOwnership, Executing, Clean, Named
  <2> QED BY <2>1, <2>2, <1>c DEF FinalNamed, Named
<1>8. ASSUME NEW s \in Slots, ReadAttempts(s) PROVE FinalNamed'
  BY <1>8, <1>1 DEF ReadAttempts, jobTableVars
<1>9. ASSUME NEW w \in Workers, Crash(w) PROVE FinalNamed'
  <2>1. \A t \in Slots : Final(t)' => Final(t) /\ job'[t] = job[t]
    BY <1>9 DEF Crash, Final
  <2> QED BY <1>9, <2>1, <1>c, FinalFrame DEF Crash, ClaimAbandon
<1>10. ASSUME NEW r \in late, Land(r) PROVE FinalNamed'
  <2>1. r.job \in Jobs /\ UNCHANGED <<pc, job, retriable>>
    BY <1>10, <1>p DEF TypeOK, Request, Land, slotVars
  <2>2. CASE LandLockRequest(r) \/ LandRead(r)
    BY <2>1, <2>2, <1>1 DEF LandLockRequest, LandRead, jobTableVars
  <2>3. CASE LandMark(r)
    <3>1. r.job \notin Clean'
      BY <2>3 DEF LandMark, Clean
    <3>2. \A i \in Jobs \ {r.job} : jobs'[i] = jobs[i]
      BY <2>1, <2>3, <1>p DEF LandMark, MarkRunning, MarkRunningRejected, MarkSucceeded,
         MarkFailed, SetStatus, jobTableVars
    <3> QED BY <2>1, <3>1, <3>2, <1>c, FinalFrame DEF Final
  <2> QED BY <2>2, <2>3, <1>10 DEF Land
<1>11. ASSUME Tick \/ Cleanup \/ UNCHANGED vars PROVE FinalNamed'
  BY <1>11, <1>1 DEF Tick, Cleanup, jobTableVars, slotVars, vars
<1> QED
  BY <1>2, <1>3, <1>5, <1>6, <1>7, <1>8, <1>9, <1>10, <1>11, <1>12, <1>13, Zenon
  DEF Next, ClaimStep, SlotStep
(* No slot works on a job that was never enqueued. *)
Known == \A s \in Slots : pc[s] # "idle" => jobs[job[s]].status # "absent"

LEMMA KnownStep ==
    ASSUME TypeOK, OwnershipInv, Known, [Next]_vars
    PROVE  Known'
<1>p. /\ pc \in [Slots -> PC] /\ job \in [Slots -> Jobs \cup {NoJob}] /\ jobs \in [Jobs -> JobRow]
      /\ claiming \in [Workers -> Jobs \cup {NoJob}]
      /\ \A s \in Slots : pc[s] # "idle" => job[s] \in Jobs
  BY DEF TypeOK, JobTableTypeOK
<1> DEFINE Stays == \A i \in Jobs : jobs[i].status # "absent" => jobs'[i].status # "absent"
           Handed == \A t \in Slots : pc'[t] # "idle" =>
                        /\ job'[t] \in Jobs /\ jobs[job'[t]].status # "absent"
<1>a. Stays /\ Handed => Known'
  BY DEF Known
<1>b. ASSUME \A t \in Slots : pc'[t] # "idle" => pc[t] # "idle" /\ job'[t] = job[t] PROVE Handed
  BY <1>b, <1>p DEF Known
<1>1. ASSUME NEW j \in Jobs, Enqueue(j) \/ Cancel(j) PROVE Known'
  <2>1. Stays
    BY <1>1, <1>p DEF Enqueue, Cancel, EnqueueJob, CancelQueuedJob, SetStatus, JobRow
  <2>2. Handed
    BY <1>1, <1>b DEF Enqueue, Cancel, slotVars
  <2> QED BY <1>a, <2>1, <2>2
<1>2. ASSUME NEW w \in Workers,
             ClaimStart(w) \/ ClaimRollback(w) \/ ClaimLate(w) \/ LateClaimStep(w) \/ Crash(w)
      PROVE  Known'
  <2>1. Stays
    BY <1>2, ClaimKeepsStatus DEF Claims, ClaimStep
  <2>2. Handed
    BY <1>2, <1>b, LateClaimFrame DEF ClaimStart, ClaimRollback, Crash, slotVars
  <2> QED BY <1>a, <2>1, <2>2
<1>7. ASSUME NEW w \in Workers, Start(w) PROVE Known'
  BY <1>7, <1>a, <1>b DEF Start, jobTableVars, slotVars
<1>3. ASSUME NEW w \in Workers, ClaimDeliver(w) PROVE Known'
  <2>1. claiming[w] \in Jobs /\ jobs[claiming[w]].status = "queued"
    BY <1>3, <1>p DEF ClaimDeliver, ClaimCommit, OwnershipInv, ClaimsQueued
  <2>2. Stays
    BY <1>3, ClaimKeepsStatus DEF Claims, ClaimStep
  <2>3. PICK s \in Slots : /\ pc' = [pc EXCEPT ![s] = "acquire"]
                           /\ job' = [job EXCEPT ![s] = claiming[w]]
    BY <1>3 DEF ClaimDeliver, IdleSlots, SlotsOf
  <2>4. Handed
    BY <2>1, <2>3, <1>p DEF Known
  <2> QED BY <2>2, <2>4, <1>a
<1>4. ASSUME NEW s \in Slots, SlotStep(s) \/ Timeout(s) PROVE Known'
  <2>1. \/ Leave(s) \/ ReadAttempts(s)
        \/ pc[s] # "idle" /\ \E p \in PC, r \in BOOLEAN : Goto(s, p, r)
    BY <1>4 DEF SlotStep, Acquire, AcquireRefused, Run, RunRejected, Execute, Succeed, Fail,
       Release, Timeout, GiveUp, PC, Calls
  <2>2. Handed
    BY <2>1, <1>b, <1>p DEF Leave, Goto, ReadAttempts
  <2>3. CASE UNCHANGED jobs
    BY <2>2, <2>3, <1>a
  <2>4. CASE Run(s) \/ Succeed(s) \/ Fail(s)
    <3>1. job[s] \in Jobs
      BY <2>4, <1>p DEF Run, Succeed, Fail
    <3>2. \A r, n : StatusAfterFailure(r, n) # "absent"
      BY DEF StatusAfterFailure
    <3>3. CASE Run(s) \/ Succeed(s)
      <4>1. PICK x : /\ x # "absent"
                     /\ \/ jobs' = [jobs EXCEPT ![job[s]].status = x]
                        \/ jobs' = [jobs EXCEPT ![job[s]].status = x, ![job[s]].attempts = @ + 1]
        BY <3>3 DEF Run, MarkRunning, Succeed, MarkSucceeded, SetStatus
      <4> QED BY <2>2, <3>1, <4>1, <1>a, <1>p DEF JobRow
    <3>4. CASE Fail(s)
      <4>1. PICK x : x # "absent" /\ jobs' = [jobs EXCEPT ![job[s]].status = x, ![job[s]].claimed_by = NoWorker]
        BY <3>2, <3>4, Zenon DEF Fail, MarkFailed
      <4> QED BY <2>2, <3>1, <4>1, <1>a, <1>p DEF JobRow
    <3> QED BY <2>4, <3>3, <3>4
  <2> QED BY <1>4, <2>3, <2>4
      DEF SlotStep, Acquire, AcquireRefused, RunRejected, MarkRunningRejected, Execute,
          ReadAttempts, Release, Timeout, jobTableVars
<1>5. ASSUME NEW r \in late, Land(r) PROVE Known'
  <2>1. r.job \in Jobs /\ Handed
    BY <1>5, <1>b DEF TypeOK, Request, Land, slotVars
  <2>2. \A x, n : StatusAfterFailure(x, n) # "absent"
    BY DEF StatusAfterFailure
  <2>3. CASE LandMark(r)
    <3>1. Stays
      BY <2>1, <2>2, <2>3, <1>p DEF LandMark, MarkRunning, MarkRunningRejected, MarkSucceeded,
         MarkFailed, SetStatus, jobTableVars, JobRow
    <3> QED BY <2>1, <3>1, <1>a
  <2>4. CASE LandLockRequest(r) \/ LandRead(r)
    BY <2>1, <2>4, <1>a DEF LandLockRequest, LandRead, jobTableVars
  <2> QED BY <1>5, <2>3, <2>4 DEF Land
<1>6. ASSUME Tick \/ Cleanup \/ UNCHANGED vars PROVE Known'
  BY <1>6, <1>a, <1>b DEF Tick, Cleanup, vars, jobTableVars, slotVars
<1> QED BY <1>1, <1>2, <1>3, <1>4, <1>5, <1>6, <1>7 DEF Next, ClaimStep

FinalInv == FinalNamed /\ Known

-----------------------------------------------------------------------------
(* The step simulation. *)

(* A step that writes no row and leaves the executing threads where they   *)
(* are.                                                                    *)
LEMMA LifeStill ==
    ASSUME Lost' = Lost, UNCHANGED jobs,
           \A t \in Slots : /\ Settling(t)' <=> Settling(t)
                            /\ Settling(t) => job'[t] = job[t]
    PROVE  UNCHANGED JobLife!serviceVars
  BY LifeFrame DEF Executes, Settling

(* Only one thread executes a job of which something is promised: the one  *)
(* that holds its lock.                                                    *)
LEMMA SoleExecutor ==
    ASSUME TypeOK, LeaseInv, NEW s \in Slots, Holding(s), job[s] \notin Lost,
           NEW t \in Slots, Executes(t, job[s])
    PROVE  t = s
<1>1. Holding(t) /\ job[t] = job[s] /\ job[s] \notin overran
  BY DEF Executes, Holding, PC, Calls, Lost
<1> QED BY <1>1, SoleHolder

(* While a thread holds the locks of a job, no job that needs one of them  *)
(* is executed.                                                            *)
LEMMA HolderFree ==
    ASSUME TypeOK, LeaseInv, NEW s \in Slots, Holding(s), job[s] \notin Lost
    PROVE  JobLife!Free(job[s])
<1>1. SUFFICES ASSUME NEW i \in Jobs \ {job[s]}, ExecutorsOf[i] # {}
               PROVE  JobKeys[i] \cap JobKeys[job[s]] = {}
  BY DEF JobLife!Free
<1>2. PICK t \in Slots : Executes(t, i)
  BY <1>1 DEF ExecutorsOf
<1>3. i \notin Lost
  BY <1>1 DEF ExecutorsOf
<1>4. job[t] = i /\ Holding(t)
  BY <1>2 DEF Executes, Holding, PC, Calls
<1> QED BY <1>1, <1>3, <1>4, LeasesSerialize DEF Serialized, Lost

(* The step writes the row of job j alone, and its status as x. *)
RowWritten(j, x) ==
    /\ Lost' = Lost
    /\ \A i \in Jobs \ {j} : jobs'[i] = jobs[i]
    /\ jobs'[j].status = x
    /\ jobs'[j].attempts = jobs[j].attempts

(* What the API may write of job j. *)
Requested(j, x) ==
    \/ jobs[j].status = "absent" /\ x = "queued"
    \/ jobs[j].status = "queued" /\ x = "cancelled"

(* What slot s may write of its job, named by the table or not. *)
Judged(s, x) ==
    \/ Named(s) /\ x \in {"succeeded", "failed"}
    \/ Named(s) /\ x = "queued" /\ jobs[job[s]].attempts < MaxAttempts
    \/ /\ ~Named(s) /\ jobs[job[s]].status # "absent"
       /\ x = IF jobs[job[s]].attempts < MaxAttempts THEN "queued" ELSE "failed"

(* The simulation, action by action; the facts about the slots' states and *)
(* rows it needs are those of Kept and FinalInv.                           *)
LEMMA LifeStep ==
    ASSUME OneThread, Kept, FinalInv, [Next]_vars
    PROVE  [JobLife!JobServiceNext]_(JobLife!serviceVars)
<1> DEFINE Served == [JobLife!JobServiceNext]_(JobLife!serviceVars)
<1>p. /\ TypeOK /\ LeaseInv /\ OwnershipInv /\ BoundInv
      /\ pc \in [Slots -> PC] /\ job \in [Slots -> Jobs \cup {NoJob}]
      /\ retriable \in [Slots -> BOOLEAN] /\ jobs \in [Jobs -> JobRow]
      /\ claiming \in [Workers -> Jobs \cup {NoJob}]
      /\ \A s \in Slots : pc[s] # "idle" => job[s] \in Jobs
      /\ Lost \subseteq Jobs
  BY DEF Kept, TypeOK, JobTableTypeOK, Lost
<1>l. UNCHANGED historyVars => Lost' = Lost
  BY DEF historyVars, Lost
<1>k. \A j \in Jobs : j \in Clean <=> j \notin Lost
  BY DEF Clean, Lost
<1>1. ASSUME UNCHANGED <<jobs, pc, job, historyVars>> PROVE Served
  BY <1>1, <1>l, LifeStill DEF Settling
(* The API writes the row of a job that nobody executes. *)
<1>2. ASSUME NEW j \in Jobs, NEW x, RowWritten(j, x), Requested(j, x), UNCHANGED <<pc, job>>
      PROVE  Served
  <2>1. \A i \in Jobs, t \in Slots : Executes(t, i)' <=> Executes(t, i)
    BY <1>2 DEF Executes, RowWritten, Requested
  <2>2. CASE j \in Lost
    BY <1>2, <2>1, <2>2, LifeFrame DEF RowWritten
  <2>3. CASE j \notin Lost
    <3>1. OthersKept(j)
      BY <1>2, <2>1 DEF OthersKept, RowWritten
    <3>2. JobLife!Submit(j) \/ JobLife!Withdraw(j)
      BY <1>2, <2>1, <2>3, <3>1, LifeRow, JobProcessingAssumption
      DEF RowWritten, Requested, JobLife!Submit, JobLife!Withdraw, JobLife!Turn
    <3> QED BY <3>2 DEF JobLife!JobServiceNext
  <2> QED BY <2>2, <2>3
<1>3. ASSUME NEW j \in Jobs, Enqueue(j) \/ Cancel(j) PROVE Served
  <2>1. PICK x : /\ jobs' = [jobs EXCEPT ![j].status = x]
                 /\ Requested(j, x)
    BY <1>3, Zenon DEF Enqueue, Cancel, EnqueueJob, CancelQueuedJob, SetStatus, Requested
  <2>2. UNCHANGED <<pc, job>> /\ Lost' = Lost
    BY <1>3, <1>l DEF Enqueue, Cancel, slotVars
  <2>3. RowWritten(j, x)
    BY <2>1, <2>2, <1>p DEF JobRow, RowWritten
  <2> QED BY <1>2, <2>1, <2>2, <2>3
<1>4. ASSUME NEW w \in Workers, ClaimStart(w) \/ ClaimRollback(w) \/ Start(w) PROVE Served
  BY <1>4, <1>1 DEF ClaimStart, ClaimSelect, ClaimRollback, ClaimAbort, Start, jobTableVars,
     slotVars
<1>5. ASSUME NEW w \in Workers, ClaimDeliver(w) \/ ClaimLate(w) \/ LateClaimStep(w) PROVE Served
  <2>1. Claims(w) /\ Lost' = Lost
    BY <1>5, <1>l, LateClaimFrame DEF ClaimDeliver, Claims, ClaimStep, historyVars
  <2>2. \A i \in Jobs : /\ jobs'[i].status = jobs[i].status
                        /\ jobs'[i].attempts = jobs[i].attempts
                        /\ jobs[i].status = "running" => jobs'[i] = jobs[i]
    BY <2>1, <1>p, ClaimKeepsStatus, ClaimKeepsRow DEF OwnershipInv
  <2>3. \A t \in Slots : /\ Settling(t)' <=> Settling(t)
                         /\ Settling(t) => job'[t] = job[t]
    BY <1>5, <1>p, LateClaimFrame DEF ClaimDeliver, IdleSlots, SlotsOf, Settling
  <2>4. \A i \in Jobs, t \in Slots : Executes(t, i)' <=> Executes(t, i)
    BY <2>2, <2>3 DEF Executes, Settling
  <2> QED BY <2>1, <2>2, <2>4, LifeFrame
<1>6. ASSUME NEW s \in Slots,
             Acquire(s) \/ AcquireRefused(s) \/ Execute(s) \/ ReadAttempts(s) \/ Release(s)
      PROVE  Served
  <2>1. UNCHANGED <<jobs, historyVars>>
    BY <1>6 DEF Acquire, AcquireRefused, Execute, ReadAttempts, Release, jobTableVars
  <2>2. \A t \in Slots : /\ Settling(t)' <=> Settling(t)
                         /\ Settling(t) => job'[t] = job[t]
    BY <1>6, <1>p DEF Acquire, AcquireRefused, Execute, ReadAttempts, Release, Goto, Leave,
       Settling
  <2> QED BY <2>1, <2>2, <1>l, LifeStill
(* A thread that has claimed a job, but cannot start it, turns to marking  *)
(* it failed.                                                              *)
<1>7. ASSUME NEW s \in Slots, pc[s] = "markRunning", Goto(s, "markFailed", TRUE),
             UNCHANGED <<jobs, historyVars>>
      PROVE  Served
  <2>1. \A t \in Slots : t # s => (Settling(t)' <=> Settling(t)) /\ job'[t] = job[t]
    BY <1>7, <1>p DEF Goto, Settling
  <2>2. ASSUME NEW i \in Jobs \ Lost PROVE ~Executes(s, i) /\ ~Executes(s, i)'
    <3>1. i = job[s] /\ jobs[i].claimed_by = SlotWorker[s] => jobs[i].status # "running"
      BY <1>7, <1>p, <1>k, <2>2 DEF BoundInv, StartsFresh
    <3> QED BY <3>1, <1>7 DEF Executes, Goto
  <2>3. ASSUME NEW i \in Jobs \ Lost, NEW t \in Slots
        PROVE  Executes(t, i)' <=> Executes(t, i)
    <3>1. CASE t = s
      BY <2>2, <3>1
    <3>2. CASE t # s
      BY <2>1, <3>2, <1>7 DEF Executes, Settling
    <3> QED BY <3>1, <3>2
  <2> QED BY <2>3, <1>7, <1>l, LifeFrame
<1>8. ASSUME NEW s \in Slots, RunRejected(s) PROVE Served
  BY <1>8, <1>7 DEF RunRejected, MarkRunningRejected, GiveUp, jobTableVars
(* Threads leave the jobs they execute. *)
<1>9. ASSUME NEW gone \in SUBSET Slots, UNCHANGED <<jobs, historyVars>>,
             \A t \in gone : ~Settling(t)',
             \A t \in Slots \ gone : /\ Settling(t)' <=> Settling(t)
                                     /\ Settling(t) => job'[t] = job[t]
      PROVE  Served
  <2>1. \A i \in Jobs, t \in Slots : Executes(t, i)' <=> Executes(t, i) /\ t \notin gone
    BY <1>9 DEF Executes, Settling
  <2> QED BY <2>1, <1>9, <1>l, LifeVanish
<1>10. ASSUME NEW s \in Slots, Timeout(s) PROVE Served
  <2>1. UNCHANGED <<jobs, historyVars>> /\ GiveUp(s)
    BY <1>10 DEF Timeout, jobTableVars
  <2>2. CASE pc[s] = "markRunning"
    BY <2>1, <2>2, <1>7 DEF GiveUp
  <2>3. CASE pc[s] \in {"acquire", "release"}
    <3>1. \A t \in Slots : /\ Settling(t)' <=> Settling(t)
                           /\ Settling(t) => job'[t] = job[t]
      BY <2>1, <2>3, <1>p DEF GiveUp, Leave, Goto, Settling
    <3> QED BY <2>1, <3>1, <1>l, LifeStill
  <2>4. CASE pc[s] = "markSucceeded"
    <3>1. \A t \in Slots : /\ Settling(t)' <=> Settling(t)
                           /\ Settling(t) => job'[t] = job[t]
      BY <2>1, <2>4, <1>p DEF GiveUp, Leave, Goto, Settling
    <3> QED BY <2>1, <3>1, <1>l, LifeStill
  <2>5. CASE pc[s] = "markFailed"
    <3>1. \A t \in Slots \ {s} : /\ Settling(t)' <=> Settling(t)
                                 /\ Settling(t) => job'[t] = job[t]
      BY <2>1, <2>5, <1>p DEF GiveUp, Leave, Goto, Settling
    <3>2. {s} \in SUBSET Slots /\ \A t \in {s} : ~Settling(t)'
      BY <2>1, <2>5, <1>p DEF GiveUp, Leave, Goto, Settling
    <3> QED BY <2>1, <3>1, <3>2, <1>9
  <2>6. pc[s] \in Calls
    BY <1>10 DEF Timeout
  <2> QED BY <2>2, <2>3, <2>4, <2>5, <2>6 DEF Calls
<1>11. ASSUME NEW w \in Workers, Crash(w) PROVE Served
  <2>1. \A t \in SlotsOf(w) : ~Settling(t)'
    BY <1>11 DEF Crash, SlotsOf, Settling
  <2>2. \A t \in Slots \ SlotsOf(w) : /\ Settling(t)' <=> Settling(t)
                                      /\ Settling(t) => job'[t] = job[t]
    BY <1>11 DEF Crash, SlotsOf, Settling
  <2>3. UNCHANGED <<jobs, historyVars>> /\ SlotsOf(w) \in SUBSET Slots
    BY <1>11 DEF Crash, ClaimAbandon, SlotsOf
  <2> QED BY <2>1, <2>2, <2>3, <1>9
(* A claimed job is started. *)
<1>12. ASSUME NEW s \in Slots, Run(s) PROVE Served
  <2>0. PICK j \in Jobs : j = job[s]
    BY <1>12, <1>p DEF Run
  <2>1. /\ pc[s] = "markRunning" /\ pc' = [pc EXCEPT ![s] = "execute"] /\ job' = job
        /\ jobs' = [jobs EXCEPT ![j].status = "running", ![j].attempts = @ + 1]
        /\ jobs[j].claimed_by = SlotWorker[s] /\ Lost' = Lost
    BY <1>12, <2>0, <1>p, <1>l DEF Run, MarkRunning, ClaimedBy, Goto
  <2>2. /\ \A i \in Jobs \ {j} : jobs'[i] = jobs[i]
        /\ jobs'[j].status = "running" /\ jobs'[j].claimed_by = SlotWorker[s]
        /\ jobs'[j].attempts = jobs[j].attempts + 1
    BY <2>1, <1>p DEF JobRow
  <2>3. ASSUME NEW i \in Jobs \ {j}, NEW t \in Slots PROVE Executes(t, i)' <=> Executes(t, i)
    <3>1. CASE t = s
      BY <3>1, <2>0, <2>1, <2>3 DEF Executes
    <3>2. CASE t # s
      BY <3>2, <2>1, <2>2, <2>3, <1>p DEF Executes
    <3> QED BY <3>1, <3>2
  <2>4. ASSUME NEW t \in Slots PROVE Executes(t, j)' <=> t = s
    <3>1. CASE t = s
      BY <3>1, <2>0, <2>1, <2>2, <1>p DEF Executes
    <3>2. CASE t # s
      BY <3>2, <2>2 DEF Executes, OneThread
    <3> QED BY <3>1, <3>2
  <2>6. j \notin Lost => jobs[j].status \in {"queued", "cancelled"} /\ jobs[j].attempts < MaxAttempts
    BY <2>0, <2>1, <1>p, <1>k DEF BoundInv, StartsFresh, AttemptLeft
  <2>7. CASE j \in Lost
    BY <2>1, <2>2, <2>3, <2>7, LifeFrame
  <2>8. CASE j \notin Lost
    <3>1. OthersKept(j)
      BY <2>1, <2>2, <2>3 DEF OthersKept
    <3>2. {t \in Slots : Executes(t, j)'} = {s}
      BY <2>4
    <3>3. JobLife!Free(j)
      BY <2>0, <2>1, <2>8, <1>p, HolderFree DEF Holding, PC, Calls
    <3>4. JobLife!Begin(j, s)
      BY <2>1, <2>2, <2>6, <2>8, <3>1, <3>2, <3>3, LifeRow DEF JobLife!Begin, JobLife!Turn
    <3> QED BY <3>4 DEF JobLife!JobServiceNext
  <2> QED BY <2>7, <2>8
(* Slot s, which alone may execute the job, writes its end. *)
<1>13. ASSUME NEW s \in Slots, Settling(s), NEW x, x # "running", RowWritten(job[s], x),
              pc' = [pc EXCEPT ![s] = "release"], job' = job,
              job[s] \notin Lost => Judged(s, x)
       PROVE  Served
  <2>0. PICK j \in Jobs : j = job[s]
    BY <1>13, <1>p DEF Settling
  <2>1. Holding(s)
    BY <1>13 DEF Settling, Holding, PC, Calls
  <2>2. ASSUME NEW i \in Jobs \ {j}, NEW t \in Slots PROVE Executes(t, i)' <=> Executes(t, i)
    <3>1. CASE t = s
      BY <3>1, <1>13, <2>0, <2>2 DEF Executes
    <3>2. CASE t # s
      BY <3>2, <1>13, <2>0, <2>2, <1>p DEF Executes, RowWritten
    <3> QED BY <3>1, <3>2
  <2>3. \A t \in Slots : ~Executes(t, j)'
    BY <1>13, <2>0 DEF Executes, RowWritten
  <2>4. CASE j \in Lost
    BY <1>13, <2>0, <2>2, <2>4, LifeFrame DEF RowWritten
  <2>5. ASSUME j \notin Lost, NEW t \in Slots
        PROVE  Executes(t, j) <=> t = s /\ Named(s)
    <3>1. Executes(t, j) => t = s
      BY <1>p, <2>0, <2>1, <2>5, SoleExecutor
    <3>2. Executes(s, j) <=> Named(s)
      BY <1>13, <2>0 DEF Executes, Settling, Named
    <3> QED BY <3>1, <3>2
  <2>6. CASE j \notin Lost
    <3>1. OthersKept(j)
      BY <1>13, <2>0, <2>2 DEF OthersKept, RowWritten
    <3>2. {t \in Slots : Executes(t, j)'} = {}
      BY <2>3
    <3>3. /\ Lost' = Lost
          /\ StatusOf' = [StatusOf EXCEPT ![j] = x]
          /\ ExecutorsOf' = [ExecutorsOf EXCEPT ![j] = {}]
          /\ UNCHANGED TriesOf
          /\ StatusOf[j] = jobs[j].status
          /\ TriesOf[j] = jobs[j].attempts
          /\ ExecutorsOf[j] = {t \in Slots : Executes(t, j)}
      BY <1>13, <2>0, <2>1, <2>6, <3>1, <3>2, LifeRow DEF RowWritten
    <3>4. CASE Named(s)
      <4>0. \/ x \in {"succeeded", "failed"}
            \/ x = "queued" /\ jobs[j].attempts < MaxAttempts
        BY <1>13, <2>0, <2>6, <3>4 DEF Judged
      <4>1. ExecutorsOf[j] = {s} /\ jobs[j].status = "running"
        BY <2>0, <2>5, <2>6, <3>3, <3>4 DEF Named
      <4>2. JobLife!Complete(j, s) \/ JobLife!GiveUp(j, s) \/ JobLife!Retry(j, s)
        BY <2>6, <3>3, <4>0, <4>1
        DEF JobLife!Complete, JobLife!GiveUp, JobLife!Retry, JobLife!Ends, JobLife!Turn
      <4> QED BY <2>1, <4>2 DEF JobLife!JobServiceNext
    <3>5. CASE ~Named(s)
      <4>0. /\ jobs[j].status # "absent"
            /\ x = IF jobs[j].attempts < MaxAttempts THEN "queued" ELSE "failed"
        BY <1>13, <2>0, <2>6, <3>5 DEF Judged
      <4>1. ExecutorsOf[j] = {}
        BY <2>5, <2>6, <3>3, <3>5
      <4>2. ExecutorsOf' = ExecutorsOf
        BY <3>3, <4>1 DEF ExecutorsOf
      <4>3. JobLife!SendBack(j)
        BY <2>6, <3>3, <4>0, <4>1, <4>2 DEF JobLife!SendBack, JobLife!Turn
      <4> QED BY <2>1, <4>3 DEF JobLife!JobServiceNext
    <3> QED BY <3>4, <3>5
  <2> QED BY <2>4, <2>6
<1>14. ASSUME NEW s \in Slots, Succeed(s) PROVE Served
  <2>1. /\ pc[s] = "markSucceeded" /\ pc' = [pc EXCEPT ![s] = "release"] /\ job' = job
        /\ jobs' = [jobs EXCEPT ![job[s]].status = "succeeded"] /\ job[s] \in Jobs
        /\ Lost' = Lost
    BY <1>14, <1>p, <1>l DEF Succeed, MarkSucceeded, SetStatus, Goto
  <2>2. RowWritten(job[s], "succeeded") /\ Settling(s)
    BY <2>1, <1>p DEF JobRow, RowWritten, Settling
  <2>3. job[s] \notin Lost => Judged(s, "succeeded")
    BY <2>1, <1>p DEF OwnershipInv, ExecutionOwnership, Executing, Lost, Named, Judged
  <2> QED BY <2>1, <2>2, <2>3, <1>13
<1>15. ASSUME NEW s \in Slots, Fail(s) PROVE Served
  <2>1. /\ pc[s] = "markFailed" /\ pc' = [pc EXCEPT ![s] = "release"] /\ job' = job
        /\ seen[s] # Unread /\ job[s] \in Jobs /\ Lost' = Lost
    BY <1>15, <1>p, <1>l DEF Fail, Goto
  <2>2. PICK x : x = StatusAfterFailure(retriable[s], seen[s])
    OBVIOUS
  <2>3. jobs' = [jobs EXCEPT ![job[s]].status = x, ![job[s]].claimed_by = NoWorker]
    BY <1>15, <2>2, Zenon DEF Fail, MarkFailed
  <2>4. RowWritten(job[s], x) /\ Settling(s) /\ x # "running"
    BY <2>1, <2>2, <2>3, <1>p DEF JobRow, RowWritten, Settling, StatusAfterFailure
  <2>5. ASSUME job[s] \notin Lost PROVE Judged(s, x)
    <3>1. seen[s] = jobs[job[s]].attempts
      BY <2>1, <2>5, <1>p, <1>k DEF BoundInv, ReadsTrue
    <3>2. ~retriable[s] => Named(s)
      BY <2>1, <2>5, <1>k DEF FinalInv, FinalNamed, Final
    <3>3. jobs[job[s]].status # "absent"
      BY <2>1 DEF FinalInv, Known
    <3> QED BY <2>2, <3>1, <3>2, <3>3 DEF Judged, StatusAfterFailure
  <2> QED BY <2>1, <2>4, <2>5, <1>13
<1>16. ASSUME NEW r \in late, Land(r) PROVE Served
  <2>1. r.job \in Jobs /\ UNCHANGED <<pc, job, overran>>
    BY <1>16, <1>p DEF TypeOK, Request, Land, slotVars
  <2>2. CASE LandLockRequest(r) \/ LandRead(r)
    BY <2>1, <2>2, <1>1 DEF LandLockRequest, LandRead, jobTableVars, historyVars
  <2>3. CASE LandMark(r)
    <3>1. Lost' = Lost \cup {r.job}
      BY <2>1, <2>3 DEF LandMark, Lost
    <3>2. \A i \in Jobs \ {r.job} : jobs'[i] = jobs[i]
      BY <2>1, <2>3, <1>p DEF LandMark, MarkRunning, MarkRunningRejected, MarkSucceeded,
         MarkFailed, SetStatus, jobTableVars
    <3>3. \A i \in Jobs \ Lost', t \in Slots : Executes(t, i)' <=> Executes(t, i)
      BY <2>1, <3>1, <3>2 DEF Executes
    <3> QED BY <2>1, <3>1, <3>2, <3>3, <1>p, LifeLose
  <2> QED BY <2>2, <2>3, <1>16 DEF Land
<1>17. ASSUME Tick PROVE Served
  <2>1. UNCHANGED <<jobs, pc, job>> /\ Lost \subseteq Lost' /\ Lost' \subseteq Jobs
    BY <1>17, <1>p DEF Tick, jobTableVars, slotVars, Lost
  <2>2. \A i \in Jobs, t \in Slots : Executes(t, i)' <=> Executes(t, i)
    BY <2>1 DEF Executes
  <2> QED BY <2>1, <2>2, LifeLose
<1>18. ASSUME Cleanup \/ UNCHANGED vars PROVE Served
  BY <1>18, <1>1 DEF Cleanup, jobTableVars, slotVars, vars, historyVars
<1> HIDE DEF Served
<1>19. Served
  BY <1>3, <1>4, <1>5, <1>6, <1>8, <1>10, <1>11, <1>12, <1>14, <1>15, <1>16, <1>17, <1>18, Zenon
  DEF Next, ClaimStep, SlotStep
<1> QED BY <1>19 DEF Served

(* Workers with one thread each, together with the tables, are a job       *)
(* service: one thread at a time executes a job, at most max_attempts      *)
(* times and alone on its keys, and nobody else ends its execution,        *)
(* whatever fails or crashes.                                              *)
THEOREM JobsServedCorrect == OneThread => (Spec => JobsServed)
<1> SUFFICES ASSUME OneThread PROVE Spec => JobsServed
  OBVIOUS
<1>1. Init => JobLife!JobServiceInit /\ FinalInv
  BY JobProcessingAssumption
  DEF Init, JobTableInit, JobLife!JobServiceInit, StatusOf, TriesOf, ExecutorsOf, Lost,
     Executes, FinalInv, FinalNamed, Final, Known
<1>2. Kept /\ FinalInv /\ [Next]_vars => FinalInv'
  BY FinalStep, KnownStep DEF Kept, FinalInv
<1>3. Kept /\ FinalInv /\ [Next]_vars => [JobLife!JobServiceNext]_(JobLife!serviceVars)
  BY LifeStep
<1> QED BY <1>1, <1>2, <1>3, KeptHolds, PTL DEF Spec, JobsServed, JobLife!JobServiceSpec

(* So they keep its promise: as the service counts a job's executing       *)
(* threads, there is one at most, no two executed jobs share a key, and    *)
(* none has more than max_attempts.                                        *)
THEOREM PromiseHolds == OneThread => (Spec => []JobLife!Promise)
<1>1. JobsServed => []JobLife!Promise
  BY JobTableAssumption, JobLife!PromiseKept DEF JobsServed
<1> QED BY <1>1, JobsServedCorrect, PTL
=============================================================================
