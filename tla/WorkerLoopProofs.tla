--------------------------- MODULE WorkerLoopProofs ---------------------------
(***************************************************************************)
(* Proofs about WorkerLoop, for any jobs, keys, concurrency and bound.     *)
(* The inductive invariant has a part for each of the properties, so that  *)
(* every part is shown to be kept by the actions that can disturb it.      *)
(***************************************************************************)
EXTENDS WorkerLoop, FiniteSetTheorems, TLAPS

(* What makes NeverOvercommitted hold: the calls in process are behind the *)
(* futures of the list, and a claim is made only when the list is short.   *)
FutureInv ==
    /\ Unfinished \subseteq futures
    /\ Cardinality(futures) <= Concurrency
    /\ main \in {"claim", "answered"} => Cardinality(futures) < Concurrency

(* What makes HealthCounts hold. *)
CountInv ==
    /\ \A j \in Jobs \ (left \cup shared) :
          j \in active_jobs <=> \E f \in Unfinished : job[f] = j
    /\ \A f, g \in Unfinished : f # g /\ job[f] = job[g] => job[f] \in shared

(* What makes WakesHeard hold: a claim that found nothing has passed over   *)
(* whatever was queued, and until the clear after the wait a later wake    *)
(* leaves the event set.                                                   *)
WakeInv ==
    /\ woken \subseteq queue
    /\ \/ main = "answered" /\ claimed = NoJob
       \/ main \in {"enter", "wait"} /\ why = "none"
       => woken \subseteq passedOver \/ event

(* What makes SocketReachable hold. *)
SocketInv ==
    /\ Starting \/ main = "join" => thread = "off"
    /\ file = "ours" => thread = "on"
    /\ other = "up" => overlapped
    /\ ~overlapped =>
          /\ main = "bind" => file = "none"
          /\ thread = "on" => file = "ours"
          /\ faults = 0 /\ ~Starting /\ main # "join" => thread = "on"

Inv == TypeOK /\ FutureInv /\ CountInv /\ WakeInv /\ SocketInv

-----------------------------------------------------------------------------
(* The initial states satisfy the invariant. *)
LEMMA InvInit == Init => Inv
<1> SUFFICES ASSUME Init PROVE Inv
  OBVIOUS
<1> USE WorkerLoopAssumption
<1>1. TypeOK
  BY DEF Init, TypeOK, MainTyped, PoolTyped, TablesTyped, SocketTyped, Main, Phase
<1>2. Unfinished = {}
  BY DEF Init, Unfinished
<1>3. FutureInv
  BY <1>2, FS_EmptySet DEF Init, FutureInv
<1>4. CountInv /\ WakeInv /\ SocketInv
  BY <1>2 DEF Init, CountInv, WakeInv, SocketInv, Starting
<1> QED BY <1>1, <1>3, <1>4 DEF Inv

-----------------------------------------------------------------------------
(* The calls in process are finitely many, and so is every set of futures. *)
LEMMA FewFutures ==
    ASSUME TypeOK
    PROVE  /\ IsFiniteSet(futures) /\ Cardinality(futures) \in Nat
           /\ IsFiniteSet(Unfinished) /\ Cardinality(Unfinished) \in Nat
<1>1. futures \subseteq Futures /\ Unfinished \subseteq Futures
  BY DEF TypeOK, PoolTyped, Unfinished
<1> QED BY <1>1, WorkerLoopAssumption, FS_Subset, FS_CardinalityType

(* The main thread's own variables stay in their ranges. *)
LEMMA MainStepTyped == TypeOK /\ [Next]_vars => MainTyped'
<1> SUFFICES ASSUME TypeOK, [Next]_vars PROVE MainTyped'
  OBVIOUS
<1>t. MainTyped /\ queue \subseteq Jobs
  BY DEF TypeOK, TablesTyped
<1>1. ASSUME main' \in Main, why' = why \/ why' \in {"none", "failed", "full"},
             claimed' = claimed \/ claimed' \in Jobs \cup {NoJob},
             event' = event \/ event' \in BOOLEAN,
             shutdown' = shutdown \/ shutdown' \in BOOLEAN
      PROVE  MainTyped'
  BY <1>1, <1>t DEF MainTyped
<1>m. main \in Main
  BY <1>t DEF MainTyped
<1>2. ASSUME Start \/ Loop PROVE MainTyped'
  BY <1>1, <1>2 DEF Start, UnlinkStale, Bind, Loop, Main
<1>3. ASSUME Claim PROVE MainTyped'
  BY <1>1, <1>3, <1>t DEF Claim, Oldest, Visible, Main
<1>4. ASSUME ClaimFails \/ ClaimMisread \/ NothingClaimed \/ Submit PROVE MainTyped'
  BY <1>1, <1>4 DEF ClaimFails, ClaimMisread, NothingClaimed, Submit, Main
<1>5. ASSUME EnterWait \/ EndWait \/ Clear PROVE MainTyped'
  BY <1>1, <1>5 DEF EnterWait, EndWait, Clear, Main
<1>6. ASSUME Drained \/ DrainTimesOut \/ StopServer \/ Exit PROVE MainTyped'
  BY <1>1, <1>6 DEF Drained, DrainTimesOut, StopServer, Exit, Main
<1>7. ASSUME NEW f \in Futures, PoolStep(f) PROVE MainTyped'
  BY <1>1, <1>m, <1>7 DEF PoolStep, Acquire, Return, Execute, Finish
<1>8. ASSUME NEW j \in Jobs, QueueStep(j) PROVE MainTyped'
  BY <1>1, <1>m, <1>8 DEF QueueStep, Enqueue, TakenElsewhere, RowLocked, RowFreed, processVars
<1>9. ASSUME NEW k \in Keys, LetGo(k) PROVE MainTyped'
  BY <1>1, <1>m, <1>9 DEF LetGo, processVars
<1>10. ASSUME Wake \/ OtherStarts \/ OtherStops PROVE MainTyped'
  BY <1>1, <1>m, <1>10 DEF Wake, OtherStarts, OtherStops, processVars
<1>11. ASSUME Signal PROVE MainTyped'
  <2>1. main' \in Main
    BY <1>m, <1>11 DEF Signal, Main
  <2> QED BY <1>1, <2>1, <1>11 DEF Signal
<1>12. ASSUME Crash \/ Launch PROVE MainTyped'
  BY <1>1, <1>12 DEF Crash, Launch, Fresh, Main
<1>13. ASSUME UNCHANGED vars PROVE MainTyped'
  BY <1>1, <1>m, <1>13 DEF vars, processVars
<1> QED BY <1>2, <1>3, <1>4, <1>5, <1>6, <1>7, <1>8, <1>9, <1>10, <1>11, <1>12, <1>13
        DEF Next, MainStep, Environment, QueueStep

(* The futures and the calls behind them stay in their ranges. *)
LEMMA PoolStepTyped == TypeOK /\ [Next]_vars => PoolTyped'
<1> SUFFICES ASSUME TypeOK, [Next]_vars PROVE PoolTyped'
  OBVIOUS
<1>t. PoolTyped
  BY DEF TypeOK
<1>1. ASSUME UNCHANGED <<futures, phase, job, active_jobs, shared, left>>
      PROVE  PoolTyped'
  BY <1>1, <1>t DEF PoolTyped
<1>2. ASSUME Start PROVE PoolTyped'
  BY <1>1, <1>2 DEF Start, UnlinkStale, Bind
<1>3. ASSUME Loop PROVE PoolTyped'
  <2>1. CASE UNCHANGED <<futures, phase, job>>
    BY <2>1, <1>1, <1>3 DEF Loop
  <2>2. CASE ~UNCHANGED <<futures, phase, job>>
    <3> DEFINE done == {f \in futures : phase[f] = "done"}
    <3>1. /\ futures' = futures \ done
          /\ phase' = [f \in Futures |-> IF f \in done THEN "none" ELSE phase[f]]
          /\ job' = [f \in Futures |-> IF f \in done THEN NoJob ELSE job[f]]
          /\ UNCHANGED <<active_jobs, shared, left>>
      BY <2>2, <1>3 DEF Loop
    <3> HIDE DEF done
    <3>2. phase' \in [Futures -> Phase]
      BY <3>1, <1>t DEF PoolTyped, Phase
    <3>3. job' \in [Futures -> Jobs \cup {NoJob}]
      BY <3>1, <1>t DEF PoolTyped
    <3>4. \A f \in Futures : phase'[f] # "none" => job'[f] \in Jobs
      BY <3>1, <1>t DEF PoolTyped
    <3> QED BY <3>1, <3>2, <3>3, <3>4, <1>t DEF PoolTyped
  <2> QED BY <2>1, <2>2
<1>4. ASSUME Claim \/ ClaimFails \/ ClaimMisread \/ NothingClaimed PROVE PoolTyped'
  BY <1>1, <1>4 DEF Claim, ClaimFails, ClaimMisread, NothingClaimed
<1>5. ASSUME Submit PROVE PoolTyped'
  <2>1. claimed \in Jobs
    BY <1>5 DEF Submit, TypeOK, MainTyped
  <2>2. PICK f \in Futures : /\ phase' = [phase EXCEPT ![f] = "acquire"]
                             /\ job' = [job EXCEPT ![f] = claimed]
                             /\ futures' = futures \cup {f}
    BY <1>5 DEF Submit
  <2>3. /\ active_jobs' = active_jobs \cup {claimed}
        /\ shared' \subseteq shared \cup {claimed} /\ left' \subseteq left
    BY <1>5 DEF Submit
  <2>4. phase' \in [Futures -> Phase] /\ job' \in [Futures -> Jobs \cup {NoJob}]
    BY <2>1, <2>2, <1>t DEF PoolTyped, Phase
  <2>5. \A g \in Futures : phase'[g] # "none" => job'[g] \in Jobs
    BY <2>1, <2>2, <1>t DEF PoolTyped
  <2> QED BY <2>1, <2>2, <2>3, <2>4, <2>5, <1>t DEF PoolTyped
<1>6. ASSUME EnterWait \/ EndWait \/ Clear PROVE PoolTyped'
  BY <1>1, <1>6 DEF EnterWait, EndWait, Clear
<1>7. ASSUME Drained \/ DrainTimesOut \/ StopServer \/ Exit PROVE PoolTyped'
  BY <1>1, <1>7 DEF Drained, DrainTimesOut, StopServer, Exit
<1>8. ASSUME NEW f \in Futures, PoolStep(f) PROVE PoolTyped'
  <2>1. phase[f] # "none" /\ \E p \in Phase : phase' = [phase EXCEPT ![f] = p]
    BY <1>8 DEF PoolStep, Acquire, Return, Execute, Finish, Phase
  <2>2. /\ UNCHANGED <<futures, job, shared>>
        /\ active_jobs' \subseteq active_jobs /\ left' \subseteq left \cup {job[f]}
    BY <1>8 DEF PoolStep, Acquire, Return, Execute, Finish
  <2>3. job[f] \in Jobs
    BY <2>1, <1>t DEF PoolTyped
  <2> QED BY <2>1, <2>2, <2>3, <1>t DEF PoolTyped
<1>9. ASSUME NEW j \in Jobs, QueueStep(j) PROVE PoolTyped'
  BY <1>1, <1>9 DEF QueueStep, Enqueue, TakenElsewhere, RowLocked, RowFreed, processVars
<1>10. ASSUME NEW k \in Keys, LetGo(k) PROVE PoolTyped'
  BY <1>1, <1>10 DEF LetGo, processVars
<1>11. ASSUME Wake \/ OtherStarts \/ OtherStops \/ Signal PROVE PoolTyped'
  BY <1>1, <1>11 DEF Wake, OtherStarts, OtherStops, Signal, processVars
<1>12. ASSUME Crash \/ Launch PROVE PoolTyped'
  BY <1>12 DEF PoolTyped, Crash, Launch, Fresh, Phase
<1>13. ASSUME UNCHANGED vars PROVE PoolTyped'
  BY <1>1, <1>13 DEF vars, processVars
<1> QED BY <1>2, <1>3, <1>4, <1>5, <1>6, <1>7, <1>8, <1>9, <1>10, <1>11, <1>12, <1>13
        DEF Next, MainStep, Environment, QueueStep

(* What the loop can tell of the tables stays in its range. *)
LEMMA TablesStepTyped == TypeOK /\ [Next]_vars => TablesTyped'
<1> SUFFICES ASSUME TypeOK, [Next]_vars PROVE TablesTyped'
  OBVIOUS
<1>t. TablesTyped
  BY DEF TypeOK
<1>1. ASSUME UNCHANGED tableVars PROVE TablesTyped'
  BY <1>1, <1>t DEF TablesTyped, tableVars
<1>2. ASSUME Start \/ Loop \/ NothingClaimed \/ Submit \/ EnterWait \/ EndWait PROVE TablesTyped'
  BY <1>1, <1>2 DEF Start, UnlinkStale, Bind, Loop, NothingClaimed, Submit, EnterWait, EndWait
<1>3. ASSUME Drained \/ DrainTimesOut \/ StopServer \/ Exit PROVE TablesTyped'
  BY <1>1, <1>3 DEF Drained, DrainTimesOut, StopServer, Exit
<1>9. ASSUME Claim \/ Clear PROVE TablesTyped'
  BY <1>9, <1>t DEF TablesTyped, Claim, Clear
<1>10. ASSUME ClaimFails \/ ClaimMisread PROVE TablesTyped'
  BY <1>10, <1>t DEF TablesTyped, ClaimFails, ClaimMisread, ClaimGoesOn, Oldest, Visible
<1>11. ASSUME NEW f \in Futures, PoolStep(f) PROVE TablesTyped'
  <2>1. job[f] \in Jobs
    BY <1>11 DEF PoolStep, Acquire, Return, Execute, Finish, TypeOK, PoolTyped
  <2>2. Key[job[f]] \in Keys
    BY <2>1, WorkerLoopAssumption
  <2>3. CASE Acquire(f)
    BY <2>3, <1>t DEF TablesTyped, Acquire
  <2>4. CASE Return(f) \/ Finish(f)
    BY <2>2, <2>4, <1>t DEF TablesTyped, Return, Finish, KeyStaysLocked
  <2>5. CASE Execute(f)
    BY <2>1, <2>5, <1>t DEF TablesTyped, Execute
  <2> QED BY <2>3, <2>4, <2>5, <1>11 DEF PoolStep
<1>12. ASSUME Crash PROVE TablesTyped'
  <2>1. LockedHere \subseteq Keys /\ Acquiring \subseteq Keys
    BY WorkerLoopAssumption DEF LockedHere, Acquiring, TypeOK, PoolTyped
  <2>2. elsewhere' \subseteq Keys
    BY <2>1, <1>12, <1>t DEF TablesTyped, Crash
  <2>3. locked' \subseteq queue
    BY <1>12, <1>t DEF TablesTyped, Crash, ClaimGoesOn, Oldest, Visible
  <2> QED BY <2>2, <2>3, <1>12, <1>t DEF TablesTyped, Crash, Fresh
<1>13. ASSUME Launch PROVE TablesTyped'
  BY <1>13, <1>t DEF TablesTyped, Launch, Fresh
<1>4. ASSUME NEW j \in Jobs, QueueStep(j) PROVE TablesTyped'
  BY <1>4, <1>t DEF TablesTyped, QueueStep, Enqueue, TakenElsewhere, RowLocked, RowFreed,
     Oldest
<1>5. ASSUME NEW k \in Keys, LetGo(k) PROVE TablesTyped'
  BY <1>5, <1>t DEF TablesTyped, LetGo
<1>6. ASSUME Wake PROVE TablesTyped'
  BY <1>6, <1>t DEF TablesTyped, Wake
<1>7. ASSUME OtherStarts \/ OtherStops \/ Signal PROVE TablesTyped'
  BY <1>7, <1>1 DEF OtherStarts, OtherStops, Signal
<1>8. ASSUME UNCHANGED vars PROVE TablesTyped'
  BY <1>8, <1>1 DEF vars
<1> QED BY <1>2, <1>3, <1>4, <1>5, <1>6, <1>7, <1>8, <1>9, <1>10, <1>11, <1>12, <1>13
        DEF Next, MainStep, Environment, QueueStep

(* The socket's variables and the counters stay in their ranges. *)
LEMMA SocketStepTyped == TypeOK /\ [Next]_vars => SocketTyped'
<1> SUFFICES ASSUME TypeOK, [Next]_vars PROVE SocketTyped'
  OBVIOUS
<1>t. SocketTyped
  BY DEF TypeOK
<1>1. ASSUME thread' = thread \/ thread' \in {"off", "on"},
             file' = file \/ file' \in {"none", "stale", "ours", "theirs"},
             other' = other \/ other' \in {"never", "up", "gone"},
             overlapped' = overlapped \/ overlapped' \in BOOLEAN,
             requeues' = requeues \/ requeues' = requeues + 1,
             faults' = faults \/ faults' = faults + 1,
             crashes' = crashes \/ crashes' = crashes + 1,
             launches' = launches \/ launches' = launches + 1,
             rowlocks' = rowlocks \/ rowlocks' = rowlocks + 1
      PROVE  SocketTyped'
  BY <1>1, <1>t DEF SocketTyped
<1>2. ASSUME Start PROVE SocketTyped'
  BY <1>2, <1>1 DEF Start, UnlinkStale, Bind, Fault, boundVars
<1>3. ASSUME Loop \/ Claim \/ NothingClaimed \/ Submit PROVE SocketTyped'
  BY <1>3, <1>1 DEF Loop, Claim, NothingClaimed, Submit, socketVars, boundVars
<1>12. ASSUME ClaimFails \/ ClaimMisread PROVE SocketTyped'
  BY <1>12, <1>1 DEF ClaimFails, ClaimMisread, Fault, socketVars
<1>4. ASSUME EnterWait \/ EndWait \/ Clear \/ Drained \/ DrainTimesOut PROVE SocketTyped'
  BY <1>4, <1>1 DEF EnterWait, EndWait, Clear, Drained, DrainTimesOut, socketVars, boundVars
<1>5. ASSUME StopServer \/ Exit PROVE SocketTyped'
  BY <1>5, <1>1 DEF StopServer, Exit, ServerDies, boundVars
<1>6. ASSUME NEW f \in Futures, PoolStep(f) PROVE SocketTyped'
  BY <1>6, <1>1 DEF PoolStep, Acquire, Return, Execute, Finish, KeyStaysLocked, Fault,
     socketVars, boundVars
<1>7. ASSUME NEW j \in Jobs, QueueStep(j) PROVE SocketTyped'
  BY <1>7, <1>1 DEF QueueStep, Enqueue, TakenElsewhere, RowLocked, RowFreed, socketVars, boundVars
<1>8. ASSUME NEW k \in Keys, LetGo(k) PROVE SocketTyped'
  BY <1>8, <1>1 DEF LetGo, socketVars, boundVars
<1>9. ASSUME Wake \/ OtherStarts \/ OtherStops \/ Signal PROVE SocketTyped'
  BY <1>9, <1>1 DEF Wake, OtherStarts, OtherStops, Signal, socketVars, boundVars
<1>10. ASSUME Crash \/ Launch PROVE SocketTyped'
  BY <1>10, <1>1 DEF Crash, Launch, ServerDies
<1>11. ASSUME UNCHANGED vars PROVE SocketTyped'
  BY <1>11, <1>1 DEF vars, socketVars, boundVars
<1> QED BY <1>2, <1>3, <1>4, <1>5, <1>6, <1>7, <1>8, <1>9, <1>10, <1>11, <1>12
        DEF Next, MainStep, Environment, QueueStep

(* The type invariant is kept by every step. *)
LEMMA TypeStep == TypeOK /\ [Next]_vars => TypeOK'
  BY MainStepTyped, PoolStepTyped, TablesStepTyped, SocketStepTyped DEF TypeOK

-----------------------------------------------------------------------------
(* A thread of the pool only takes its own call further: none is added.    *)
LEMMA PoolShrinks ==
    ASSUME TypeOK, NEW f \in Futures, PoolStep(f)
    PROVE  /\ Unfinished' \subseteq Unfinished
           /\ f \in Unfinished /\ Unfinished \ {f} \subseteq Unfinished'
           /\ UNCHANGED <<main, why, claimed, futures, event, shutdown, job, shared, socketVars>>
<1>1. \E p \in Phase : phase' = [phase EXCEPT ![f] = p]
  BY DEF PoolStep, Acquire, Return, Execute, Finish, Phase
<1>2. phase[f] \in {"acquire", "execute", "finish"}
  BY DEF PoolStep, Acquire, Return, Execute, Finish
<1> QED BY <1>1, <1>2 DEF TypeOK, PoolTyped, Unfinished, PoolStep, Acquire, Return, Execute, Finish

(* A job that is submitted gets a future of its own. *)
LEMMA SubmitAdds ==
    ASSUME TypeOK, FutureInv, Submit
    PROVE  \E f \in Futures : /\ f \notin Unfinished
                              /\ Unfinished' = Unfinished \cup {f}
                              /\ futures' = futures \cup {f}
                              /\ job' = [job EXCEPT ![f] = claimed]
<1>1. PICK f \in Futures : /\ NewFuture(f)
                           /\ phase' = [phase EXCEPT ![f] = "acquire"]
                           /\ job' = [job EXCEPT ![f] = claimed]
                           /\ futures' = futures \cup {f}
  BY DEF Submit
<1>2. phase[f] = "none"
  BY <1>1 DEF NewFuture
<1>3. f \notin Unfinished /\ Unfinished' = Unfinished \cup {f}
  BY <1>1, <1>2 DEF Unfinished, TypeOK, PoolTyped
<1> QED BY <1>1, <1>3

(* Taking finished futures off the list touches no call in process. *)
LEMMA LoopKeeps ==
    ASSUME TypeOK, Loop
    PROVE  /\ Unfinished' = Unfinished
           /\ \A f \in Unfinished : job'[f] = job[f]
           /\ futures' \subseteq futures
           /\ Unfinished \subseteq futures => Unfinished \subseteq futures'
  BY DEF TypeOK, PoolTyped, Loop, Unfinished

(* What a killed or new process has. *)
LEMMA FreshEmpty ==
    ASSUME Fresh
    PROVE  Unfinished' = {} /\ futures' = {} /\ active_jobs' = {}
  BY DEF Fresh, Unfinished

-----------------------------------------------------------------------------
(* No step makes the list of futures longer than the pool has threads.     *)
LEMMA FutureStep == TypeOK /\ FutureInv /\ [Next]_vars => FutureInv'
<1> SUFFICES ASSUME TypeOK, FutureInv, [Next]_vars PROVE FutureInv'
  OBVIOUS
<1> USE WorkerLoopAssumption
<1>f. IsFiniteSet(futures) /\ Cardinality(futures) \in Nat
  BY FewFutures
<1>1. ASSUME Loop PROVE FutureInv'
  <2>1. Unfinished' \subseteq futures' /\ futures' \subseteq futures
    BY <1>1, LoopKeeps DEF FutureInv
  <2>2. Cardinality(futures') <= Cardinality(futures) /\ Cardinality(futures') \in Nat
    BY <2>1, <1>f, FS_Subset, FS_CardinalityType
  <2>3. main' \in {"drain", "claim", "enter"}
        /\ (main' = "claim" => Cardinality(futures') < Concurrency)
    BY <1>1 DEF Loop, SlotFree
  <2> QED BY <2>1, <2>2, <2>3, <1>f DEF FutureInv
<1>2. ASSUME Claim \/ ClaimMisread PROVE FutureInv'
  BY <1>2 DEF FutureInv, Claim, ClaimMisread, Unfinished
<1>3. ASSUME Submit PROVE FutureInv'
  <2>1. PICK f \in Futures : Unfinished' = Unfinished \cup {f} /\ futures' = futures \cup {f}
    BY <1>3, SubmitAdds
  <2>2. Cardinality(futures') <= Cardinality(futures) + 1 /\ Cardinality(futures') \in Nat
    <3>1. Cardinality(futures \cup {f}) = IF f \in futures THEN Cardinality(futures)
                                          ELSE Cardinality(futures) + 1
      BY <1>f, FS_AddElement
    <3> QED BY <2>1, <3>1, <1>f
  <2>3. main = "answered" /\ main' = "clear"
    BY <1>3 DEF Submit
  <2> QED BY <2>1, <2>2, <2>3, <1>f DEF FutureInv
<1>4. ASSUME NEW f \in Futures, PoolStep(f) PROVE FutureInv'
  BY <1>4, PoolShrinks DEF FutureInv
<1>5. ASSUME Crash \/ Launch PROVE FutureInv'
  BY <1>5, FreshEmpty, FS_EmptySet DEF FutureInv, Crash, Launch
<1>6. ASSUME UNCHANGED <<futures, phase>>, main' = main \/ main' \notin {"claim", "answered"}
      PROVE  FutureInv'
  BY <1>6 DEF FutureInv, Unfinished
<1>7. ASSUME Start \/ ClaimFails \/ NothingClaimed PROVE FutureInv'
  BY <1>7, <1>6 DEF Start, UnlinkStale, Bind, ClaimFails, NothingClaimed
<1>8. ASSUME EnterWait \/ EndWait \/ Clear PROVE FutureInv'
  BY <1>8, <1>6 DEF EnterWait, EndWait, Clear
<1>9. ASSUME Drained \/ DrainTimesOut \/ StopServer \/ Exit PROVE FutureInv'
  BY <1>9, <1>6 DEF Drained, DrainTimesOut, StopServer, Exit
<1>10. ASSUME NEW j \in Jobs, QueueStep(j) PROVE FutureInv'
  BY <1>10, <1>6 DEF QueueStep, Enqueue, TakenElsewhere, RowLocked, RowFreed, processVars
<1>11. ASSUME NEW k \in Keys, LetGo(k) PROVE FutureInv'
  BY <1>11, <1>6 DEF LetGo, processVars
<1>12. ASSUME Wake \/ OtherStarts \/ OtherStops \/ Signal PROVE FutureInv'
  BY <1>12, <1>6 DEF Wake, OtherStarts, OtherStops, Signal, processVars
<1>13. ASSUME UNCHANGED vars PROVE FutureInv'
  BY <1>13, <1>6 DEF vars, processVars
<1> QED BY <1>1, <1>2, <1>3, <1>4, <1>5, <1>7, <1>8, <1>9, <1>10, <1>11, <1>12, <1>13
        DEF Next, MainStep, Environment, QueueStep

-----------------------------------------------------------------------------
(* Every step keeps active_jobs what the health answer takes it for.       *)
LEMMA CountStep == TypeOK /\ FutureInv /\ CountInv /\ [Next]_vars => CountInv'
<1> SUFFICES ASSUME TypeOK, FutureInv, CountInv, [Next]_vars PROVE CountInv'
  OBVIOUS
<1>1. ASSUME UNCHANGED <<phase, job, active_jobs, shared, left>> PROVE CountInv'
  BY <1>1 DEF CountInv, Unfinished
<1>2. ASSUME Loop PROVE CountInv'
  <2>1. Unfinished' = Unfinished /\ \A f \in Unfinished : job'[f] = job[f]
    BY <1>2, LoopKeeps
  <2>2. UNCHANGED <<active_jobs, shared, left>>
    BY <1>2 DEF Loop
  <2> QED BY <2>1, <2>2 DEF CountInv
<1>3. ASSUME Submit PROVE CountInv'
  <2>1. PICK f \in Futures : /\ f \notin Unfinished
                             /\ Unfinished' = Unfinished \cup {f}
                             /\ job' = [job EXCEPT ![f] = claimed]
    BY <1>3, SubmitAdds
  <2>2. /\ active_jobs' = active_jobs \cup {claimed}
        /\ left' = left \ {claimed}
        /\ shared' = IF \E g \in Unfinished : job[g] = claimed
                     THEN shared \cup {claimed} ELSE shared
    BY <1>3 DEF Submit
  <2>3. job'[f] = claimed /\ \A g \in Unfinished : job'[g] = job[g]
    BY <2>1 DEF TypeOK, PoolTyped, Unfinished
  <2>4. \A j \in Jobs \ (left' \cup shared') :
           j \in active_jobs' <=> \E g \in Unfinished' : job'[g] = j
    <3> SUFFICES ASSUME NEW j \in Jobs, j \notin left', j \notin shared'
                 PROVE  j \in active_jobs' <=> \E g \in Unfinished' : job'[g] = j
      OBVIOUS
    <3>1. CASE j = claimed
      BY <3>1, <2>1, <2>2, <2>3
    <3>2. CASE j # claimed
      <4>1. j \in active_jobs <=> \E g \in Unfinished : job[g] = j
        BY <3>2, <2>2 DEF CountInv
      <4> QED BY <4>1, <3>2, <2>1, <2>2, <2>3
    <3> QED BY <3>1, <3>2
  <2>5. ASSUME NEW g \in Unfinished', NEW h \in Unfinished', g # h, job'[g] = job'[h]
        PROVE  job'[g] \in shared'
    <3>1. CASE g \in Unfinished /\ h \in Unfinished
      BY <3>1, <2>5, <2>2, <2>3 DEF CountInv
    <3>2. CASE g = f \/ h = f
      BY <3>2, <2>5, <2>1, <2>2, <2>3
    <3> QED BY <3>1, <3>2, <2>1
  <2> QED BY <2>4, <2>5 DEF CountInv
<1>4. ASSUME NEW f \in Futures, Acquire(f) \/ Execute(f) PROVE CountInv'
  <2>1. Unfinished' = Unfinished
    BY <1>4 DEF Acquire, Execute, Unfinished, TypeOK, PoolTyped
  <2>2. UNCHANGED <<job, active_jobs, shared, left>>
    BY <1>4 DEF Acquire, Execute
  <2> QED BY <2>1, <2>2 DEF CountInv
<1>5. ASSUME NEW f \in Futures, Return(f) PROVE CountInv'
  <2>1. Unfinished' = Unfinished \ {f} /\ f \in Unfinished
    BY <1>5 DEF Return, Unfinished, TypeOK, PoolTyped
  <2>2. UNCHANGED <<job, active_jobs, shared>> /\ left' = left \cup {job[f]}
    BY <1>5 DEF Return
  <2> QED BY <2>1, <2>2 DEF CountInv
<1>6. ASSUME NEW f \in Futures, Finish(f) PROVE CountInv'
  <2>1. Unfinished' = Unfinished \ {f} /\ f \in Unfinished
    BY <1>6 DEF Finish, Unfinished, TypeOK, PoolTyped
  <2>2. UNCHANGED <<job, shared, left>> /\ active_jobs' = active_jobs \ {job[f]}
    BY <1>6 DEF Finish
  <2>3. ASSUME NEW g \in Unfinished', job[g] = job[f] PROVE job[f] \in shared
    BY <2>3, <2>1 DEF CountInv
  <2> QED BY <2>1, <2>2, <2>3 DEF CountInv
<1>7. ASSUME Crash \/ Launch PROVE CountInv'
  <2>1. Unfinished' = {} /\ active_jobs' = {}
    BY <1>7, FreshEmpty DEF Crash, Launch
  <2> QED BY <2>1 DEF CountInv
<1>8. ASSUME Start \/ Claim \/ ClaimFails \/ ClaimMisread \/ NothingClaimed PROVE CountInv'
  BY <1>8, <1>1 DEF Start, UnlinkStale, Bind, Claim, ClaimFails, ClaimMisread, NothingClaimed
<1>9. ASSUME EnterWait \/ EndWait \/ Clear PROVE CountInv'
  BY <1>9, <1>1 DEF EnterWait, EndWait, Clear
<1>10. ASSUME Drained \/ DrainTimesOut \/ StopServer \/ Exit PROVE CountInv'
  BY <1>10, <1>1 DEF Drained, DrainTimesOut, StopServer, Exit
<1>11. ASSUME NEW j \in Jobs, QueueStep(j) PROVE CountInv'
  BY <1>11, <1>1 DEF QueueStep, Enqueue, TakenElsewhere, RowLocked, RowFreed, processVars
<1>12. ASSUME NEW k \in Keys, LetGo(k) PROVE CountInv'
  BY <1>12, <1>1 DEF LetGo, processVars
<1>13. ASSUME Wake \/ OtherStarts \/ OtherStops \/ Signal PROVE CountInv'
  BY <1>13, <1>1 DEF Wake, OtherStarts, OtherStops, Signal, processVars
<1>14. ASSUME UNCHANGED vars PROVE CountInv'
  BY <1>14, <1>1 DEF vars, processVars
<1> QED BY <1>2, <1>3, <1>4, <1>5, <1>6, <1>7, <1>8, <1>9, <1>10, <1>11, <1>12, <1>13, <1>14
        DEF Next, MainStep, PoolStep, Environment, QueueStep

-----------------------------------------------------------------------------
(* Every step leaves a wake that came too late for the claim in the event. *)
LEMMA WakeStep == TypeOK /\ WakeInv /\ [Next]_vars => WakeInv'
<1> SUFFICES ASSUME TypeOK, WakeInv, [Next]_vars PROVE WakeInv'
  OBVIOUS
<1>1. ASSUME UNCHANGED <<main, why, claimed, event, passedOver>>,
             woken' \subseteq woken, woken' \subseteq queue'
      PROVE  WakeInv'
  BY <1>1 DEF WakeInv
<1>2. ASSUME UNCHANGED <<woken, queue>>, main' \notin {"answered", "enter", "wait"}
      PROVE  WakeInv'
  BY <1>2 DEF WakeInv
<1>3. ASSUME Start PROVE WakeInv'
  BY <1>3, <1>2 DEF Start, UnlinkStale, Bind, tableVars
<1>4. ASSUME Loop PROVE WakeInv'
  BY <1>4 DEF WakeInv, Loop, tableVars
<1>5. ASSUME Claim PROVE WakeInv'
  <2>1. CASE claimed' \in Oldest(Visible)
    <3>1. claimed' # NoJob
      BY <2>1, WorkerLoopAssumption DEF Oldest, Visible, TypeOK, TablesTyped
    <3> QED BY <3>1, <1>5 DEF WakeInv, Claim
  <2>2. CASE Visible = {} /\ passedOver' = locked
    BY <2>2, <1>5 DEF WakeInv, Claim, Visible
  <2> QED BY <2>1, <2>2, <1>5 DEF Claim
<1>18. ASSUME ClaimMisread PROVE WakeInv'
  BY <1>18 DEF WakeInv, ClaimMisread
<1>6. ASSUME ClaimFails \/ NothingClaimed PROVE WakeInv'
  BY <1>6 DEF WakeInv, ClaimFails, NothingClaimed, tableVars
<1>7. ASSUME Submit \/ EndWait \/ Clear PROVE WakeInv'
  BY <1>7, <1>2 DEF Submit, EndWait, Clear, tableVars
<1>8. ASSUME EnterWait PROVE WakeInv'
  BY <1>8 DEF WakeInv, EnterWait, tableVars
<1>9. ASSUME Drained \/ DrainTimesOut \/ StopServer \/ Exit PROVE WakeInv'
  BY <1>9, <1>2 DEF Drained, DrainTimesOut, StopServer, Exit, tableVars
<1>10. ASSUME NEW f \in Futures, PoolStep(f) PROVE WakeInv'
  <2>1. UNCHANGED <<main, why, claimed, event, passedOver>>
    BY <1>10 DEF PoolStep, Acquire, Return, Execute, Finish, tableVars
  <2>2. woken' \subseteq woken /\ woken' \subseteq queue'
    BY <1>10 DEF WakeInv, PoolStep, Acquire, Return, Execute, Finish, tableVars
  <2> QED BY <2>1, <2>2, <1>1
<1>11. ASSUME NEW j \in Jobs, QueueStep(j) PROVE WakeInv'
  BY <1>11, <1>1 DEF WakeInv, QueueStep, Enqueue, TakenElsewhere, RowLocked, RowFreed, processVars
<1>12. ASSUME NEW k \in Keys, LetGo(k) PROVE WakeInv'
  BY <1>12, <1>1 DEF WakeInv, LetGo, processVars
<1>13. ASSUME Wake PROVE WakeInv'
  BY <1>13 DEF WakeInv, Wake
<1>14. ASSUME OtherStarts \/ OtherStops PROVE WakeInv'
  BY <1>14, <1>1 DEF WakeInv, OtherStarts, OtherStops, processVars, tableVars
<1>15. ASSUME Signal PROVE WakeInv'
  BY <1>15 DEF WakeInv, Signal, tableVars
<1>16. ASSUME Crash \/ Launch PROVE WakeInv'
  BY <1>16, <1>2 DEF Crash, Launch, tableVars
<1>17. ASSUME UNCHANGED vars PROVE WakeInv'
  BY <1>17 DEF WakeInv, vars, processVars, tableVars
<1> QED BY <1>3, <1>4, <1>5, <1>6, <1>7, <1>8, <1>9, <1>10, <1>11, <1>12, <1>13, <1>14,
           <1>15, <1>16, <1>17, <1>18
        DEF Next, MainStep, Environment, QueueStep

-----------------------------------------------------------------------------
(* Every step keeps a serving socket at its path, but for the other worker. *)
LEMMA SocketStep == TypeOK /\ SocketInv /\ [Next]_vars => SocketInv'
<1> SUFFICES ASSUME TypeOK, SocketInv, [Next]_vars PROVE SocketInv'
  OBVIOUS
<1>t. faults \in Nat
  BY DEF TypeOK, SocketTyped
<1>1. ASSUME UNCHANGED socketVars, faults' = faults \/ faults' = faults + 1, main' = main
      PROVE  SocketInv'
  BY <1>1, <1>t DEF SocketInv, socketVars, Starting
<1>2. ASSUME UNCHANGED socketVars, faults' = faults \/ faults' = faults + 1,
             ~Starting, main # "join", ~Starting', main' # "join"
      PROVE  SocketInv'
  BY <1>2, <1>t DEF SocketInv, socketVars, Starting
<1>3. ASSUME UnlinkStale PROVE SocketInv'
  BY <1>3, <1>t DEF SocketInv, Starting, UnlinkStale, Fault
<1>4. ASSUME Bind PROVE SocketInv'
  BY <1>4 DEF SocketInv, Starting, Bind, boundVars
<1>5. ASSUME Loop \/ Claim \/ NothingClaimed \/ Submit PROVE SocketInv'
  BY <1>5, <1>2 DEF Loop, Claim, NothingClaimed, Submit, Starting, boundVars
<1>17. ASSUME ClaimFails \/ ClaimMisread PROVE SocketInv'
  BY <1>17, <1>2 DEF ClaimFails, ClaimMisread, Fault, Starting
<1>6. ASSUME EnterWait \/ EndWait \/ Clear \/ Drained \/ DrainTimesOut PROVE SocketInv'
  BY <1>6, <1>2 DEF EnterWait, EndWait, Clear, Drained, DrainTimesOut, Starting, boundVars
<1>7. ASSUME StopServer PROVE SocketInv'
  BY <1>7 DEF SocketInv, Starting, StopServer, boundVars
<1>8. ASSUME Exit \/ Crash PROVE SocketInv'
  BY <1>8 DEF SocketInv, Starting, Exit, Crash, ServerDies, boundVars
<1>9. ASSUME Launch PROVE SocketInv'
  BY <1>9 DEF SocketInv, Starting, Launch
<1>10. ASSUME NEW f \in Futures, PoolStep(f) PROVE SocketInv'
  BY <1>10, <1>1 DEF PoolStep, Acquire, Return, Execute, Finish, KeyStaysLocked, Fault, boundVars
<1>11. ASSUME NEW j \in Jobs, QueueStep(j) PROVE SocketInv'
  BY <1>11, <1>1 DEF QueueStep, Enqueue, TakenElsewhere, RowLocked, RowFreed, processVars, boundVars
<1>12. ASSUME NEW k \in Keys, LetGo(k) PROVE SocketInv'
  BY <1>12, <1>1 DEF LetGo, processVars, boundVars
<1>13. ASSUME Wake PROVE SocketInv'
  BY <1>13, <1>1 DEF Wake, boundVars
<1>14. ASSUME OtherStarts \/ OtherStops PROVE SocketInv'
  BY <1>14 DEF SocketInv, Starting, OtherStarts, OtherStops, processVars
<1>15. ASSUME Signal PROVE SocketInv'
  BY <1>15, <1>1, <1>2 DEF Signal, EventLocked, Starting, boundVars
<1>16. ASSUME UNCHANGED vars PROVE SocketInv'
  BY <1>16, <1>1 DEF vars, processVars, boundVars
<1> QED BY <1>3, <1>4, <1>5, <1>6, <1>7, <1>8, <1>9, <1>10, <1>11, <1>12, <1>13, <1>14,
           <1>15, <1>16, <1>17
        DEF Next, MainStep, Start, Environment, QueueStep

-----------------------------------------------------------------------------
(* The invariant holds in every reachable state. *)
LEMMA InvAlways == Spec => []Inv
<1>1. Inv /\ [Next]_vars => Inv'
  BY TypeStep, FutureStep, CountStep, WakeStep, SocketStep DEF Inv
<1> QED BY <1>1, InvInit, PTL DEF Spec

(* Jobs that are active are no more than the calls in process. *)
LEMMA ActiveFew ==
    ASSUME TypeOK, CountInv, left \cup shared = {}
    PROVE  Cardinality(active_jobs) <= Cardinality(Unfinished)
           /\ Cardinality(active_jobs) \in Nat
<1> DEFINE r == [f \in Unfinished |-> job[f]]
<1>1. active_jobs \subseteq Jobs
  BY DEF TypeOK, PoolTyped
<1>2. \A j \in active_jobs : \E f \in Unfinished : job[f] = j
  BY <1>1 DEF CountInv
<1>3. \A f \in Unfinished : job[f] \in active_jobs
  BY DEF CountInv, TypeOK, PoolTyped, Unfinished
<1>4. r \in Surjection(Unfinished, active_jobs)
  BY <1>2, <1>3 DEF Surjection
<1>5. IsFiniteSet(Unfinished)
  BY FewFutures
<1>6. Cardinality(active_jobs) <= Cardinality(Unfinished) /\ IsFiniteSet(active_jobs)
  BY <1>4, <1>5, FS_Surjection
<1> QED BY <1>6, FS_CardinalityType

-----------------------------------------------------------------------------
(* Every variable of the worker stays in its type. *)
THEOREM TypesHold == Spec => []TypeOK
<1>1. Inv => TypeOK
  BY DEF Inv
<1> QED BY <1>1, InvAlways, PTL

(* The worker never takes on more jobs than its pool has threads, whatever *)
(* its concurrency: a job that is claimed starts at once.                  *)
THEOREM SlotsSuffice == Spec => []NeverOvercommitted
<1>1. ASSUME Inv PROVE NeverOvercommitted
  <2>1. /\ IsFiniteSet(futures) /\ Cardinality(futures) \in Nat
        /\ Cardinality(Unfinished) \in Nat
    BY <1>1, FewFutures DEF Inv
  <2>2. Cardinality(Unfinished) <= Cardinality(futures)
    BY <1>1, <2>1, FS_Subset DEF Inv, FutureInv
  <2> QED BY <1>1, <2>1, <2>2, WorkerLoopAssumption DEF Inv, FutureInv, NeverOvercommitted
<1> QED BY <1>1, InvAlways, PTL

(* The health answer counts what is in process, with the two exceptions    *)
(* HealthCounts names.                                                     *)
THEOREM HealthIsTrue == Spec => []HealthCounts
<1>1. ASSUME Inv PROVE HealthCounts
  <2>1. ASSUME left \cup shared = {} PROVE AvailableSlots >= 0
    <3>1. /\ Cardinality(active_jobs) <= Cardinality(Unfinished)
          /\ Cardinality(active_jobs) \in Nat
      BY <1>1, <2>1, ActiveFew DEF Inv
    <3>2. /\ IsFiniteSet(futures) /\ Cardinality(futures) \in Nat
          /\ Cardinality(Unfinished) \in Nat
      BY <1>1, FewFutures DEF Inv
    <3>3. Cardinality(Unfinished) <= Cardinality(futures) /\ Cardinality(futures) <= Concurrency
      BY <1>1, <3>2, FS_Subset DEF Inv, FutureInv
    <3> QED BY <3>1, <3>2, <3>3, WorkerLoopAssumption DEF AvailableSlots
  <2> QED BY <1>1, <2>1 DEF Inv, CountInv, HealthCounts
<1> QED BY <1>1, InvAlways, PTL

(* No wake is lost: when the loop sleeps because there was nothing to      *)
(* claim, a claim has followed the last wake, and what is still queued of  *)
(* that wake's jobs was passed over by that claim.                         *)
THEOREM NoWakeLost == Spec => []WakesHeard
<1>1. Inv => WakesHeard
  BY DEF Inv, WakeInv, WakesHeard
<1> QED BY <1>1, InvAlways, PTL

(* A server that runs is behind its path, unless another worker used it.   *)
THEOREM SocketStays == Spec => []SocketReachable
<1>1. Inv => SocketReachable
  BY DEF Inv, TypeOK, SocketTyped, SocketInv, SocketReachable
<1> QED BY <1>1, InvAlways, PTL

(* A worker that ends on its own has finished its jobs first.              *)
THEOREM EndIsGraceful == Spec => EndsGracefully
<1>1. ASSUME Inv, Next, main # "down", main' = "down", crashes' = crashes
      PROVE  /\ Unfinished = {} /\ active_jobs \subseteq left \cup shared
             /\ file = "ours" => main = "abandon"
  <2>1. ~Crash
    BY <1>1 DEF Crash, Inv, TypeOK, SocketTyped
  <2>2. Exit
    <3>1. /\ ~Start /\ ~Loop /\ ~Claim /\ ~ClaimFails /\ ~ClaimMisread
          /\ ~NothingClaimed /\ ~Submit
      BY <1>1 DEF Start, UnlinkStale, Bind, Loop, Claim, ClaimFails, ClaimMisread,
         NothingClaimed, Submit
    <3>2. ~EnterWait /\ ~EndWait /\ ~Clear /\ ~Drained /\ ~DrainTimesOut /\ ~StopServer
      BY <1>1 DEF EnterWait, EndWait, Clear, Drained, DrainTimesOut, StopServer
    <3>3. \A f \in Futures : ~PoolStep(f)
      BY <1>1 DEF PoolStep, Acquire, Return, Execute, Finish
    <3>4. ~Environment
      BY <1>1, <2>1 DEF Environment, QueueStep, Enqueue, TakenElsewhere, RowLocked,
         RowFreed, LetGo, Wake, OtherStarts, OtherStops, Signal, Launch, processVars
    <3> QED BY <1>1, <3>1, <3>2, <3>3, <3>4 DEF Next, MainStep
  <2>3. Unfinished = {} /\ main \in {"join", "abandon"}
    BY <2>2 DEF Exit
  <2>4. active_jobs \subseteq left \cup shared
    BY <1>1, <2>3 DEF Inv, CountInv, TypeOK, PoolTyped
  <2>5. file = "ours" => main = "abandon"
    BY <1>1, <2>3 DEF Inv, SocketInv
  <2> QED BY <2>3, <2>4, <2>5
<1>2. Inv /\ [Next]_vars =>
        [main # "down" /\ main' = "down" /\ crashes' = crashes =>
            /\ Unfinished = {} /\ active_jobs \subseteq left \cup shared
            /\ file = "ours" => main = "abandon"]_vars
  BY <1>1
<1> QED BY <1>2, InvAlways, PTL DEF Spec, EndsGracefully
=============================================================================
