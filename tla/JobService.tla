----------------------------- MODULE JobService -----------------------------
(***************************************************************************)
(* What the jobs table and the workers together promise of a job to the    *)
(* one who has enqueued it, however many workers compete for it and        *)
(* whatever calls fail: it is executed by one thread at a time and at most *)
(* MaxAttempts times; not while another job is executed that needs one of  *)
(* its keys; nobody but the executing thread ends an execution; and only   *)
(* one that has no attempt left, or gives up, makes it fail.               *)
(*                                                                         *)
(* The promise ends for a job that is lost: one whose lock ran out under   *)
(* it, or whose row a late request has written.                            *)
(***************************************************************************)
EXTENDS Integers, TLAPS

CONSTANTS Jobs, Slots, Keys, MaxAttempts

VARIABLES
    status,     \* as in the jobs table
    tries,      \* how often the job was started
    executors,  \* the threads that execute it
    keys,       \* the resources it needs
    lost        \* jobs of which nothing more is promised

serviceVars == <<status, tries, executors, keys, lost>>

-----------------------------------------------------------------------------
Turn(j, st) ==
    /\ j \notin lost
    /\ status' = [status EXCEPT ![j] = st]
    /\ UNCHANGED lost

Submit(j) ==
    /\ status[j] = "absent"
    /\ Turn(j, "queued")
    /\ keys' \in [Jobs -> SUBSET Keys]
    /\ \A i \in Jobs \ {j} : keys'[i] = keys[i]
    /\ UNCHANGED <<tries, executors>>

Withdraw(j) ==
    /\ status[j] = "queued"
    /\ Turn(j, "cancelled")
    /\ UNCHANGED <<tries, executors, keys>>

Free(j) == \A i \in Jobs \ {j} : executors[i] # {} => keys[i] \cap keys[j] = {}

(* A cancellation that comes after the claim does not keep the job from    *)
(* being started.                                                          *)
Begin(j, s) ==
    /\ status[j] \in {"queued", "cancelled"}
    /\ tries[j] < MaxAttempts
    /\ Free(j)
    /\ Turn(j, "running")
    /\ tries' = [tries EXCEPT ![j] = @ + 1]
    /\ executors' = [executors EXCEPT ![j] = {s}]
    /\ UNCHANGED keys

Ends(j, s) ==
    /\ status[j] = "running"
    /\ executors[j] = {s}
    /\ executors' = [executors EXCEPT ![j] = {}]
    /\ UNCHANGED <<tries, keys>>

Complete(j, s) == Ends(j, s) /\ Turn(j, "succeeded")

GiveUp(j, s) == Ends(j, s) /\ Turn(j, "failed")

Retry(j, s) == tries[j] < MaxAttempts /\ Ends(j, s) /\ Turn(j, "queued")

(* A thread that had claimed the job as well, and was not allowed to start *)
(* it, marks it failed: also a job that has been settled or cancelled, but *)
(* none that is being executed.                                            *)
SendBack(j) ==
    /\ status[j] # "absent"
    /\ executors[j] = {}
    /\ Turn(j, IF tries[j] < MaxAttempts THEN "queued" ELSE "failed")
    /\ UNCHANGED <<tries, executors, keys>>

(* Threads die, or cannot report: what they executed stays running. *)
Vanish(gone) ==
    /\ executors' = [j \in Jobs |-> executors[j] \ gone]
    /\ UNCHANGED <<status, tries, keys, lost>>

Lose(more) ==
    /\ lost' = lost \cup more
    /\ status' = [j \in Jobs |-> IF j \in lost' THEN "unknown" ELSE status[j]]
    /\ tries' = [j \in Jobs |-> IF j \in lost' THEN 0 ELSE tries[j]]
    /\ executors' = [j \in Jobs |-> IF j \in lost' THEN {} ELSE executors[j]]
    /\ UNCHANGED keys

-----------------------------------------------------------------------------
JobServiceInit ==
    /\ status = [j \in Jobs |-> "absent"]
    /\ tries = [j \in Jobs |-> 0]
    /\ executors = [j \in Jobs |-> {}]
    /\ keys \in [Jobs -> SUBSET Keys]
    /\ lost = {}

JobServiceNext ==
    \/ \E j \in Jobs :
         \/ Submit(j) \/ Withdraw(j) \/ SendBack(j)
         \/ \E s \in Slots : Begin(j, s) \/ Complete(j, s) \/ GiveUp(j, s) \/ Retry(j, s)
    \/ \E gone \in SUBSET Slots : Vanish(gone)
    \/ \E more \in SUBSET Jobs : Lose(more)

JobServiceSpec == JobServiceInit /\ [][JobServiceNext]_serviceVars

-----------------------------------------------------------------------------
(* What it comes to: no job has two executing threads, what is executed is *)
(* running and has no key in common with anything else that is executed,   *)
(* and no job ends without an attempt or has more than MaxAttempts.        *)
Alone(i, j) == executors[i] # {} /\ executors[j] # {} => keys[i] \cap keys[j] = {}

Promise ==
    \A j \in Jobs :
        /\ tries[j] \in 0 .. MaxAttempts
        /\ executors[j] # {} => status[j] = "running" /\ \E s \in Slots : executors[j] = {s}
        /\ status[j] \in {"running", "succeeded", "failed"} => tries[j] > 0
        /\ \A i \in Jobs \ {j} : Alone(i, j)

ServiceTypes ==
    /\ status \in [Jobs -> {"absent", "queued", "cancelled", "running", "succeeded",
                            "failed", "unknown"}]
    /\ tries \in [Jobs -> 0 .. MaxAttempts]
    /\ executors \in [Jobs -> SUBSET Slots]
    /\ keys \in [Jobs -> SUBSET Keys]

(* A step that turns to one job alone: the others' part of the promise is  *)
(* kept, and what the job newly executes has to be free.                   *)
LEMMA PromiseFrame ==
    ASSUME MaxAttempts \in Nat \ {0}, ServiceTypes', Promise, NEW j \in Jobs,
           \A i \in Jobs \ {j} : /\ status'[i] = status[i] /\ tries'[i] = tries[i]
                                 /\ executors'[i] = executors[i] /\ keys'[i] = keys[i],
           executors'[j] # {} => /\ status'[j] = "running"
                                 /\ \E s \in Slots : executors'[j] = {s},
           status'[j] \in {"running", "succeeded", "failed"} => tries'[j] > 0,
           \A i \in Jobs \ {j} : executors[i] # {} /\ executors'[j] # {} =>
                                    keys[i] \cap keys'[j] = {}
    PROVE  Promise'
<1>1. ASSUME NEW i \in Jobs
      PROVE  /\ tries'[i] \in 0 .. MaxAttempts
             /\ executors'[i] # {} => /\ status'[i] = "running"
                                      /\ \E s \in Slots : executors'[i] = {s}
             /\ status'[i] \in {"running", "succeeded", "failed"} => tries'[i] > 0
  BY DEF ServiceTypes, Promise
<1>2. ASSUME NEW h \in Jobs, NEW i \in Jobs, h # i PROVE Alone(h, i)'
  <2>1. CASE h = j
    BY <1>2, <2>1 DEF Alone
  <2>2. CASE i = j
    BY <1>2, <2>2 DEF Alone
  <2>3. CASE h # j /\ i # j
    BY <1>2, <2>3 DEF Alone, Promise
  <2> QED BY <2>1, <2>2, <2>3
<1> QED BY <1>1, <1>2 DEF Promise

(* Whoever implements JobService keeps this promise. *)
THEOREM PromiseKept ==
    ASSUME MaxAttempts \in Nat \ {0}
    PROVE  JobServiceSpec => []Promise
<1> DEFINE Inv == ServiceTypes /\ Promise
<1>1. JobServiceInit => Inv
  BY DEF JobServiceInit, ServiceTypes, Promise, Alone
<1>2. ASSUME Inv, [JobServiceNext]_serviceVars PROVE Inv'
  <2> USE <1>2
  <2>1. ASSUME NEW j \in Jobs, Submit(j) PROVE Inv'
    <3>1. ServiceTypes'
      BY <2>1 DEF Submit, Turn, ServiceTypes
    <3>2. executors[j] = {}
      BY <2>1 DEF Submit, Promise
    <3> QED BY <2>1, <3>1, <3>2, PromiseFrame DEF Submit, Turn, ServiceTypes
  <2>2. ASSUME NEW j \in Jobs, Withdraw(j) PROVE Inv'
    <3>1. ServiceTypes'
      BY <2>2 DEF Withdraw, Turn, ServiceTypes
    <3>2. executors[j] = {}
      BY <2>2 DEF Withdraw, Promise
    <3> QED BY <2>2, <3>1, <3>2, PromiseFrame DEF Withdraw, Turn, ServiceTypes
  <2>3. ASSUME NEW j \in Jobs, SendBack(j) PROVE Inv'
    <3>1. ServiceTypes'
      BY <2>3 DEF SendBack, Turn, ServiceTypes
    <3>2. tries[j] \in Nat /\ (tries[j] < MaxAttempts \/ tries[j] > 0)
      BY DEF ServiceTypes
    <3> QED BY <2>3, <3>1, <3>2, PromiseFrame DEF SendBack, Turn, ServiceTypes
  <2>4. ASSUME NEW j \in Jobs, NEW s \in Slots, Begin(j, s) PROVE Inv'
    <3>1. tries'[j] \in 0 .. MaxAttempts /\ tries'[j] > 0
      BY <2>4 DEF Begin, ServiceTypes
    <3>2. ServiceTypes'
      BY <2>4, <3>1 DEF Begin, Turn, ServiceTypes
    <3>3. status'[j] = "running" /\ executors'[j] = {s}
      BY <2>4 DEF Begin, Turn, ServiceTypes
    <3> QED BY <2>4, <3>1, <3>2, <3>3, PromiseFrame DEF Begin, Turn, Free, ServiceTypes
  <2>5. ASSUME NEW j \in Jobs, NEW s \in Slots, Complete(j, s) \/ GiveUp(j, s) \/ Retry(j, s)
        PROVE  Inv'
    <3>1. PICK x \in {"succeeded", "failed", "queued"} : Ends(j, s) /\ Turn(j, x)
      BY <2>5 DEF Complete, GiveUp, Retry
    <3>2. ServiceTypes'
      BY <3>1 DEF Ends, Turn, ServiceTypes
    <3>3. tries[j] > 0
      BY <3>1 DEF Ends, Promise
    <3> QED BY <3>1, <3>2, <3>3, PromiseFrame DEF Ends, Turn, ServiceTypes
  <2>6. ASSUME NEW gone \in SUBSET Slots, Vanish(gone) PROVE Inv'
    <3>1. /\ \A j \in Jobs : executors'[j] = executors[j] \ gone
          /\ UNCHANGED <<status, tries, keys>>
      BY <2>6 DEF Vanish
    <3>2. ServiceTypes'
      BY <2>6 DEF Vanish, ServiceTypes
    <3>3. \A j \in Jobs : executors'[j] # {} => executors'[j] = executors[j] /\ executors[j] # {}
      <4> SUFFICES ASSUME NEW j \in Jobs, executors'[j] # {}
                   PROVE  executors'[j] = executors[j] /\ executors[j] # {}
        OBVIOUS
      <4>1. executors[j] # {} /\ executors'[j] = executors[j] \ gone
        BY <3>1
      <4>2. PICK s \in Slots : executors[j] = {s}
        BY <4>1 DEF Promise
      <4> QED BY <4>1, <4>2
    <3> QED BY <3>1, <3>2, <3>3 DEF Promise, Alone
  <2>7. ASSUME NEW more \in SUBSET Jobs, Lose(more) PROVE Inv'
    <3>1. ServiceTypes'
      BY <2>7 DEF Lose, ServiceTypes
    <3>2. \A j \in Jobs :
             /\ keys'[j] = keys[j]
             /\ \/ status'[j] = "unknown" /\ executors'[j] = {}
                \/ /\ status'[j] = status[j] /\ tries'[j] = tries[j]
                   /\ executors'[j] = executors[j]
      BY <2>7 DEF Lose
    <3> QED BY <3>1, <3>2 DEF Promise, Alone, ServiceTypes
  <2>8. CASE UNCHANGED serviceVars
    BY <2>8 DEF serviceVars, ServiceTypes, Promise, Alone
  <2> QED BY <2>1, <2>2, <2>3, <2>4, <2>5, <2>6, <2>7, <2>8 DEF JobServiceNext
<1> QED BY <1>1, <1>2, PTL DEF JobServiceSpec
=============================================================================
