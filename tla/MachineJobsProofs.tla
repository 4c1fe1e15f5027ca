------------------------- MODULE MachineJobsProofs -------------------------
(***************************************************************************)
(* Proofs about MachineJobs, for any machines, jobs, attempts and faults.  *)
(***************************************************************************)
EXTENDS MachineJobs, TLAPS

(* What can be left of a handler, by the type of the job.  The handlers of *)
(* the types that neither make nor destroy a machine need not be told      *)
(* apart.                                                                  *)
Observing == {<<"observe", "storeState", "succeed">>, <<"storeState", "succeed">>,
              <<"succeed">>}

RestsOf(t) ==
    CASE t = "provision_vm" ->
            {<<"load", "create", "observe", "storeState", "succeed">>,
             <<"create", "observe", "storeState", "succeed">>, <<"cleanup">>} \cup Observing
      [] t = "clone_vm" ->
            {<<"load", "clone", "observe", "storeState", "succeed">>,
             <<"clone", "observe", "storeState", "succeed">>, <<"cleanup">>} \cup Observing
      [] t = "destroy_vm" ->
            {<<"destroy", "dropState", "succeed">>, <<"dropState", "succeed">>,
             <<"succeed">>}
      [] OTHER ->
            {<<"start", "observe", "storeState", "succeed">>,
             <<"stop", "observe", "storeState", "succeed">>,
             <<"lookup", "restore", "observe", "storeState", "succeed">>,
             <<"restore", "observe", "storeState", "succeed">>,
             <<"load", "snapshot", "storeRecord", "succeed">>,
             <<"snapshot", "storeRecord", "succeed">>, <<"storeRecord", "succeed">>,
             <<"lookup", "erase", "dropRecord", "succeed">>,
             <<"erase", "dropRecord", "succeed">>, <<"dropRecord", "succeed">>,
             <<"reconcile", "succeed">>} \cup Observing

(* The order of the calls, as far as the invariants need it *)
Ordered(t, s) ==
    /\ s # <<>>
    /\ Tail(s) = <<>> \/ Tail(s) \in RestsOf(t)
    /\ Tail(s) = <<>> => Head(s) \in {"succeed", "cleanup"}
    /\ Head(s) = "succeed" => Tail(s) = <<>>
    /\ Tail(s) # <<>> =>
          /\ Head(Tail(s)) # "cleanup"
          /\ Head(Tail(s)) = "dropRecord" => Head(s) = "erase"
          /\ Head(Tail(s)) = "storeRecord" <=> Head(s) = "snapshot"
          /\ t \in MakerTypes =>
                Head(Tail(s)) \in {"observe", "storeState", "succeed"} <=>
                    Head(s) \in {"create", "clone", "observe", "storeState"}
    /\ Head(s) \in {"create", "clone", "cleanup"} => t \in MakerTypes
    /\ Head(s) = "destroy" => t = "destroy_vm"

(* Whatever is left of a handler, its next calls come in this order. *)
LEMMA RestsOrdered ==
    ASSUME NEW t \in Types, NEW s \in RestsOf(t)
    PROVE  Ordered(t, s)
<1>1. CASE t = "provision_vm"
  <2>1. CASE s = <<"load", "create", "observe", "storeState", "succeed">>
    BY <1>1, <2>1 DEF RestsOf, Observing, Ordered, MakerTypes
  <2>2. CASE s = <<"create", "observe", "storeState", "succeed">>
    BY <1>1, <2>2 DEF RestsOf, Observing, Ordered, MakerTypes
  <2>3. CASE s = <<"cleanup">>
    BY <1>1, <2>3 DEF RestsOf, Observing, Ordered, MakerTypes
  <2>4. CASE s = <<"observe", "storeState", "succeed">>
    BY <1>1, <2>4 DEF RestsOf, Observing, Ordered, MakerTypes
  <2>5. CASE s = <<"storeState", "succeed">>
    BY <1>1, <2>5 DEF RestsOf, Observing, Ordered, MakerTypes
  <2>6. CASE s = <<"succeed">>
    BY <1>1, <2>6 DEF RestsOf, Observing, Ordered, MakerTypes
  <2> QED BY <1>1, <2>1, <2>2, <2>3, <2>4, <2>5, <2>6 DEF RestsOf, Observing
<1>2. CASE t = "clone_vm"
  <2>1. CASE s = <<"load", "clone", "observe", "storeState", "succeed">>
    BY <1>2, <2>1 DEF RestsOf, Observing, Ordered, MakerTypes
  <2>2. CASE s = <<"clone", "observe", "storeState", "succeed">>
    BY <1>2, <2>2 DEF RestsOf, Observing, Ordered, MakerTypes
  <2>3. CASE s = <<"cleanup">>
    BY <1>2, <2>3 DEF RestsOf, Observing, Ordered, MakerTypes
  <2>4. CASE s = <<"observe", "storeState", "succeed">>
    BY <1>2, <2>4 DEF RestsOf, Observing, Ordered, MakerTypes
  <2>5. CASE s = <<"storeState", "succeed">>
    BY <1>2, <2>5 DEF RestsOf, Observing, Ordered, MakerTypes
  <2>6. CASE s = <<"succeed">>
    BY <1>2, <2>6 DEF RestsOf, Observing, Ordered, MakerTypes
  <2> QED BY <1>2, <2>1, <2>2, <2>3, <2>4, <2>5, <2>6 DEF RestsOf, Observing
<1>3. CASE t = "destroy_vm"
  <2>1. CASE s = <<"destroy", "dropState", "succeed">>
    BY <1>3, <2>1 DEF RestsOf, Observing, Ordered, MakerTypes
  <2>2. CASE s = <<"dropState", "succeed">>
    BY <1>3, <2>2 DEF RestsOf, Observing, Ordered, MakerTypes
  <2>3. CASE s = <<"succeed">>
    BY <1>3, <2>3 DEF RestsOf, Observing, Ordered, MakerTypes
  <2> QED BY <1>3, <2>1, <2>2, <2>3 DEF RestsOf, Observing
<1>4. CASE t \notin {"provision_vm", "clone_vm", "destroy_vm"}
  <2>1. CASE s = <<"start", "observe", "storeState", "succeed">>
    BY <1>4, <2>1 DEF RestsOf, Observing, Ordered, MakerTypes
  <2>2. CASE s = <<"stop", "observe", "storeState", "succeed">>
    BY <1>4, <2>2 DEF RestsOf, Observing, Ordered, MakerTypes
  <2>3. CASE s = <<"lookup", "restore", "observe", "storeState", "succeed">>
    BY <1>4, <2>3 DEF RestsOf, Observing, Ordered, MakerTypes
  <2>4. CASE s = <<"restore", "observe", "storeState", "succeed">>
    BY <1>4, <2>4 DEF RestsOf, Observing, Ordered, MakerTypes
  <2>5. CASE s = <<"load", "snapshot", "storeRecord", "succeed">>
    BY <1>4, <2>5 DEF RestsOf, Observing, Ordered, MakerTypes
  <2>6. CASE s = <<"snapshot", "storeRecord", "succeed">>
    BY <1>4, <2>6 DEF RestsOf, Observing, Ordered, MakerTypes
  <2>7. CASE s = <<"storeRecord", "succeed">>
    BY <1>4, <2>7 DEF RestsOf, Observing, Ordered, MakerTypes
  <2>8. CASE s = <<"lookup", "erase", "dropRecord", "succeed">>
    BY <1>4, <2>8 DEF RestsOf, Observing, Ordered, MakerTypes
  <2>9. CASE s = <<"erase", "dropRecord", "succeed">>
    BY <1>4, <2>9 DEF RestsOf, Observing, Ordered, MakerTypes
  <2>10. CASE s = <<"dropRecord", "succeed">>
    BY <1>4, <2>10 DEF RestsOf, Observing, Ordered, MakerTypes
  <2>11. CASE s = <<"reconcile", "succeed">>
    BY <1>4, <2>11 DEF RestsOf, Observing, Ordered, MakerTypes
  <2>12. CASE s = <<"observe", "storeState", "succeed">>
    BY <1>4, <2>12 DEF RestsOf, Observing, Ordered, MakerTypes
  <2>13. CASE s = <<"storeState", "succeed">>
    BY <1>4, <2>13 DEF RestsOf, Observing, Ordered, MakerTypes
  <2>14. CASE s = <<"succeed">>
    BY <1>4, <2>14 DEF RestsOf, Observing, Ordered, MakerTypes
  <2> QED BY <1>4, <2>1, <2>2, <2>3, <2>4, <2>5, <2>6, <2>7, <2>8, <2>9, <2>10, <2>11, <2>12, <2>13, <2>14 DEF RestsOf, Observing
<1> QED BY <1>1, <1>2, <1>3, <1>4

(* A handler begins with its first call. *)
LEMMA HandlerStarts ==
    ASSUME NEW t \in Types
    PROVE  /\ Handler[t] \in RestsOf(t)
           /\ Handler[t] # <<>>
           /\ Head(Handler[t]) \notin {"cleanup", "dropRecord", "storeRecord"}
           /\ t \in MakerTypes => Head(Handler[t]) = "load"
<1>1. t \in {"provision_vm", "clone_vm", "destroy_vm", "start_vm", "stop_vm",
            "snapshot_create", "snapshot_restore", "snapshot_delete",
            "reconcile_vm_networking", "refresh_vm_runtime_state"}
  BY DEF Types, Handler
<1>2. CASE t = "provision_vm"
  BY <1>2 DEF Handler, Snapshotting, Deletion, RestsOf, Observing, MakerTypes
<1>3. CASE t = "clone_vm"
  BY <1>3 DEF Handler, Snapshotting, Deletion, RestsOf, Observing, MakerTypes
<1>4. CASE t = "destroy_vm"
  BY <1>4 DEF Handler, Snapshotting, Deletion, RestsOf, Observing, MakerTypes
<1>5. CASE t = "start_vm"
  BY <1>5 DEF Handler, Snapshotting, Deletion, RestsOf, Observing, MakerTypes
<1>6. CASE t = "stop_vm"
  BY <1>6 DEF Handler, Snapshotting, Deletion, RestsOf, Observing, MakerTypes
<1>7. CASE t = "snapshot_create"
  BY <1>7 DEF Handler, Snapshotting, Deletion, RestsOf, Observing, MakerTypes
<1>8. CASE t = "snapshot_restore"
  BY <1>8 DEF Handler, Snapshotting, Deletion, RestsOf, Observing, MakerTypes
<1>9. CASE t = "snapshot_delete"
  BY <1>9 DEF Handler, Snapshotting, Deletion, RestsOf, Observing, MakerTypes
<1>10. CASE t = "reconcile_vm_networking"
  BY <1>10 DEF Handler, Snapshotting, Deletion, RestsOf, Observing, MakerTypes
<1>11. CASE t = "refresh_vm_runtime_state"
  BY <1>11 DEF Handler, Snapshotting, Deletion, RestsOf, Observing, MakerTypes
<1> QED BY <1>1, <1>2, <1>3, <1>4, <1>5, <1>6, <1>7, <1>8, <1>9, <1>10, <1>11

-----------------------------------------------------------------------------
(* The inductive invariant. *)

Rests == {<<>>} \cup UNION {RestsOf(t) : t \in Types}

Shape ==
    /\ todo \in [Jobs -> Rests]
    /\ \A j \in Jobs : InProgress(j) => todo[j] \in RestsOf(spec[j].type)

Inv == TypeOK /\ Shape /\ MachineInv /\ MachinesStay /\ SnapshotsRecorded

(* At the beginning no job has done anything. *)
LEMMA InitInv == ASSUME Init PROVE Inv
<1> USE MachineJobsAssumption DEF Init
<1>1. (CHOOSE s \in Specs : TRUE) \in Specs
  <2>1. PICK v \in Vms : TRUE
    OBVIOUS
  <2>2. [type |-> "start_vm", vm |-> v, source |-> v] \in Specs
    BY DEF Specs, Types, Handler
  <2> QED BY <2>2
<1>2. TypeOK
  <2>1. \A v \in Vms : (IF v \in Existing THEN {0} ELSE {}) \in SUBSET Nat
    OBVIOUS
  <2> QED BY <1>1, <2>1 DEF TypeOK, States
<1>3. \A j \in Jobs : ~InProgress(j)
  BY DEF InProgress
<1>4. Shape
  BY <1>3 DEF Shape, Rests
<1>5. MachineInv
  BY <1>3 DEF MachineInv, JobsInv, IdsInv, ErasedInv, StayInv, MakersInv, HasMade, At
<1>6. MachinesStay
  BY DEF MachinesStay, Threatens
<1>7. SnapshotsRecorded
  BY DEF SnapshotsRecorded
<1> QED BY <1>2, <1>4, <1>5, <1>6, <1>7 DEF Inv

-----------------------------------------------------------------------------
(* What the step of one job leaves alone and where it may take the job. *)

(* Nothing but job k moves. *)
OthersKeep(k) ==
    /\ UNCHANGED spec
    /\ todo' = [todo EXCEPT ![k] = todo'[k]]
    /\ status' = [status EXCEPT ![k] = status'[k]]
    /\ attempts' = [attempts EXCEPT ![k] = attempts'[k]]
    /\ \A j \in Jobs \ {k} : /\ todo'[j] = todo[j]
                              /\ status'[j] = status[j]
                              /\ attempts'[j] = attempts[j]
                              /\ snap'[j] = snap[j]

Ends(k) ==
    /\ todo'[k] = <<>>
    /\ attempts'[k] = attempts[k]
    /\ \/ status'[k] \in {"failed", "succeeded", status[k]}
       \/ status'[k] = "queued" /\ attempts[k] < MaxAttempts

(* Another than its own thread marks the job. *)
Marked(k) ==
    /\ ~InProgress(k)
    /\ todo'[k] = <<>>
    /\ attempts'[k] = attempts[k]
    /\ \/ status'[k] = "failed"
       \/ status'[k] \in {"queued", "cancelled"} /\ attempts[k] < MaxAttempts
    /\ Maker(k) /\ status[k] = "succeeded" => VmOf(k) \in leftBehind'

Begins(k) ==
    /\ status[k] \in {"queued", "cancelled"}
    /\ status'[k] = "running"
    /\ todo'[k] = Handler[spec[k].type]
    /\ attempts'[k] = attempts[k] + 1

GoesOn(k) ==
    /\ InProgress(k)
    /\ todo'[k] = Tail(todo[k])
    /\ Tail(todo[k]) # <<>>
    /\ status'[k] = status[k]
    /\ attempts'[k] = attempts[k]

TurnsToCleanUp(k) ==
    /\ CleansUp(k)
    /\ todo'[k] = <<"cleanup">>
    /\ status'[k] = status[k]
    /\ attempts'[k] = attempts[k]

Statuses == {"absent", "queued", "running", "succeeded", "failed", "cancelled"}

JobTypes ==
    /\ spec \in [Jobs -> Specs]
    /\ status \in [Jobs -> Statuses]
    /\ attempts \in [Jobs -> 0 .. MaxAttempts]
    /\ todo \in [Jobs -> Rests]

(* Whatever a job's step does to the world, these facts about the jobs     *)
(* need no more than its move.                                             *)
LEMMA MoveInv ==
    ASSUME JobTypes, Shape, JobsInv, NEW k \in Jobs, OthersKeep(k),
           \/ Ends(k) \/ Begins(k) \/ Marked(k)
           \/ InProgress(k) /\ (GoesOn(k) \/ TurnsToCleanUp(k))
    PROVE  Shape' /\ JobsInv'
<1>1. ASSUME NEW j \in Jobs, j # k
      PROVE  /\ todo'[j] \in Rests
             /\ InProgress(j)' => todo'[j] \in RestsOf(spec'[j].type)
             /\ InProgress(j)' => status'[j] = "running" /\ attempts'[j] > 0
             /\ status'[j] = "absent" => attempts'[j] = 0
             /\ status'[j] \in {"queued", "cancelled"} => attempts'[j] < MaxAttempts
  BY <1>1 DEF OthersKeep, Shape, JobsInv, InProgress
<1>2. /\ todo'[k] \in Rests
      /\ InProgress(k)' => todo'[k] \in RestsOf(spec'[k].type)
      /\ InProgress(k)' => status'[k] = "running" /\ attempts'[k] > 0
      /\ status'[k] = "absent" => attempts'[k] = 0
      /\ status'[k] \in {"queued", "cancelled"} => attempts'[k] < MaxAttempts
  <2>0. spec'[k] = spec[k] /\ spec[k].type \in Types
    BY DEF OthersKeep, JobTypes, Specs
  <2>1. CASE Ends(k)
    BY <2>1 DEF Ends, InProgress, Rests, JobsInv
  <2>2. CASE Begins(k)
    BY <2>0, <2>2, HandlerStarts DEF Begins, InProgress, Rests, JobTypes
  <2>3. CASE InProgress(k) /\ GoesOn(k)
    <3>1. Ordered(spec[k].type, todo[k])
      BY <2>0, <2>3, RestsOrdered DEF Shape
    <3>2. todo'[k] \in RestsOf(spec[k].type)
      BY <2>3, <3>1 DEF Ordered, GoesOn
    <3> QED BY <2>0, <2>3, <3>2 DEF GoesOn, InProgress, JobsInv, Rests
  <2>4. CASE InProgress(k) /\ TurnsToCleanUp(k)
    <3>1. <<"cleanup">> \in RestsOf(spec[k].type)
      BY <2>4 DEF TurnsToCleanUp, CleansUp, Maker, MakerTypes, RestsOf
    <3> QED BY <2>0, <2>4, <3>1 DEF TurnsToCleanUp, InProgress, JobsInv, Rests
  <2>5. CASE Marked(k)
    BY <2>5 DEF Marked, InProgress, Rests
  <2> QED BY <2>1, <2>2, <2>3, <2>4, <2>5
<1>3. \A j \in Jobs :
         /\ todo'[j] \in Rests
         /\ InProgress(j)' => todo'[j] \in RestsOf(spec'[j].type)
         /\ InProgress(j)' => status'[j] = "running" /\ attempts'[j] > 0
         /\ status'[j] = "absent" => attempts'[j] = 0
         /\ status'[j] \in {"queued", "cancelled"} => attempts'[j] < MaxAttempts
  BY <1>1, <1>2
<1>4. Shape'
  BY <1>3 DEF Shape, OthersKeep
<1> QED BY <1>3, <1>4 DEF JobsInv

-----------------------------------------------------------------------------
(* What the step of a job does to the machines, the snapshots and their    *)
(* records.                                                                *)

WorldTouched(k) ==
    /\ nextSnap' \in Nat /\ nextSnap <= nextSnap'
    /\ \A v \in Vms \ {VmOf(k)} : /\ machine'[v] = machine[v]
                                 /\ disk'[v] = disk[v]
                                 /\ records'[v] = records[v]
    /\ \A n \in disk'[VmOf(k)] :
          \/ n \in disk[VmOf(k)]
          \/ At(k, "snapshot") /\ n = nextSnap /\ snap'[k] = n /\ nextSnap' = n + 1
    /\ \A n \in records'[VmOf(k)] :
          n \in records[VmOf(k)] \/ (At(k, "storeRecord") /\ n = snap[k])
    /\ \A n \in records[VmOf(k)] :
          \/ n \in records'[VmOf(k)]
          \/ At(k, "dropRecord") /\ n = snap[k] /\ disk' = disk
    /\ \/ snap'[k] = snap[k]
       \/ At(k, "snapshot") /\ snap'[k] = nextSnap /\ nextSnap' = nextSnap + 1
    /\ machine'[VmOf(k)] = "absent" /\ machine[VmOf(k)] # "absent" =>
          At(k, "destroy") \/ At(k, "cleanup")
    /\ machine'[VmOf(k)] # "absent" /\ machine[VmOf(k)] = "absent" =>
          At(k, "create") \/ At(k, "clone")

WorldTypes ==
    /\ machine \in [Vms -> States]
    /\ disk \in [Vms -> SUBSET Nat]
    /\ nextSnap \in Nat
    /\ cache \in [Vms -> States \cup {NoRow}]
    /\ records \in [Vms -> SUBSET Nat]
    /\ seen \in [Jobs -> States \cup {NoRow}]
    /\ snap \in [Jobs -> Nat]

(* A call that was answered has done this. *)
WorkDone(k) ==
    /\ At(k, "erase") => snap[k] \notin disk'[VmOf(k)] /\ snap'[k] = snap[k]
    /\ At(k, "create") \/ At(k, "clone") => machine'[VmOf(k)] # "absent"
    /\ At(k, "storeRecord") => snap[k] \in records'[VmOf(k)]

(* A call that does its work touches the machine of its job alone. *)
LEMMA EffectTouches ==
    ASSUME TypeOK, NEW k \in Jobs, Effect(k)
    PROVE  /\ WorldTouched(k)
           /\ WorldTypes'
           /\ WorkDone(k)
           /\ UNCHANGED definitions
           /\ \A j \in Jobs \ {k} : snap'[j] = snap[j]
           /\ InProgress(k) /\ Head(todo[k]) \notin {"load", "lookup", "succeed", "cleanup"}
<1> USE DEF WorldTouched, WorldTypes, WorkDone, TypeOK, States
<1>0. VmOf(k) \in Vms
  BY DEF VmOf, Specs
<1>1. CASE Make(k)
  BY <1>0, <1>1 DEF Make, SetMachine, At, tables, results
<1>2. CASE Destroy(k)
  <2>1. disk' \in [Vms -> SUBSET Nat] /\ \A v \in Vms : disk'[v] \subseteq disk[v]
    BY <1>0, <1>2 DEF Destroy, Unmake
  <2>2. \A v \in Vms \ {VmOf(k)} : disk'[v] = disk[v]
    BY <1>0, <1>2 DEF Destroy, Unmake
  <2>3. /\ machine' = [machine EXCEPT ![VmOf(k)] = "absent"]
        /\ UNCHANGED <<nextSnap, definitions, cache, records, seen, snap>>
        /\ At(k, "destroy")
    BY <1>2 DEF Destroy, Unmake, tables, results
  <2> QED BY <1>0, <2>1, <2>2, <2>3 DEF At
<1>3. CASE Power(k)
  BY <1>0, <1>3 DEF Power, SetMachine, At, tables, results
<1>4. CASE Restore(k)
  BY <1>0, <1>4 DEF Restore, SetMachine, At, tables, results
<1>5. CASE TakeSnapshot(k)
  BY <1>0, <1>5 DEF TakeSnapshot, At, tables
<1>6. CASE Erase(k)
  BY <1>0, <1>6 DEF Erase, At, tables, results
<1>7. CASE Observe(k)
  BY <1>0, <1>7 DEF Observe, At, world, tables
<1>8. CASE Reconcile(k)
  BY <1>0, <1>8 DEF Reconcile, At, world, tables, results
<1>9. CASE StoreState(k)
  BY <1>0, <1>9 DEF StoreState, At, world, results
<1>10. CASE DropState(k)
  BY <1>0, <1>10 DEF DropState, At, world, results
<1>11. CASE StoreRecord(k)
  BY <1>0, <1>11 DEF StoreRecord, At, world, results
<1>12. CASE DropRecord(k)
  BY <1>0, <1>12 DEF DropRecord, At, world, results
<1> QED BY <1>1, <1>2, <1>3, <1>4, <1>5, <1>6, <1>7, <1>8, <1>9, <1>10, <1>11, <1>12
        DEF Effect

(* So does one that does not, or not all of it, and the clean-up. *)
LEMMA NoEffectTouches ==
    ASSUME TypeOK, NEW k \in Jobs,
           \/ UNCHANGED <<world, tables, results>>
           \/ HalfMake(k)
           \/ At(k, "cleanup") /\ Unmake(VmOf(k))
    PROVE  /\ WorldTouched(k)
           /\ WorldTypes'
           /\ UNCHANGED definitions
           /\ \A j \in Jobs \ {k} : snap'[j] = snap[j]
<1> USE DEF WorldTouched, WorldTypes, TypeOK, States
<1>0. VmOf(k) \in Vms
  BY DEF VmOf, Specs
<1>1. CASE UNCHANGED <<world, tables, results>>
  BY <1>0, <1>1 DEF world, tables, results
<1>2. CASE HalfMake(k)
  BY <1>0, <1>2 DEF HalfMake, SetMachine, At, tables, results
<1>3. CASE At(k, "cleanup") /\ Unmake(VmOf(k))
  <2>1. disk' \in [Vms -> SUBSET Nat] /\ \A v \in Vms : disk'[v] \subseteq disk[v]
    BY <1>0, <1>3 DEF Unmake
  <2>2. \A v \in Vms \ {VmOf(k)} : disk'[v] = disk[v]
    BY <1>0, <1>3 DEF Unmake
  <2>3. /\ machine' = [machine EXCEPT ![VmOf(k)] = "absent"]
        /\ UNCHANGED <<nextSnap, definitions, cache, records, seen, snap>>
        /\ At(k, "cleanup")
    BY <1>3 DEF Unmake, tables, results
  <2> QED BY <1>0, <2>1, <2>2, <2>3 DEF At
<1> QED BY <1>1, <1>2, <1>3

-----------------------------------------------------------------------------
(* A step of a job, all in all. *)

Grows == leftBehind \subseteq leftBehind' /\ unrecorded \subseteq unrecorded'

(* What is written down when an execution ends *)
EndNoted(k) ==
    /\ At(k, "snapshot") \/ At(k, "storeRecord") =>
          disk'[VmOf(k)] \ records'[VmOf(k)] \subseteq unrecorded'
    /\ status'[k] = "succeeded" => At(k, "succeed")
    /\ At(k, "cleanup") => machine'[VmOf(k)] = "absent" \/ VmOf(k) \in leftBehind'
    /\ HasMade(k) => status'[k] = "succeeded" \/ VmOf(k) \in leftBehind'
    /\ Maker(k) /\ (At(k, "create") \/ At(k, "clone")) => VmOf(k) \in leftBehind'

Moves(k) ==
    /\ OthersKeep(k) /\ WorldTouched(k) /\ Grows
    /\ \/ ~InProgress(k) /\ (Begins(k) \/ Marked(k))
       \/ InProgress(k) /\ GoesOn(k) /\ WorkDone(k)
       \/ InProgress(k) /\ TurnsToCleanUp(k)
       \/ InProgress(k) /\ Ends(k) /\ EndNoted(k)

(* mark_job_failed ends the execution. *)
LEMMA SettleEnds ==
    ASSUME JobTypes, NEW k \in Jobs, NEW r \in BOOLEAN, Settle(k, r),
           \A j \in Jobs \ {k} : snap'[j] = snap[j]
    PROVE  OthersKeep(k) /\ Ends(k) /\ status'[k] # "succeeded"
  BY DEF Settle, OthersKeep, Ends, JobTypes

(* After an exception the machine is cleaned up, or the execution ends. *)
LEMMA RaiseMoves ==
    ASSUME JobTypes, NEW k \in Jobs, InProgress(k), ~At(k, "cleanup"), Raise(k),
           \A j \in Jobs \ {k} : snap'[j] = snap[j]
    PROVE  /\ OthersKeep(k) /\ Grows
           /\ TurnsToCleanUp(k) \/ (Ends(k) /\ EndNoted(k))
<1>1. Grows
  BY Zenon DEF Raise, NoteUnrecorded, Grows
<1>2. CASE CleansUp(k)
  <2>1. todo' = [todo EXCEPT ![k] = <<"cleanup">>] /\ UNCHANGED <<spec, status, attempts>>
    BY <1>2 DEF Raise
  <2> QED BY <1>1, <1>2, <2>1 DEF OthersKeep, TurnsToCleanUp, JobTypes
<1>3. CASE ~CleansUp(k)
  <2>1. Settle(k, TRUE)
    BY <1>3 DEF Raise
  <2>2. OthersKeep(k) /\ Ends(k) /\ status'[k] # "succeeded"
    BY <2>1, SettleEnds
  <2>3. HasMade(k) => VmOf(k) \in leftBehind'
    <3>1. HasMade(k) => Maker(k) /\ Head(todo[k]) \in {"storeState", "succeed"}
      BY <1>3 DEF HasMade, At, CleansUp
    <3> QED BY <3>1 DEF Raise
  <2>4. At(k, "snapshot") \/ At(k, "storeRecord") =>
          disk'[VmOf(k)] \ records'[VmOf(k)] \subseteq unrecorded'
    BY DEF Raise, NoteUnrecorded, At
  <2>5. Maker(k) => ~At(k, "create") /\ ~At(k, "clone")
    BY <1>3 DEF CleansUp, At
  <2> QED BY <1>1, <2>2, <2>3, <2>4, <2>5 DEF EndNoted, At
<1> QED BY <1>2, <1>3

Acts(k) ==
    \/ JobStep(k) \/ Break(k) \/ CleanUpFails(k)
    \/ Cancel(k) \/ StartCancelled(k) \/ Vanish(k) \/ SendBack(k)

(* Every step of a job is such a move. *)
LEMMA StepMoves ==
    ASSUME Inv, NEW k \in Jobs, Acts(k)
    PROVE  Moves(k)
<1> USE DEF Inv
<1>0. JobTypes
  BY DEF TypeOK, Shape, JobTypes, Statuses
<1>a. UNCHANGED <<world, tables, results>> =>
          WorldTouched(k) /\ \A j \in Jobs \ {k} : snap'[j] = snap[j]
  BY NoEffectTouches
<1>1. CASE Start(k) \/ StartCancelled(k)
  <2>0. Begin(k) /\ status[k] \in {"queued", "cancelled"}
    BY <1>1 DEF Start, StartCancelled
  <2>1. UNCHANGED <<world, tables, results>> /\ Grows
    BY <2>0 DEF Begin, Grows, historyVars
  <2>2. ~InProgress(k) /\ Begins(k)
    BY <1>0, <2>0 DEF Begin, Begins, JobTypes, MachineInv, JobsInv
  <2>3. OthersKeep(k)
    BY <1>0, <2>0, <1>a, <2>1 DEF Begin, OthersKeep, JobTypes
  <2> QED BY <1>a, <2>1, <2>2, <2>3 DEF Moves
<1>2. CASE Find(k)
  <2>1. UNCHANGED <<world, tables, results>> /\ InProgress(k)
    BY <1>2 DEF Find, At
  <2>2. Head(todo[k]) \in {"load", "lookup"}
    BY <1>2 DEF Find, At
  <2>3. CASE Continue(k)
    <3>1. Tail(todo[k]) # <<>>
      BY <1>0, <2>1, <2>2, RestsOrdered DEF Ordered, Shape, JobTypes, Specs
    <3>2. OthersKeep(k) /\ GoesOn(k) /\ Grows
      BY <1>0, <1>a, <2>1, <2>3, <3>1
      DEF Continue, OthersKeep, GoesOn, Grows, historyVars, JobTypes
    <3>3. WorkDone(k)
      BY <2>2 DEF WorkDone, At
    <3> QED BY <1>a, <2>1, <3>2, <3>3 DEF Moves
  <2>4. CASE Settle(k, FALSE) /\ UNCHANGED historyVars
    <3>1. OthersKeep(k) /\ Ends(k) /\ status'[k] # "succeeded"
      BY <1>0, <1>a, <2>1, <2>4, SettleEnds
    <3>2. EndNoted(k) /\ Grows
      BY <2>2, <2>4, <3>1 DEF EndNoted, HasMade, At, Grows, historyVars
    <3> QED BY <1>a, <2>1, <3>1, <3>2 DEF Moves
  <2> QED BY <1>2, <2>3, <2>4 DEF Find
<1>3. CASE Work(k)
  <2>1. Effect(k) /\ Continue(k)
    BY <1>3 DEF Work
  <2>2. /\ WorldTouched(k) /\ WorkDone(k) /\ InProgress(k)
        /\ \A j \in Jobs \ {k} : snap'[j] = snap[j]
        /\ Head(todo[k]) \notin {"load", "lookup", "succeed", "cleanup"}
    BY <2>1, EffectTouches
  <2>3. Tail(todo[k]) # <<>>
    <3>1. Ordered(spec[k].type, todo[k])
      BY <1>0, <2>2, RestsOrdered DEF Shape, JobTypes, Specs
    <3> QED BY <2>2, <3>1 DEF Ordered
  <2>4. OthersKeep(k) /\ GoesOn(k) /\ Grows
    BY <1>0, <2>1, <2>2, <2>3 DEF Continue, OthersKeep, GoesOn, Grows, historyVars, JobTypes
  <2> QED BY <2>2, <2>4 DEF Moves
<1>4. CASE Refuse(k)
  <2>1. UNCHANGED <<world, tables, results>> /\ InProgress(k) /\ Raise(k)
    BY <1>4 DEF Refuse
  <2>2. ~At(k, "cleanup")
    BY <1>4 DEF Refuse, Refusable, Sourced, At
  <2> QED BY <1>0, <1>a, <2>1, <2>2, RaiseMoves DEF Moves
<1>5. CASE Break(k)
  <2>1. InProgress(k) /\ ~At(k, "cleanup") /\ Raise(k)
    BY <1>5 DEF Break
  <2>2. Effect(k) \/ HalfMake(k) \/ UNCHANGED <<world, tables, results>>
    BY <1>5 DEF Break
  <2>3. WorldTouched(k) /\ \A j \in Jobs \ {k} : snap'[j] = snap[j]
    BY <2>2, EffectTouches, NoEffectTouches
  <2> QED BY <1>0, <2>1, <2>3, RaiseMoves DEF Moves
<1>6. CASE CleanUp(k)
  <2>1. /\ At(k, "cleanup") /\ Unmake(VmOf(k)) /\ Settle(k, TRUE)
        /\ UNCHANGED historyVars
    BY <1>6 DEF CleanUp, Wreck
  <2>2. WorldTouched(k) /\ \A j \in Jobs \ {k} : snap'[j] = snap[j]
    BY <2>1, NoEffectTouches
  <2>3. OthersKeep(k) /\ Ends(k) /\ status'[k] # "succeeded"
    BY <1>0, <2>1, <2>2, SettleEnds
  <2>4. machine'[VmOf(k)] = "absent"
    BY <2>1 DEF Unmake, TypeOK, VmOf, Specs
  <2>5. InProgress(k) /\ EndNoted(k) /\ Grows
    BY <2>1, <2>3, <2>4 DEF EndNoted, HasMade, At, Grows, historyVars
  <2> QED BY <2>2, <2>3, <2>5 DEF Moves
<1>7. CASE CleanUpFails(k)
  <2>1. /\ At(k, "cleanup") /\ Settle(k, TRUE)
        /\ Unmake(VmOf(k)) \/ UNCHANGED <<world, tables, results>>
        /\ leftBehind' = leftBehind \cup {VmOf(k)} /\ unrecorded' = unrecorded
    BY <1>7 DEF CleanUpFails, Wreck
  <2>2. WorldTouched(k) /\ \A j \in Jobs \ {k} : snap'[j] = snap[j]
    BY <2>1, NoEffectTouches
  <2>3. OthersKeep(k) /\ Ends(k) /\ status'[k] # "succeeded"
    BY <1>0, <2>1, <2>2, SettleEnds
  <2>4. InProgress(k) /\ EndNoted(k) /\ Grows
    BY <2>1, <2>3 DEF EndNoted, HasMade, At, Grows
  <2> QED BY <2>2, <2>3, <2>4 DEF Moves
<1>8. CASE Succeed(k)
  <2>1. /\ At(k, "succeed") /\ UNCHANGED <<world, tables, results, historyVars>>
        /\ InProgress(k)
    BY <1>8 DEF Succeed, At
  <2>2. todo'[k] = <<>>
    BY <1>0, <1>8, <2>1, RestsOrdered DEF Succeed, Ordered, Shape, JobTypes, Specs, At
  <2>3. OthersKeep(k) /\ Ends(k) /\ status'[k] = "succeeded"
    BY <1>0, <1>8, <1>a, <2>1, <2>2 DEF Succeed, OthersKeep, Ends, JobTypes
  <2>4. EndNoted(k) /\ Grows
    BY <2>1, <2>3 DEF EndNoted, At, Grows, historyVars
  <2> QED BY <1>a, <2>1, <2>3, <2>4 DEF Moves
<1>9. CASE Cancel(k)
  <2>1. UNCHANGED <<world, tables, results, historyVars>> /\ status[k] = "queued"
    BY <1>9 DEF Cancel
  <2>2. ~InProgress(k) /\ attempts[k] < MaxAttempts
    BY <2>1 DEF MachineInv, JobsInv
  <2>3. Marked(k)
    BY <1>0, <1>9, <2>1, <2>2 DEF Cancel, Marked, InProgress, JobTypes
  <2>4. OthersKeep(k) /\ Grows
    BY <1>0, <1>9, <1>a, <2>1 DEF Cancel, OthersKeep, Grows, historyVars, JobTypes
  <2> QED BY <1>a, <2>1, <2>2, <2>3, <2>4 DEF Moves
<1>10. CASE Vanish(k)
  <2>1. /\ InProgress(k)
        /\ \/ Effect(k) \/ HalfMake(k) \/ UNCHANGED <<world, tables, results>>
           \/ At(k, "cleanup") /\ Unmake(VmOf(k))
    BY <1>10 DEF Vanish, Wreck
  <2>2. WorldTouched(k) /\ \A j \in Jobs \ {k} : snap'[j] = snap[j]
    BY <2>1, EffectTouches, NoEffectTouches
  <2>3. todo' = [todo EXCEPT ![k] = <<>>] /\ UNCHANGED <<spec, status, attempts>>
    BY <1>10 DEF Vanish
  <2>4. OthersKeep(k) /\ Ends(k)
    BY <1>0, <2>2, <2>3 DEF OthersKeep, Ends, JobTypes
  <2>5. Grows
    BY <1>10, Zenon DEF Vanish, NoteUnrecorded, Grows
  <2>6. Maker(k) /\ ~At(k, "load") => VmOf(k) \in leftBehind'
    BY <1>10 DEF Vanish
  <2>7. At(k, "snapshot") \/ At(k, "storeRecord") =>
          disk'[VmOf(k)] \ records'[VmOf(k)] \subseteq unrecorded'
    BY <1>10 DEF Vanish, NoteUnrecorded, At
  <2>8. status'[k] # "succeeded"
    BY <2>1, <2>3 DEF MachineInv, JobsInv
  <2>9. At(k, "cleanup") => Maker(k)
    BY <1>0, RestsOrdered DEF Ordered, Shape, JobTypes, Specs, At, Maker
  <2>10. EndNoted(k)
    BY <2>6, <2>7, <2>8, <2>9 DEF EndNoted, HasMade, At
  <2> QED BY <2>1, <2>2, <2>4, <2>5, <2>10 DEF Moves
<1>11. CASE SendBack(k)
  <2>1. /\ status[k] # "absent" /\ ~InProgress(k) /\ Settle(k, TRUE)
        /\ UNCHANGED <<world, tables, results, unrecorded>>
    BY <1>11 DEF SendBack
  <2>2. /\ leftBehind \subseteq leftBehind'
        /\ Maker(k) /\ status[k] = "succeeded" => VmOf(k) \in leftBehind'
    BY <1>11 DEF SendBack
  <2>3. OthersKeep(k)
    BY <1>0, <1>a, <2>1, SettleEnds
  <2>4. Marked(k)
    BY <1>0, <2>1, <2>2 DEF Settle, Marked, JobTypes
  <2> QED BY <1>a, <2>1, <2>2, <2>3, <2>4 DEF Moves, Grows
<1> QED BY <1>1, <1>2, <1>3, <1>4, <1>5, <1>6, <1>7, <1>8, <1>9, <1>10, <1>11
        DEF Acts, JobStep

-----------------------------------------------------------------------------
(* A step of a job keeps every part of the invariant but the types. *)

LEMMA MovesJobs ==
    ASSUME Inv, NEW k \in Jobs, Moves(k)
    PROVE  Shape' /\ JobsInv'
  BY MoveInv DEF Inv, Moves, TypeOK, Shape, JobTypes, Statuses, MachineInv

(* Where a job may be after the step *)
LEMMA MovesAt ==
    ASSUME Inv, NEW k \in Jobs, Moves(k), NEW c
    PROVE  /\ \A j \in Jobs \ {k} : At(j, c)' <=> At(j, c)
           /\ At(k, "dropRecord")' => At(k, "erase") /\ WorkDone(k)
           /\ InProgress(k) /\ GoesOn(k) =>
                 /\ At(k, "storeRecord")' <=> At(k, "snapshot")
                 /\ ~At(k, "cleanup")'
           /\ HasMade(k)' => \/ HasMade(k)
                             \/ (At(k, "create") \/ At(k, "clone")) /\ WorkDone(k)
<1>1. \A j \in Jobs \ {k} : At(j, c)' <=> At(j, c)
  BY DEF Moves, OthersKeep, At, InProgress
<1>0. spec'[k] = spec[k] /\ spec[k].type \in Types
  BY DEF Moves, OthersKeep, Inv, TypeOK, Specs
<1>2. CASE ~InProgress(k) /\ Begins(k)
  <2>1. Head(todo'[k]) \notin {"cleanup", "dropRecord", "storeRecord"}
    BY <1>0, <1>2, HandlerStarts DEF Begins
  <2>2. Maker(k) => Head(todo'[k]) = "load"
    BY <1>0, <1>2, HandlerStarts DEF Begins, Maker
  <2> QED BY <1>0, <1>1, <1>2, <2>1, <2>2 DEF At, HasMade, Maker, MakerTypes
<1>3. CASE InProgress(k) /\ GoesOn(k) /\ WorkDone(k)
  <2>1. Ordered(spec[k].type, todo[k])
    BY <1>0, <1>3, RestsOrdered DEF Inv, Shape
  <2>2. Head(todo'[k]) = Head(Tail(todo[k])) /\ Tail(todo[k]) # <<>>
    BY <1>3 DEF GoesOn
  <2>3. /\ Head(todo'[k]) # "cleanup"
        /\ Head(todo'[k]) = "dropRecord" => Head(todo[k]) = "erase"
        /\ Head(todo'[k]) = "storeRecord" <=> Head(todo[k]) = "snapshot"
        /\ Maker(k) => (Head(todo'[k]) \in {"observe", "storeState", "succeed"} <=>
                          Head(todo[k]) \in {"create", "clone", "observe", "storeState"})
    BY <2>1, <2>2 DEF Ordered, Maker
  <2>4. InProgress(k)'
    BY <1>3, <2>2 DEF InProgress, GoesOn
  <2>5. Maker(k)' <=> Maker(k)
    BY <1>0 DEF Maker
  <2>6. \A d : At(k, d) <=> Head(todo[k]) = d
    BY <1>3 DEF At
  <2>7. \A d : At(k, d)' <=> Head(todo'[k]) = d
    BY <2>4 DEF At
  <2>8. HasMade(k)' => HasMade(k) \/ At(k, "create") \/ At(k, "clone")
    BY <2>3, <2>5, <2>6, <2>7 DEF HasMade
  <2> QED BY <1>1, <1>3, <2>3, <2>6, <2>7, <2>8
<1>4. CASE InProgress(k) /\ TurnsToCleanUp(k)
  <2>1. Head(todo'[k]) = "cleanup"
    BY <1>4 DEF TurnsToCleanUp
  <2>2. ~GoesOn(k)
    <3>1. Ordered(spec[k].type, todo[k])
      BY <1>0, <1>4, RestsOrdered DEF Inv, Shape
    <3> QED BY <2>1, <3>1 DEF GoesOn, Ordered
  <2>3. \A d : At(k, d)' => d = "cleanup"
    BY <2>1 DEF At
  <2>4. ~HasMade(k)'
    BY <2>3 DEF HasMade
  <2> QED BY <1>1, <2>2, <2>3, <2>4
<1>5. CASE InProgress(k) /\ Ends(k)
  BY <1>1, <1>5 DEF Ends, GoesOn, At, HasMade, InProgress
<1>6. CASE Marked(k)
  BY <1>1, <1>6 DEF Marked, At, HasMade, InProgress
<1> QED BY <1>2, <1>3, <1>4, <1>5, <1>6 DEF Moves

(* Ids in use are below the next one. *)
LEMMA MovesIds ==
    ASSUME Inv, NEW k \in Jobs, Moves(k)
    PROVE  IdsInv'
<1>0. /\ nextSnap \in Nat /\ nextSnap' \in Nat /\ nextSnap <= nextSnap'
      /\ \A v \in Vms : \A n \in disk[v] \cup records[v] : n \in Nat /\ n < nextSnap
      /\ \A j \in Jobs : snap[j] \in Nat /\ snap[j] < nextSnap
  BY DEF Inv, MachineInv, IdsInv, TypeOK, Moves, WorldTouched
<1>1. ASSUME NEW v \in Vms, NEW n \in disk'[v] \cup records'[v]
      PROVE  n < nextSnap'
  <2>1. CASE v # VmOf(k)
    <3>1. n \in disk[v] \cup records[v]
      BY <1>1, <2>1 DEF Moves, WorldTouched
    <3> QED BY <1>0, <3>1
  <2>2. CASE v = VmOf(k)
    <3>1. CASE n \in disk[v] \cup records[v]
      BY <1>0, <3>1
    <3>2. CASE n = snap[k]
      BY <1>0, <3>2
    <3>3. CASE n = nextSnap /\ nextSnap' = nextSnap + 1
      BY <1>0, <3>3
    <3>4. n \in disk'[VmOf(k)] => n \in disk[v] \/ (n = nextSnap /\ nextSnap' = nextSnap + 1)
      BY <2>2 DEF Moves, WorldTouched
    <3>5. n \in records'[VmOf(k)] => n \in records[v] \/ n = snap[k]
      BY <2>2 DEF Moves, WorldTouched
    <3> QED BY <1>1, <2>2, <3>1, <3>2, <3>3, <3>4, <3>5
  <2> QED BY <2>1, <2>2
<1>2. ASSUME NEW j \in Jobs
      PROVE  snap'[j] < nextSnap'
  <2>1. CASE j # k
    <3>1. snap'[j] = snap[j]
      BY <2>1 DEF Moves, OthersKeep
    <3> QED BY <1>0, <3>1
  <2>2. CASE j = k
    <3>1. snap'[k] = snap[k] \/ (snap'[k] = nextSnap /\ nextSnap' = nextSnap + 1)
      BY DEF Moves, WorldTouched
    <3> QED BY <1>0, <2>2, <3>1
  <2> QED BY <2>1, <2>2
<1> QED BY <1>1, <1>2 DEF IdsInv

(* Where a record is about to go its snapshot is gone; ids are not used    *)
(* again, so it does not come back.                                        *)
LEMMA MovesErased ==
    ASSUME Inv, NEW k \in Jobs, Moves(k)
    PROVE  ErasedInv'
<1> USE DEF Inv, MachineInv
<1>1. SUFFICES ASSUME NEW j \in Jobs, At(j, "dropRecord")'
               PROVE  snap'[j] \notin disk'[VmOf(j)']
  BY DEF ErasedInv
<1>2. VmOf(j)' = VmOf(j) /\ VmOf(j) \in Vms
  BY DEF VmOf, Moves, OthersKeep, TypeOK, Specs
<1>3. CASE j = k
  BY <1>1, <1>2, <1>3, MovesAt DEF WorkDone
<1>4. CASE j # k
  <2>1. At(j, "dropRecord") /\ snap'[j] = snap[j]
    BY <1>1, <1>4, MovesAt DEF Moves, OthersKeep
  <2>2. /\ snap[j] \notin disk[VmOf(j)]
        /\ snap[j] \in Nat /\ snap[j] < nextSnap /\ nextSnap \in Nat
    BY <2>1 DEF ErasedInv, IdsInv, TypeOK
  <2>3. snap[j] # nextSnap
    BY <2>2
  <2>4. snap[j] \notin disk'[VmOf(j)]
    BY <1>2, <2>2, <2>3 DEF Moves, WorldTouched
  <2> QED BY <1>2, <2>1, <2>4
<1> QED BY <1>3, <1>4

(* Threats only come; and whoever takes a machine away is one.             *)
LEMMA MovesThreats ==
    ASSUME Inv, NEW k \in Jobs, Moves(k)
    PROVE  /\ \A j \in Jobs : VmOf(j)' = VmOf(j) /\ (Maker(j)' <=> Maker(j))
           /\ \A i \in Jobs, v \in Vms : Threatens(i, v) => Threatens(i, v)'
           /\ \A v \in Vms : machine[v] # "absent" /\ machine'[v] = "absent" =>
                 /\ VmOf(k) = v /\ Threatens(k, v)
                 /\ (At(k, "destroy") /\ ~Maker(k)) \/ At(k, "cleanup")
<1>1. UNCHANGED spec
  BY DEF Moves, OthersKeep
<1>2. \A j \in Jobs : VmOf(j)' = VmOf(j) /\ (Maker(j)' <=> Maker(j))
  BY <1>1 DEF VmOf, Maker
<1>3. ASSUME NEW i \in Jobs, attempts[i] > 0
      PROVE  attempts'[i] > 0
  <2>1. attempts'[i] = attempts[i] \/ attempts'[i] = attempts[i] + 1
    BY DEF Moves, OthersKeep, Begins, Marked, GoesOn, TurnsToCleanUp, Ends
  <2>2. attempts[i] \in Nat
    BY DEF Inv, TypeOK
  <2> QED BY <1>3, <2>1, <2>2
<1>4. \A i \in Jobs, v \in Vms : Threatens(i, v) => Threatens(i, v)'
  BY <1>1, <1>2, <1>3 DEF Threatens
<1>5. ASSUME NEW v \in Vms, machine[v] # "absent", machine'[v] = "absent"
      PROVE  /\ VmOf(k) = v /\ Threatens(k, v)
             /\ (At(k, "destroy") /\ ~Maker(k)) \/ At(k, "cleanup")
  <2>1. VmOf(k) = v /\ (At(k, "destroy") \/ At(k, "cleanup"))
    BY <1>5 DEF Moves, WorldTouched
  <2>2. InProgress(k) /\ Head(todo[k]) \in {"destroy", "cleanup"}
    BY <2>1 DEF At
  <2>3. Ordered(spec[k].type, todo[k])
    BY <2>2, RestsOrdered DEF Inv, Shape, TypeOK, Specs
  <2>4. attempts[k] > 0
    BY <2>2 DEF Inv, MachineInv, JobsInv
  <2> QED BY <2>1, <2>2, <2>3, <2>4 DEF Ordered, Threatens, Maker, MakerTypes, At
<1> QED BY <1>2, <1>4, <1>5

(* The machine of a maker that nobody else threatens survives the step, if *)
(* the maker's own execution does not end with a clean-up.                 *)
LEMMA MovesOnlyThreat ==
    ASSUME Inv, NEW k \in Jobs, Moves(k), NEW j \in Jobs, Maker(j), OnlyThreat(j)',
           machine[VmOf(j)] # "absent", machine'[VmOf(j)] = "absent"
    PROVE  j = k /\ At(k, "cleanup")
<1>1. VmOf(j) \in Vms
  BY DEF VmOf, Inv, TypeOK, Specs
<1>2. VmOf(k) = VmOf(j) /\ Threatens(k, VmOf(j))
      /\ ((At(k, "destroy") /\ ~Maker(k)) \/ At(k, "cleanup"))
  BY <1>1, MovesThreats
<1>3. Threatens(k, VmOf(j))' /\ VmOf(j)' = VmOf(j)
  BY <1>1, <1>2, MovesThreats
<1>4. k = j
  BY <1>3 DEF OnlyThreat, Threatens
<1> QED BY <1>2, <1>4

(* Who is alone with its machine after the step was so before. *)
LEMMA MovesBackwards ==
    ASSUME Inv, NEW k \in Jobs, Moves(k), NEW j \in Jobs, OnlyThreat(j)'
    PROVE  OnlyThreat(j)
<1>1. VmOf(j) \in Vms
  BY DEF VmOf, Inv, TypeOK, Specs
<1>2. \A i \in Jobs : Threatens(i, VmOf(j)) => Threatens(i, VmOf(j))'
  BY <1>1, MovesThreats
<1>3. VmOf(j)' = VmOf(j)
  BY MovesThreats
<1> QED BY <1>2, <1>3 DEF OnlyThreat, Threatens

(* The machine a maker has made is there, and stays. *)
LEMMA MovesStay ==
    ASSUME Inv, NEW k \in Jobs, Moves(k)
    PROVE  StayInv' /\ MachinesStay'
<1>1. ASSUME NEW j \in Jobs, Maker(j), OnlyThreat(j)',
             HasMade(j)' \/ status'[j] = "succeeded"
      PROVE  machine'[VmOf(j)] # "absent"
  <2>0. VmOf(j) \in Vms /\ OnlyThreat(j)
    BY <1>1, MovesBackwards DEF VmOf, Inv, TypeOK, Specs
  <2>1. j = k => ~At(k, "cleanup")
    <3>1. SUFFICES ASSUME j = k, At(k, "cleanup") PROVE FALSE
      OBVIOUS
    <3>2. InProgress(k) /\ ~HasMade(k) /\ ~At(k, "create") /\ ~At(k, "clone")
          /\ ~At(k, "succeed")
      BY <3>1 DEF At, HasMade
    <3>3. ~HasMade(k)'
      BY <3>2, MovesAt
    <3>4. status'[k] # "succeeded"
      <4>1. status[k] = "running"
        BY <3>2 DEF Inv, MachineInv, JobsInv
      <4> QED BY <3>2, <4>1 DEF Moves, GoesOn, TurnsToCleanUp, EndNoted
    <3> QED BY <1>1, <3>1, <3>3, <3>4
  <2>2. CASE machine[VmOf(j)] # "absent"
    BY <1>1, <2>0, <2>1, <2>2, MovesOnlyThreat
  <2>3. CASE machine[VmOf(j)] = "absent"
    <3>1. ~HasMade(j) /\ status[j] # "succeeded"
      BY <1>1, <2>0, <2>3 DEF Inv, MachineInv, StayInv, MachinesStay
    <3>2. j = k
      <4>1. SUFFICES ASSUME j # k PROVE FALSE
        OBVIOUS
      <4>2. HasMade(j)' => HasMade(j)
        BY <4>1, MovesAt, MovesThreats DEF HasMade
      <4> QED BY <1>1, <3>1, <4>1, <4>2 DEF Moves, OthersKeep
    <3>3. ~At(k, "succeed")
      BY <1>1, <3>1, <3>2 DEF HasMade
    <3>4. status'[k] # "succeeded"
      BY <3>1, <3>2, <3>3 DEF Moves, Begins, Marked, GoesOn, TurnsToCleanUp, EndNoted
    <3> QED BY <1>1, <3>1, <3>2, <3>4, MovesAt DEF WorkDone
  <2> QED BY <2>2, <2>3
<1>2. StayInv'
  BY <1>1, MovesThreats DEF StayInv, HasMade
<1>3. ASSUME NEW v \in Existing, \A j \in Jobs : ~Threatens(j, v)'
      PROVE  machine'[v] # "absent"
  <2>1. v \in Vms /\ \A j \in Jobs : ~Threatens(j, v)
    BY <1>3, MachineJobsAssumption, MovesThreats
  <2>2. machine[v] # "absent"
    BY <2>1 DEF Inv, MachinesStay
  <2> QED BY <2>1, <2>2, MovesThreats
<1>4. \A j \in Jobs : Maker(j)' /\ status'[j] = "succeeded" /\ OnlyThreat(j)'
                         => machine'[VmOf(j)'] # "absent"
  BY <1>1, MovesThreats
<1> QED BY <1>2, <1>3, <1>4 DEF MachinesStay, Threatens

(* A maker that stands for its machine goes on doing so, or the machine is *)
(* gone or given up; and a new machine has the maker that makes it.        *)
LEMMA MovesMakers ==
    ASSUME Inv, NEW k \in Jobs, Moves(k)
    PROVE  MakersInv'
<1> DEFINE Stands(j) == status[j] = "succeeded" \/ HasMade(j) \/ At(j, "cleanup")
<1>1. SUFFICES ASSUME NEW v \in Vms \ Existing, v \notin leftBehind', machine'[v] # "absent"
               PROVE  \E j \in Jobs : Maker(j)' /\ VmOf(j)' = v /\ Stands(j)'
  BY DEF MakersInv
<1>2. v \in Vms \ (Existing \cup leftBehind)
  BY <1>1 DEF Moves, Grows
<1>3. CASE machine[v] # "absent"
  <2>1. PICK j \in Jobs : Maker(j) /\ VmOf(j) = v /\ Stands(j)
    BY <1>2, <1>3 DEF Inv, MachineInv, MakersInv
  <2>2. Maker(j)' /\ VmOf(j)' = v
    BY <2>1, MovesThreats
  <2>3. CASE j # k
    BY <2>1, <2>2, <2>3, MovesAt DEF Moves, OthersKeep, HasMade
  <2>4. CASE j = k
    <3>1. InProgress(k) => status[k] = "running"
      BY DEF Inv, MachineInv, JobsInv
    <3>2. ~(~InProgress(k) /\ Begins(k))
      BY <2>1, <2>4 DEF Begins, HasMade, At
    <3>0. ~Marked(k)
      BY <1>1, <2>1, <2>4 DEF Marked, HasMade, At
    <3>3. InProgress(k) /\ status[k] # "succeeded"
      BY <3>0, <3>1, <3>2 DEF Moves
    <3>4. HasMade(k) \/ At(k, "cleanup")
      BY <2>1, <2>4, <3>3
    <3>5. CASE GoesOn(k) /\ WorkDone(k)
      <4>1. Ordered(spec[k].type, todo[k]) /\ Maker(k)
        BY <2>1, <2>4, <3>3, RestsOrdered DEF Inv, Shape, TypeOK, Specs
      <4>2. /\ todo'[k] = Tail(todo[k]) /\ Tail(todo[k]) # <<>>
            /\ Head(todo[k]) \in {"observe", "storeState"}
        <5>1. Head(todo[k]) \in {"observe", "storeState", "succeed", "cleanup"}
          BY <3>4 DEF HasMade, At
        <5>2. todo[k] \in RestsOf(spec[k].type)
          BY <3>3 DEF Inv, Shape
        <5>3. Head(todo[k]) = "cleanup" => Tail(todo[k]) = <<>>
          <6>1. spec[k].type = "provision_vm" \/ spec[k].type = "clone_vm"
            BY <4>1 DEF Maker, MakerTypes
          <6>2. todo[k] \in {<<"load", "create", "observe", "storeState", "succeed">>,
                  <<"load", "clone", "observe", "storeState", "succeed">>,
                  <<"create", "observe", "storeState", "succeed">>,
                  <<"clone", "observe", "storeState", "succeed">>,
                  <<"observe", "storeState", "succeed">>, <<"storeState", "succeed">>,
                  <<"succeed">>} \/ todo[k] = <<"cleanup">>
            BY <5>2, <6>1 DEF RestsOf, Observing
          <6>3. CASE todo[k] = <<"cleanup">>
            BY <6>3
          <6>4. CASE todo[k] # <<"cleanup">>
            BY <6>2, <6>4
          <6> QED BY <6>3, <6>4
        <5> QED BY <3>5, <4>1, <5>1, <5>3 DEF GoesOn, Ordered
      <4>3. Head(todo'[k]) \in {"observe", "storeState", "succeed"}
        BY <4>1, <4>2 DEF Ordered, Maker
      <4>4. HasMade(k)'
        BY <2>2, <2>4, <4>2, <4>3 DEF HasMade, At, InProgress
      <4> QED BY <2>2, <2>4, <4>4
    <3>6. CASE TurnsToCleanUp(k)
      BY <2>2, <2>4, <3>6 DEF TurnsToCleanUp, At, InProgress
    <3>7. CASE Ends(k) /\ EndNoted(k)
      BY <1>1, <2>1, <2>2, <2>4, <3>4, <3>7 DEF EndNoted
    <3> QED BY <3>3, <3>5, <3>6, <3>7 DEF Moves
  <2> QED BY <2>3, <2>4
<1>4. CASE machine[v] = "absent"
  <2>1. VmOf(k) = v /\ (At(k, "create") \/ At(k, "clone"))
    BY <1>1, <1>2, <1>4 DEF Moves, WorldTouched
  <2>2. InProgress(k) /\ Head(todo[k]) \in {"create", "clone"}
    BY <2>1 DEF At
  <2>3. Ordered(spec[k].type, todo[k])
    BY <2>2, RestsOrdered DEF Inv, Shape, TypeOK, Specs
  <2>4. Maker(k) /\ Maker(k)' /\ VmOf(k)' = v
    BY <2>1, <2>2, <2>3, MovesThreats DEF Ordered, Maker
  <2>5. CASE GoesOn(k)
    <3>1. Head(todo'[k]) \in {"observe", "storeState", "succeed"} /\ todo'[k] # <<>>
      BY <2>2, <2>3, <2>4, <2>5 DEF Ordered, GoesOn, Maker
    <3> QED BY <2>4, <3>1 DEF HasMade, At, InProgress
  <2>6. CASE TurnsToCleanUp(k)
    BY <2>4, <2>6 DEF TurnsToCleanUp, At, InProgress
  <2>7. CASE Ends(k) /\ EndNoted(k)
    BY <1>1, <2>1, <2>4, <2>7 DEF EndNoted
  <2> QED BY <2>2, <2>5, <2>6, <2>7 DEF Moves
<1> QED BY <1>3, <1>4

(* Where a snapshot is found without a record there is the job that is     *)
(* about to write it, or the history knows of it.                          *)
LEMMA MovesSnapshots ==
    ASSUME Inv, NEW k \in Jobs, Moves(k)
    PROVE  SnapshotsRecorded'
<1> DEFINE Witness(j, v, n) == At(j, "storeRecord") /\ VmOf(j) = v /\ snap[j] = n
<1>1. SUFFICES ASSUME NEW v \in Vms, NEW n \in disk'[v], n \notin unrecorded', n \notin records'[v]
               PROVE  \E j \in Jobs : At(j, "storeRecord")' /\ VmOf(j)' = v /\ snap'[j] = n
  BY DEF SnapshotsRecorded
<1>2. n \notin unrecorded
  BY <1>1 DEF Moves, Grows
<1>3. /\ \A j \in Jobs : VmOf(j)' = VmOf(j)
      /\ \A j \in Jobs \ {k} : snap'[j] = snap[j]
      /\ \A j \in Jobs \ {k} : At(j, "storeRecord")' <=> At(j, "storeRecord")
  BY MovesThreats, MovesAt DEF Moves, OthersKeep
<1>4. CASE n \notin disk[v]
  <2>1. /\ v = VmOf(k) /\ At(k, "snapshot") /\ snap'[k] = n
        /\ InProgress(k) /\ ~CleansUp(k)
    BY <1>1, <1>4 DEF Moves, WorldTouched, At, CleansUp
  <2>2. GoesOn(k)
    BY <1>1, <2>1 DEF Moves, EndNoted, TurnsToCleanUp
  <2>3. At(k, "storeRecord")'
    BY <2>1, <2>2, MovesAt
  <2> QED BY <1>3, <2>1, <2>3
<1>5. CASE n \in disk[v] /\ n \in records[v]
  <2>1. v = VmOf(k) /\ At(k, "dropRecord") /\ n = snap[k]
    BY <1>1, <1>5 DEF Moves, WorldTouched
  <2> QED BY <1>5, <2>1 DEF Inv, MachineInv, ErasedInv
<1>6. CASE n \in disk[v] /\ n \notin records[v]
  <2>1. PICK j \in Jobs : Witness(j, v, n)
    BY <1>2, <1>6 DEF Inv, SnapshotsRecorded
  <2>2. CASE j # k
    BY <1>3, <2>1, <2>2
  <2>3. CASE j = k
    <3>1. InProgress(k) /\ ~CleansUp(k) /\ ~At(k, "snapshot") /\ v = VmOf(k)
      BY <2>1, <2>3 DEF At, CleansUp
    <3>2. ~WorkDone(k)
      BY <1>1, <2>1, <2>3 DEF WorkDone
    <3>3. ~EndNoted(k)
      BY <1>1, <2>1, <2>3 DEF EndNoted
    <3> QED BY <3>1, <3>2, <3>3 DEF Moves, TurnsToCleanUp
  <2> QED BY <2>2, <2>3
<1> QED BY <1>4, <1>5, <1>6

(* A record goes only where its snapshot has gone before. *)
LEMMA MovesRecords ==
    ASSUME Inv, NEW k \in Jobs, Moves(k), NEW v \in Vms
    PROVE  (records[v] \ records'[v]) \cap disk'[v] = {}
<1>1. SUFFICES ASSUME NEW n \in records[v], n \notin records'[v]
               PROVE  n \notin disk'[v]
  OBVIOUS
<1>2. v = VmOf(k) /\ At(k, "dropRecord") /\ n = snap[k] /\ disk' = disk
  BY <1>1 DEF Moves, WorldTouched
<1> QED BY <1>2 DEF Inv, MachineInv, ErasedInv

(* The values stay in their sets. *)
LEMMA StepTypes ==
    ASSUME Inv, NEW k \in Jobs, Acts(k)
    PROVE  TypeOK'
<1>0. Moves(k) /\ TypeOK /\ VmOf(k) \in Vms
  BY StepMoves DEF Inv, TypeOK, VmOf, Specs
<1>1. WorldTypes' /\ UNCHANGED definitions
  <2>1. Effect(k) => WorldTypes' /\ UNCHANGED definitions
    BY <1>0, EffectTouches
  <2>2. \/ UNCHANGED <<world, tables, results>>
        \/ HalfMake(k)
        \/ At(k, "cleanup") /\ Unmake(VmOf(k))
        => WorldTypes' /\ UNCHANGED definitions
    BY <1>0, NoEffectTouches
  <2>3. \/ Effect(k)
        \/ UNCHANGED <<world, tables, results>>
        \/ HalfMake(k)
        \/ At(k, "cleanup") /\ Unmake(VmOf(k))
    BY DEF Acts, JobStep, Start, StartCancelled, Begin, Find, Work, Refuse, Break,
           CleanUp, Wreck, CleanUpFails, Succeed, Cancel, Vanish, SendBack
  <2> QED BY <2>1, <2>2, <2>3
<1>2. UNCHANGED refreshVars
  BY DEF Acts, JobStep, Start, StartCancelled, Begin, Find, Work, Refuse, Break,
         CleanUp, CleanUpFails, Succeed, Cancel, Vanish, SendBack
<1>3. leftBehind' \subseteq Vms /\ unrecorded' \subseteq Nat
  <2>1. leftBehind \subseteq Vms /\ unrecorded \subseteq Nat /\ disk'[VmOf(k)] \subseteq Nat
    BY <1>0, <1>1 DEF TypeOK, WorldTypes
  <2>2. leftBehind' \in {leftBehind, leftBehind \cup {VmOf(k)}}
    BY DEF Acts, JobStep, Start, StartCancelled, Begin, Find, Work, Refuse, Break,
           CleanUp, CleanUpFails, Succeed, Cancel, Vanish, SendBack, Raise,
           NoteUnrecorded, Continue, historyVars
  <2>3. unrecorded' = unrecorded \/ unrecorded' = unrecorded \cup (disk'[VmOf(k)] \ records'[VmOf(k)])
    BY DEF Acts, JobStep, Start, StartCancelled, Begin, Find, Work, Refuse, Break,
           CleanUp, CleanUpFails, Succeed, Cancel, Vanish, SendBack, Raise,
           NoteUnrecorded, Continue, historyVars
  <2> QED BY <1>0, <2>1, <2>2, <2>3
<1>4. status' \in [Jobs -> Statuses]
  <2>1. status'[k] \in Statuses
    BY <1>0 DEF Moves, Begins, Marked, GoesOn, TurnsToCleanUp, Ends, TypeOK, Statuses
  <2> QED BY <1>0, <2>1 DEF Moves, OthersKeep, TypeOK, Statuses
<1>5. attempts' \in [Jobs -> 0 .. MaxAttempts]
  <2>0. attempts[k] \in Nat /\ MaxAttempts \in Nat /\ attempts[k] <= MaxAttempts
    BY <1>0, MachineJobsAssumption DEF TypeOK
  <2>1. CASE attempts'[k] = attempts[k]
    BY <1>0, <2>1 DEF Moves, OthersKeep, TypeOK
  <2>2. CASE Begins(k)
    <3>1. attempts[k] < MaxAttempts
      BY <2>2 DEF Begins, Inv, MachineInv, JobsInv
    <3>2. attempts'[k] \in 0 .. MaxAttempts
      BY <2>0, <2>2, <3>1 DEF Begins
    <3> QED BY <1>0, <3>2 DEF Moves, OthersKeep, TypeOK
  <2> QED BY <1>0, <2>1, <2>2 DEF Moves, Marked, GoesOn, TurnsToCleanUp, Ends
<1> QED BY <1>0, <1>1, <1>2, <1>3, <1>4, <1>5
        DEF TypeOK, WorldTypes, Statuses, refreshVars, Moves, OthersKeep

(* The steps of jobs keep the invariant. *)
LEMMA StepInv ==
    ASSUME Inv, NEW k \in Jobs, Acts(k)
    PROVE  Inv'
  BY StepMoves, StepTypes, MovesJobs, MovesIds, MovesErased, MovesStay, MovesMakers,
     MovesSnapshots DEF Inv, MachineInv

-----------------------------------------------------------------------------
(* The steps that are no job's. *)

(* A new job has done nothing yet. *)
LEMMA EnqueueInv ==
    ASSUME Inv, NEW k \in Jobs, Enqueue(k)
    PROVE  Inv'
<1> USE DEF Inv
<1>1. PICK s \in Specs :
         /\ spec' = [spec EXCEPT ![k] = s]
         /\ IF s.type \in MakerTypes
            THEN definitions' = definitions \cup {s.vm}
            ELSE UNCHANGED definitions
         /\ IF s.type \in {"snapshot_restore", "snapshot_delete"}
            THEN \E n \in records[s.vm] : snap' = [snap EXCEPT ![k] = n]
            ELSE UNCHANGED snap
  BY DEF Enqueue
<1>2. /\ status[k] = "absent" /\ status' = [status EXCEPT ![k] = "queued"]
      /\ UNCHANGED <<machine, disk, nextSnap, cache, records, attempts, todo, seen, phase,
                    listed, observed, leftBehind, unrecorded>>
  BY DEF Enqueue, world, refreshVars, historyVars
<1>3. ~InProgress(k) /\ attempts[k] = 0
  BY <1>2 DEF MachineInv, JobsInv
<1>4. snap' \in [Jobs -> Nat] /\ \A j \in Jobs : snap'[j] < nextSnap
  <2>1. s.vm \in Vms
    BY DEF Specs
  <2>2. \A n \in records[s.vm] : n \in Nat /\ n < nextSnap
    BY <2>1 DEF MachineInv, IdsInv, TypeOK
  <2> QED BY <1>1, <2>2 DEF MachineInv, IdsInv, TypeOK
<1>5. /\ \A j \in Jobs \ {k} : spec'[j] = spec[j] /\ snap'[j] = snap[j] /\ status'[j] = status[j]
      /\ status'[k] = "queued" /\ spec' \in [Jobs -> Specs]
  BY <1>1, <1>2 DEF TypeOK
<1>6. TypeOK'
  <2>1. definitions' \subseteq Vms
    BY <1>1 DEF TypeOK, Specs
  <2>2. status' \in [Jobs -> Statuses]
    BY <1>2 DEF TypeOK, Statuses
  <2> QED BY <1>2, <1>4, <1>5, <2>1, <2>2 DEF TypeOK, Statuses
<1>7. \A j \in Jobs : InProgress(j)' <=> InProgress(j)
  BY <1>2 DEF InProgress
<1>8. \A c : \A j \in Jobs : At(j, c)' <=> At(j, c)
  BY <1>2, <1>7 DEF At
<1>9. \A c : ~At(k, c)
  BY <1>3 DEF At
<1>10. \A j \in Jobs \ {k} : VmOf(j)' = VmOf(j) /\ (Maker(j)' <=> Maker(j)) /\ (HasMade(j)' <=> HasMade(j))
  BY <1>5, <1>8 DEF VmOf, Maker, HasMade
<1>11. ~HasMade(k) /\ ~HasMade(k)'
  BY <1>8, <1>9 DEF HasMade
<1>12. \A j \in Jobs, v \in Vms : Threatens(j, v)' <=> Threatens(j, v)
  <2>1. attempts'[k] = 0
    BY <1>2, <1>3
  <2>2. \A v \in Vms : ~Threatens(k, v) /\ ~Threatens(k, v)'
    BY <1>3, <2>1 DEF Threatens
  <2>3. \A j \in Jobs \ {k}, v \in Vms : Threatens(j, v)' <=> Threatens(j, v)
    BY <1>2, <1>5, <1>10 DEF Threatens
  <2> QED BY <2>2, <2>3
<1>13. \A j \in Jobs \ {k} : OnlyThreat(j)' <=> OnlyThreat(j)
  <2>1. \A j \in Jobs : VmOf(j) \in Vms
    BY DEF VmOf, TypeOK, Specs
  <2> QED BY <1>10, <1>12, <2>1 DEF OnlyThreat
<1>14. Shape'
  BY <1>2, <1>3, <1>5, <1>7 DEF Shape
<1>15. JobsInv'
  <2>1. attempts'[k] < MaxAttempts
    BY <1>2, <1>3, MachineJobsAssumption
  <2> QED BY <1>2, <1>3, <1>5, <1>7, <2>1 DEF JobsInv, MachineInv
<1>16. IdsInv'
  BY <1>2, <1>4 DEF IdsInv, MachineInv
<1>17. ErasedInv'
  BY <1>2, <1>5, <1>8, <1>9, <1>10 DEF ErasedInv, MachineInv
<1>18. StayInv'
  BY <1>2, <1>10, <1>11, <1>13 DEF StayInv, MachineInv
<1>19. MakersInv'
  <2>1. ~(status[k] = "succeeded" \/ HasMade(k) \/ At(k, "cleanup"))
    BY <1>2, <1>9, <1>11
  <2> QED BY <1>2, <1>5, <1>8, <1>10, <2>1 DEF MakersInv, MachineInv
<1>20. MachinesStay'
  <2>1. \A v \in Existing : v \in Vms
    BY MachineJobsAssumption
  <2> QED BY <1>2, <1>5, <1>10, <1>12, <1>13, <2>1 DEF MachinesStay
<1>21. SnapshotsRecorded'
  BY <1>2, <1>5, <1>8, <1>9, <1>10 DEF SnapshotsRecorded
<1> QED BY <1>6, <1>14, <1>15, <1>16, <1>17, <1>18, <1>19, <1>20, <1>21 DEF MachineInv

(* The parts of the invariant say nothing of the other variables.          *)
Quiet == UNCHANGED <<world, records, jobVars, results, historyVars>>

(* So a step that changes only these keeps it. *)
LEMMA QuietInv ==
    ASSUME Inv, Quiet, TypeOK'
    PROVE  Inv'
<1>1. UNCHANGED <<machine, disk, nextSnap, records, spec, status, attempts, todo, seen,
                  snap, leftBehind, unrecorded>>
  BY DEF Quiet, world, jobVars, results, historyVars
<1>2. \A j \in Jobs : VmOf(j)' = VmOf(j) /\ (Maker(j)' <=> Maker(j)) /\ (InProgress(j)' <=> InProgress(j))
  BY <1>1 DEF VmOf, Maker, InProgress
<1>3. \A c : \A j \in Jobs : At(j, c)' <=> At(j, c)
  BY <1>1, <1>2 DEF At
<1>4. \A j \in Jobs : HasMade(j)' <=> HasMade(j)
  BY <1>2, <1>3 DEF HasMade
<1>5. \A j \in Jobs : \A v : Threatens(j, v)' <=> Threatens(j, v)
  BY <1>1, <1>2 DEF Threatens
<1>6. \A j \in Jobs : OnlyThreat(j)' <=> OnlyThreat(j)
  BY <1>2, <1>5 DEF OnlyThreat
<1>7. Shape' /\ JobsInv' /\ IdsInv'
  BY <1>1, <1>2 DEF Inv, MachineInv, Shape, JobsInv, IdsInv
<1>8. ErasedInv' /\ StayInv' /\ MakersInv'
  BY <1>1, <1>2, <1>3, <1>4, <1>6 DEF Inv, MachineInv, ErasedInv, StayInv, MakersInv
<1>9. MachinesStay'
  BY <1>1, <1>2, <1>5, <1>6 DEF Inv, MachinesStay
<1>10. SnapshotsRecorded'
  BY <1>1, <1>2, <1>3 DEF Inv, SnapshotsRecorded
<1> QED BY <1>7, <1>8, <1>9, <1>10 DEF Inv, MachineInv

(* The refresh and the API's deletions change only definitions, the cache  *)
(* and the refresh's own variables.                                        *)
LEMMA QuietSteps ==
    ASSUME TypeOK, RefreshStep \/ (\E v \in Vms : DeleteDefinition(v)) \/ UNCHANGED vars
    PROVE  Quiet /\ TypeOK'
<1> USE DEF TypeOK, Quiet, world, tables, jobVars, results, historyVars
<1>1. CASE RefreshList
  BY <1>1 DEF RefreshList
<1>2. CASE RefreshObserve
  <2>1. \A v : [observed EXCEPT ![v] = machine[v]] \in [Vms -> States \cup {NoRow}]
    OBVIOUS
  <2> QED BY <1>2, <2>1 DEF RefreshObserve
<1>3. CASE RefreshSkip
  BY <1>3 DEF RefreshSkip, Unobserved
<1>4. CASE RefreshTurn
  BY <1>4 DEF RefreshTurn
<1>5. CASE RefreshWrite
  <2>1. \A v : [cache EXCEPT ![v] = observed[v]] \in [Vms -> States \cup {NoRow}]
    OBVIOUS
  <2>2. \A v : [observed EXCEPT ![v] = NoRow] \in [Vms -> States \cup {NoRow}]
    OBVIOUS
  <2> QED BY <1>5, <2>1, <2>2 DEF RefreshWrite
<1>6. CASE RefreshEnd
  BY <1>6 DEF RefreshEnd
<1>7. ASSUME NEW v \in Vms, DeleteDefinition(v)
      PROVE  Quiet /\ TypeOK'
  BY <1>7 DEF DeleteDefinition, refreshVars
<1>8. CASE UNCHANGED vars
  BY <1>8 DEF vars
<1> QED BY <1>1, <1>2, <1>3, <1>4, <1>5, <1>6, <1>7, <1>8 DEF RefreshStep

(* The invariant is inductive. *)
LEMMA NextInv == ASSUME Inv, [Next]_vars PROVE Inv'
<1>1. CASE \E k \in Jobs : Acts(k)
  BY <1>1, StepInv
<1>2. CASE \E k \in Jobs : Enqueue(k)
  BY <1>2, EnqueueInv
<1>3. CASE RefreshStep \/ (\E v \in Vms : DeleteDefinition(v)) \/ UNCHANGED vars
  BY <1>3, QuietSteps, QuietInv DEF Inv
<1> QED BY <1>1, <1>2, <1>3 DEF Next, Acts

(* It holds in every state. *)
LEMMA SpecInv == Spec => []Inv
<1>1. Inv /\ [Next]_vars => Inv'
  BY NextInv
<1> QED BY <1>1, InitInv, PTL DEF Spec

-----------------------------------------------------------------------------
(* The results. *)

(* The variables keep their types, and no job exceeds max_attempts,        *)
(* whatever breaks.                                                        *)
THEOREM TypesHold == Spec => []TypeOK
<1>1. Inv => TypeOK
  BY DEF Inv
<1> QED BY <1>1, SpecInv, PTL

(* What the other results rest on holds throughout: of a running job and   *)
(* what it has made, of ids that are used once, of what a deletion removed. *)
THEOREM MachineInvHolds == Spec => []MachineInv
<1>1. Inv => MachineInv
  BY DEF Inv
<1> QED BY <1>1, SpecInv, PTL

(* A provision or a clone that fails leaves no machine behind, unless the  *)
(* failure came after the handler had returned, its clean-up failed too,   *)
(* its thread died, or another thread sent back the job that had succeeded. *)
THEOREM NoMachineWithoutMaker == Spec => []MachinesHaveMakers
<1>1. Inv => MachinesHaveMakers
  BY DEF Inv, MachineInv, MakersInv, MachinesHaveMakers, HasMade, At
<1> QED BY <1>1, SpecInv, PTL

(* No failure and no clean-up takes away a machine that its own jobs do    *)
(* not make again or destroy; the source of a clone above all.             *)
THEOREM NoMachineLost == Spec => []MachinesStay
<1>1. Inv => MachinesStay
  BY DEF Inv
<1> QED BY <1>1, SpecInv, PTL

(* No snapshot is without a record but for the time its job takes, or for  *)
(* a call of this job that broke.                                          *)
THEOREM NoSnapshotUnrecorded == Spec => []SnapshotsRecorded
<1>1. Inv => SnapshotsRecorded
  BY DEF Inv
<1> QED BY <1>1, SpecInv, PTL

(* A record is deleted only when its snapshot is gone.                     *)
THEOREM NoSnapshotForgotten == Spec => RecordsOutlive
<1> DEFINE Outlive == \A v \in Vms : (records[v] \ records'[v]) \cap disk'[v] = {}
<1>1. ASSUME Inv, [Next]_vars
      PROVE  Outlive
  <2>1. CASE \E k \in Jobs : Acts(k)
    BY <1>1, <2>1, StepMoves, MovesRecords
  <2>2. CASE UNCHANGED records
    BY <2>2
  <2>3. CASE \E k \in Jobs : Enqueue(k)
    BY <2>2, <2>3 DEF Enqueue
  <2>4. CASE RefreshStep \/ (\E v \in Vms : DeleteDefinition(v)) \/ UNCHANGED vars
    BY <1>1, <2>2, <2>4, QuietSteps DEF Quiet, Inv
  <2> QED BY <1>1, <2>1, <2>3, <2>4 DEF Next, Acts
<1>2. Inv /\ [Next]_vars => [Outlive]_vars
  BY <1>1
<1> QED BY <1>2, SpecInv, PTL DEF Spec, RecordsOutlive

-----------------------------------------------------------------------------
(* The handlers keep to what JobService allows. *)

(* Every job needs keys of the set the abstract service knows. *)
LEMMA KeysTyped == \A s \in Specs : ResourceKeysOf(s.type, Host, s.vm) \subseteq AllKeys
<1>1. \A p \in {"firewall", "host", "network", "vm"}, id \in Vms \cup {Host} : Key(p, id) \in AllKeys
  BY DEF AllKeys, PrefixRank
<1>2. \A s \in Specs : s.vm \in Vms
  BY DEF Specs
<1> QED BY <1>1, <1>2 DEF ResourceKeysOf

(* What the service shows of a job's step *)
LEMMA ServiceShows ==
    ASSUME NEW k \in Jobs, UNCHANGED spec, \A j \in Jobs \ {k} : todo'[j] = todo[j]
    PROVE  /\ UNCHANGED NeededKeys
           /\ ExecutorsOf' = [ExecutorsOf EXCEPT ![k] = IF todo'[k] # <<>> THEN {k} ELSE {}]
           /\ ExecutorsOf[k] = IF InProgress(k) THEN {k} ELSE {}
           /\ \A j \in Jobs : ExecutorsOf[j] \subseteq {j}
<1>1. UNCHANGED NeededKeys
  BY DEF NeededKeys, KeysOf, VmOf
<1> QED BY <1>1 DEF ExecutorsOf, InProgress

(* The thread that executes a job goes on, reports the end, or dies.       *)
LEMMA ProgressServed ==
    ASSUME Inv, NEW k \in Jobs, Moves(k), InProgress(k)
    PROVE  [JobLife!JobServiceNext]_(JobLife!serviceVars)
<1>1. /\ UNCHANGED spec
      /\ status' = [status EXCEPT ![k] = status'[k]]
      /\ attempts' = [attempts EXCEPT ![k] = attempts'[k]]
      /\ status \in [Jobs -> Statuses] /\ attempts \in [Jobs -> 0 .. MaxAttempts]
      /\ status[k] = "running"
  BY DEF Moves, OthersKeep, Inv, TypeOK, Statuses, MachineInv, JobsInv
<1>2. /\ UNCHANGED NeededKeys
      /\ ExecutorsOf' = [ExecutorsOf EXCEPT ![k] = IF todo'[k] # <<>> THEN {k} ELSE {}]
      /\ ExecutorsOf[k] = {k}
      /\ \A j \in Jobs : ExecutorsOf[j] \subseteq {j}
  BY ServiceShows DEF Moves, OthersKeep
<1>3. CASE GoesOn(k) \/ TurnsToCleanUp(k)
  <2>1. todo'[k] # <<>> /\ status'[k] = status[k] /\ attempts'[k] = attempts[k]
    <3>1. <<"cleanup">> # <<>>
      OBVIOUS
    <3>2. CASE GoesOn(k)
      BY <3>2 DEF GoesOn
    <3>3. CASE TurnsToCleanUp(k)
      BY <3>1, <3>3 DEF TurnsToCleanUp
    <3> QED BY <1>3, <3>2, <3>3
  <2>2. ExecutorsOf' = [ExecutorsOf EXCEPT ![k] = ExecutorsOf[k]]
    BY <1>2, <2>1
  <2>3. UNCHANGED ExecutorsOf
    BY <2>2 DEF ExecutorsOf
  <2>4. UNCHANGED <<status, attempts>>
    BY <1>1, <2>1
  <2> QED BY <1>2, <2>3, <2>4 DEF JobLife!serviceVars
<1>4. CASE Ends(k)
  <2>1. ExecutorsOf' = [ExecutorsOf EXCEPT ![k] = {}] /\ UNCHANGED attempts
    BY <1>1, <1>2, <1>4 DEF Ends
  <2>2. CASE status'[k] = "succeeded"
    <3>1. JobLife!Complete(k, k)
      BY <1>1, <1>2, <2>1, <2>2 DEF JobLife!Complete, JobLife!Ends, JobLife!Turn
    <3> QED BY <3>1 DEF JobLife!JobServiceNext
  <2>3. CASE status'[k] = "failed"
    <3>1. JobLife!GiveUp(k, k)
      BY <1>1, <1>2, <2>1, <2>3 DEF JobLife!GiveUp, JobLife!Ends, JobLife!Turn
    <3> QED BY <3>1 DEF JobLife!JobServiceNext
  <2>4. CASE status'[k] = "queued" /\ attempts[k] < MaxAttempts
    <3>1. JobLife!Retry(k, k)
      BY <1>1, <1>2, <2>1, <2>4 DEF JobLife!Retry, JobLife!Ends, JobLife!Turn
    <3> QED BY <3>1 DEF JobLife!JobServiceNext
  <2>5. CASE status'[k] = status[k]
    <3>1. ExecutorsOf' = [j \in Jobs |-> ExecutorsOf[j] \ {k}]
      <4>1. \A j \in Jobs \ {k} : ExecutorsOf[j] \ {k} = ExecutorsOf[j]
        BY <1>2
      <4>2. DOMAIN ExecutorsOf = Jobs /\ ExecutorsOf[k] \ {k} = {}
        BY <1>2 DEF ExecutorsOf
      <4> HIDE DEF ExecutorsOf
      <4> QED BY <2>1, <4>1, <4>2
    <3>2. UNCHANGED status
      BY <1>1, <2>5
    <3>3. JobLife!Vanish({k})
      BY <1>2, <2>1, <3>1, <3>2 DEF JobLife!Vanish
    <3> QED BY <3>3 DEF JobLife!JobServiceNext
  <2> QED BY <1>4, <2>2, <2>3, <2>4, <2>5 DEF Ends
<1> QED BY <1>3, <1>4 DEF Moves

(* Every step, the API's included *)
LEMMA ServedStep ==
    ASSUME Inv, [Next]_vars
    PROVE  [JobLife!JobServiceNext]_(JobLife!serviceVars)
<1> DEFINE Served == [JobLife!JobServiceNext]_(JobLife!serviceVars)
<1>p. /\ status \in [Jobs -> Statuses] /\ attempts \in [Jobs -> 0 .. MaxAttempts]
      /\ todo \in [Jobs -> Rests] /\ JobsInv /\ TypeOK
  BY DEF Inv, TypeOK, Statuses, Shape, MachineInv
<1>1. ASSUME NEW k \in Jobs, Start(k) \/ StartCancelled(k) PROVE Served
  <2>1. Begin(k) /\ status[k] \in {"queued", "cancelled"} /\ attempts[k] < MaxAttempts
    BY <1>1, <1>p DEF Start, StartCancelled, JobsInv
  <2>2. UNCHANGED spec /\ todo' = [todo EXCEPT ![k] = Handler[spec[k].type]]
    BY <2>1 DEF Begin
  <2>3. todo'[k] # <<>>
    BY <2>2, <1>p, HandlerStarts DEF TypeOK, Specs
  <2>4. UNCHANGED NeededKeys /\ ExecutorsOf' = [ExecutorsOf EXCEPT ![k] = {k}]
    <3>1. \A j \in Jobs \ {k} : todo'[j] = todo[j]
      BY <2>2, <1>p
    <3> QED BY <2>2, <2>3, <3>1, ServiceShows
  <2>5. JobLife!Free(k)
    BY <2>1 DEF Begin, Locked, JobLife!Free, ExecutorsOf, NeededKeys
  <2>6. JobLife!Begin(k, k)
    BY <2>1, <2>4, <2>5 DEF Begin, JobLife!Begin, JobLife!Turn
  <2> QED BY <2>6 DEF JobLife!JobServiceNext
<1>2. ASSUME NEW k \in Jobs, Cancel(k) PROVE Served
  <2>1. UNCHANGED <<spec, todo>>
    BY <1>2 DEF Cancel
  <2>2. UNCHANGED <<NeededKeys, ExecutorsOf>>
    BY <2>1 DEF NeededKeys, KeysOf, VmOf, ExecutorsOf, InProgress
  <2>3. JobLife!Withdraw(k)
    BY <1>2, <2>2 DEF Cancel, JobLife!Withdraw, JobLife!Turn
  <2> QED BY <2>3 DEF JobLife!JobServiceNext
<1>3. ASSUME NEW k \in Jobs, SendBack(k) PROVE Served
  <2>1. /\ status[k] # "absent" /\ ~InProgress(k)
        /\ UNCHANGED <<spec, attempts>> /\ todo' = [todo EXCEPT ![k] = <<>>]
        /\ status' = [status EXCEPT ![k] = IF attempts[k] < MaxAttempts THEN "queued" ELSE "failed"]
    BY <1>3 DEF SendBack, Settle
  <2>2. UNCHANGED todo
    BY <1>p, <2>1 DEF InProgress
  <2>3. UNCHANGED <<NeededKeys, ExecutorsOf>> /\ ExecutorsOf[k] = {}
    BY <2>1, <2>2 DEF NeededKeys, KeysOf, VmOf, ExecutorsOf, InProgress
  <2>4. JobLife!SendBack(k)
    BY <2>1, <2>3 DEF JobLife!SendBack, JobLife!Turn
  <2> QED BY <2>4 DEF JobLife!JobServiceNext
<1>4. ASSUME NEW k \in Jobs, Enqueue(k) PROVE Served
  <2>1. /\ status[k] = "absent" /\ status' = [status EXCEPT ![k] = "queued"]
        /\ UNCHANGED <<attempts, todo>>
    BY <1>4 DEF Enqueue
  <2>2. \A j \in Jobs \ {k} : spec'[j] = spec[j]
    BY <1>4, <1>p DEF Enqueue, TypeOK
  <2>3. UNCHANGED ExecutorsOf
    BY <2>1 DEF ExecutorsOf, InProgress
  <2>4. NeededKeys' \in [Jobs -> SUBSET AllKeys]
    <3>1. spec' \in [Jobs -> Specs]
      BY <1>4, EnqueueInv DEF Inv, TypeOK
    <3> QED BY <3>1, KeysTyped DEF NeededKeys, KeysOf, VmOf
  <2>5. \A j \in Jobs \ {k} : NeededKeys'[j] = NeededKeys[j]
    BY <2>2 DEF NeededKeys, KeysOf, VmOf
  <2>6. JobLife!Submit(k)
    BY <2>1, <2>3, <2>4, <2>5 DEF JobLife!Submit, JobLife!Turn
  <2> QED BY <2>6 DEF JobLife!JobServiceNext
<1>5. ASSUME NEW k \in Jobs,
             \/ Find(k) \/ Work(k) \/ Refuse(k) \/ CleanUp(k) \/ Succeed(k)
             \/ Break(k) \/ CleanUpFails(k) \/ Vanish(k)
      PROVE  Served
  <2>1. InProgress(k)
    BY <1>5 DEF Find, Work, Effect, Make, Destroy, Power, Restore, TakeSnapshot, Erase, Observe,
       Reconcile, StoreState, DropState, StoreRecord, DropRecord, Refuse, CleanUp, Succeed,
       Break, CleanUpFails, Vanish, At
  <2>2. Moves(k)
    BY <1>5, StepMoves DEF Acts, JobStep
  <2> QED BY <2>1, <2>2, ProgressServed
<1>6. CASE RefreshStep \/ (\E v \in Vms : DeleteDefinition(v)) \/ UNCHANGED vars
  <2>1. UNCHANGED jobVars
    BY <1>6, <1>p, QuietSteps DEF Quiet
  <2>2. UNCHANGED <<NeededKeys, ExecutorsOf>>
    BY <2>1 DEF jobVars, NeededKeys, KeysOf, VmOf, ExecutorsOf, InProgress
  <2> QED BY <2>1, <2>2 DEF jobVars, JobLife!serviceVars
<1> QED BY <1>1, <1>2, <1>3, <1>4, <1>5, <1>6 DEF Next, JobStep

(* A job is executed by one thread at a time and within max_attempts, no   *)
(* two that share a key at once, and nobody but the executing thread ends  *)
(* an execution, through every handler, failure, clean-up and death of a   *)
(* thread.                                                                 *)
THEOREM JobsServedCorrect == Spec => JobsServed
<1>1. Init => JobLife!JobServiceInit
  <2>1. ASSUME Init PROVE JobLife!JobServiceInit
    <3>1. NeededKeys \in [Jobs -> SUBSET AllKeys]
      BY <2>1, InitInv, KeysTyped DEF Inv, TypeOK, NeededKeys, KeysOf, VmOf
    <3>2. ExecutorsOf = [j \in Jobs |-> {}]
      BY <2>1 DEF Init, ExecutorsOf, InProgress
    <3> QED BY <2>1, <3>1, <3>2 DEF Init, JobLife!JobServiceInit
  <2> QED BY <2>1
<1>2. Inv /\ [Next]_vars => [JobLife!JobServiceNext]_(JobLife!serviceVars)
  BY ServedStep
<1> QED BY <1>1, <1>2, SpecInv, PTL DEF Spec, JobsServed, JobLife!JobServiceSpec

(* So it keeps the promise JobService makes: of all jobs in progress no    *)
(* two need the same key.                                                  *)
THEOREM PromiseHolds == Spec => []JobLife!Promise
<1>1. JobsServed => []JobLife!Promise
  BY MachineJobsAssumption, JobLife!PromiseKept DEF JobsServed
<1> QED BY <1>1, JobsServedCorrect, PTL

-----------------------------------------------------------------------------
(* Whose machine it is.                                                    *)

Mutates(j, v) == InProgress(j) /\ VmOf(j) = v /\ spec[j].type \in VmMutations

(* The handlers of the other types, as far as they have come *)
Watching ==
    \A j \in Jobs : InProgress(j) /\ spec[j].type \notin VmMutations =>
                        todo[j] \in {<<"reconcile", "succeed">>} \cup Observing

(* A handler that only looks at machines does nothing but that. *)
LEMMA WatchingStep ==
    ASSUME Inv, Watching, [Next]_vars
    PROVE  Watching'
<1> DEFINE Watch == {<<"reconcile", "succeed">>} \cup Observing
<1>p. /\ todo \in [Jobs -> Rests] /\ spec \in [Jobs -> Specs] /\ JobsInv /\ TypeOK
  BY DEF Inv, TypeOK, Shape, MachineInv
<1>1. ASSUME NEW k \in Jobs, Acts(k) PROVE Watching'
  <2>1. Moves(k)
    BY <1>1, StepMoves
  <2>2. UNCHANGED spec /\ \A j \in Jobs \ {k} : todo'[j] = todo[j]
    BY <2>1 DEF Moves, OthersKeep
  <2>3. SUFFICES ASSUME InProgress(k)', spec[k].type \notin VmMutations
                 PROVE  todo'[k] \in Watch
    BY <2>2 DEF Watching, InProgress
  <2>4. spec[k].type \in {"reconcile_vm_networking", "refresh_vm_runtime_state"}
    <3>1. spec[k].type \in Types
      BY <1>p DEF Specs
    <3> QED BY <2>3, <3>1 DEF Types, Handler, VmMutations
  <2>5. CASE Begins(k)
    BY <2>4, <2>5 DEF Begins, Handler, Observing
  <2>6. CASE InProgress(k) /\ GoesOn(k)
    <3>1. todo[k] \in Watch /\ todo'[k] = Tail(todo[k]) /\ Tail(todo[k]) # <<>>
      BY <2>3, <2>6 DEF Watching, GoesOn
    <3>2. CASE todo[k] = <<"reconcile", "succeed">>
      BY <3>1, <3>2 DEF Observing
    <3>3. CASE todo[k] = <<"observe", "storeState", "succeed">>
      BY <3>1, <3>3 DEF Observing
    <3>4. CASE todo[k] = <<"storeState", "succeed">>
      BY <3>1, <3>4 DEF Observing
    <3>5. CASE todo[k] = <<"succeed">>
      BY <3>1, <3>5
    <3> QED BY <3>1, <3>2, <3>3, <3>4, <3>5 DEF Observing
  <2>7. CASE TurnsToCleanUp(k)
    BY <2>4, <2>7 DEF TurnsToCleanUp, CleansUp, Maker, MakerTypes
  <2>8. CASE Ends(k) \/ Marked(k)
    BY <2>3, <2>8 DEF Ends, Marked, InProgress
  <2> QED BY <2>1, <2>5, <2>6, <2>7, <2>8 DEF Moves
<1>2. ASSUME NEW k \in Jobs, Enqueue(k) PROVE Watching'
  <2>1. status[k] = "absent" /\ UNCHANGED todo
    BY <1>2 DEF Enqueue
  <2>2. ~InProgress(k) /\ \A j \in Jobs \ {k} : spec'[j] = spec[j]
    BY <1>2, <1>p, <2>1 DEF Enqueue, JobsInv
  <2> QED BY <2>1, <2>2 DEF Watching, InProgress
<1>3. CASE RefreshStep \/ (\E v \in Vms : DeleteDefinition(v)) \/ UNCHANGED vars
  <2>1. UNCHANGED jobVars
    BY <1>3, <1>p, QuietSteps DEF Quiet
  <2> QED BY <2>1 DEF jobVars, Watching, InProgress
<1> QED BY <1>1, <1>2, <1>3 DEF Next, Acts

(* Whatever such a handler's call does, machines, snapshots and records    *)
(* stay as they are.                                                       *)
LEMMA WatchersTouchNothing ==
    ASSUME Inv, Watching, NEW k \in Jobs, Acts(k),
           ~InProgress(k) \/ spec[k].type \notin VmMutations
    PROVE  UNCHANGED <<machine, disk, records>>
<1>1. InProgress(k) =>
         Head(todo[k]) \in {"reconcile", "observe", "storeState", "succeed"}
  <2> SUFFICES ASSUME InProgress(k)
               PROVE  Head(todo[k]) \in {"reconcile", "observe", "storeState", "succeed"}
    OBVIOUS
  <2>1. todo[k] \in {<<"reconcile", "succeed">>} \cup Observing
    BY DEF Watching
  <2>2. CASE todo[k] = <<"reconcile", "succeed">>
    BY <2>2
  <2>3. CASE todo[k] = <<"observe", "storeState", "succeed">>
    BY <2>3
  <2>4. CASE todo[k] = <<"storeState", "succeed">>
    BY <2>4
  <2>5. CASE todo[k] = <<"succeed">>
    BY <2>5
  <2> QED BY <2>1, <2>2, <2>3, <2>4, <2>5 DEF Observing
<1>2. \A c : At(k, c) => c \in {"reconcile", "observe", "storeState", "succeed"}
  BY <1>1 DEF At
<1>3. Effect(k) => UNCHANGED <<machine, disk, records>>
  <2>1. Effect(k) => Observe(k) \/ Reconcile(k) \/ StoreState(k)
    BY <1>2 DEF Effect, Make, Destroy, Power, Restore, TakeSnapshot, Erase, DropState,
       StoreRecord, DropRecord
  <2> QED BY <2>1 DEF Observe, Reconcile, StoreState, world, tables, results
<1>4. ~HalfMake(k) /\ ~At(k, "cleanup")
  BY <1>2 DEF HalfMake
<1>5. Effect(k) \/ UNCHANGED <<world, tables, results>>
  BY <1>4 DEF Acts, JobStep, Start, StartCancelled, Begin, Find, Work, Refuse, Break,
     CleanUp, CleanUpFails, Succeed, Cancel, Vanish, SendBack
<1> QED BY <1>3, <1>5 DEF world, tables

(* At most one job in progress mutates a machine. *)
LEMMA OneMutates ==
    ASSUME JobLife!Promise, NEW v \in Vms, NEW i \in Jobs, NEW j \in Jobs,
           Mutates(i, v), Mutates(j, v)
    PROVE  i = j
<1>1. KeysOf(i) = {Key("vm", v)} /\ KeysOf(j) = {Key("vm", v)}
  BY MachineJobsAssumption DEF Mutates, KeysOf, ResourceKeysOf
<1>2. ExecutorsOf[i] # {} /\ ExecutorsOf[j] # {}
  BY DEF Mutates, ExecutorsOf
<1>3. NeededKeys[i] \cap NeededKeys[j] # {}
  BY <1>1 DEF NeededKeys
<1> QED BY <1>2, <1>3 DEF JobLife!Promise, JobLife!Alone

(* A machine, its snapshots and their records are changed by one job at a  *)
(* time, which is in progress and names this machine: not by the job that  *)
(* clones it, not by one that has been sent back, not by the refresh or    *)
(* the API.                                                                *)
OneWriter ==
    [][\A v \in Vms :
          \/ machine'[v] = machine[v] /\ disk'[v] = disk[v] /\ records'[v] = records[v]
          \/ \E j \in Jobs : /\ Mutates(j, v)
                             /\ \A i \in Jobs : Mutates(i, v) => i = j]_vars

(* Nobody writes to a machine but the one job in progress that has its     *)
(* lock: a job that mutates it finds no other in progress that does, and   *)
(* every other handler, as far as it has come, only looks.                 *)
THEOREM OneWriterHolds == Spec => OneWriter
<1> DEFINE Untouched(v) ==
             machine'[v] = machine[v] /\ disk'[v] = disk[v] /\ records'[v] = records[v]
           Written(v) ==
             \/ Untouched(v)
             \/ \E j \in Jobs : /\ Mutates(j, v)
                                /\ \A i \in Jobs : Mutates(i, v) => i = j
<1>1. Init => Watching
  BY DEF Init, Watching, InProgress
<1>2. Inv /\ Watching /\ [Next]_vars => Watching'
  BY WatchingStep
<1>3. ASSUME Inv, Watching, JobLife!Promise, [Next]_vars, NEW v \in Vms PROVE Written(v)
  <2>1. ASSUME NEW k \in Jobs, Acts(k) PROVE Written(v)
    <3>1. CASE ~InProgress(k) \/ spec[k].type \notin VmMutations
      BY <1>3, <2>1, <3>1, WatchersTouchNothing
    <3>2. CASE InProgress(k) /\ spec[k].type \in VmMutations
      <4>1. CASE VmOf(k) = v
        <5>1. Mutates(k, v)
          BY <3>2, <4>1 DEF Mutates
        <5> QED BY <1>3, <5>1, OneMutates
      <4>2. CASE VmOf(k) # v
        <5>1. Moves(k)
          BY <1>3, <2>1, StepMoves
        <5> QED BY <4>2, <5>1 DEF Moves, WorldTouched
      <4> QED BY <4>1, <4>2
    <3> QED BY <3>1, <3>2
  <2>2. ASSUME NEW k \in Jobs, Enqueue(k) PROVE Written(v)
    BY <2>2 DEF Enqueue, world
  <2>3. CASE RefreshStep \/ (\E u \in Vms : DeleteDefinition(u)) \/ UNCHANGED vars
    BY <1>3, <2>3, QuietSteps DEF Quiet, Inv, world
  <2> QED BY <1>3, <2>1, <2>2, <2>3 DEF Next, Acts
<1>4. Inv /\ Watching /\ JobLife!Promise /\ [Next]_vars => [\A v \in Vms : Written(v)]_vars
  BY <1>3
<1> QED BY <1>1, <1>2, <1>4, SpecInv, PromiseHolds, PTL DEF Spec, OneWriter

-----------------------------------------------------------------------------
(* What a round of the refresh achieves: the safety half of CacheConverges.*)

(* The refresh goes on, and nothing fails any more. *)
Calm == RefreshStep /\ UNCHANGED faults

CacheRight == \A v \in definitions : machine[v] # "absent" => cache[v] = machine[v]

RoundInv ==
    /\ \A v \in Vms : observed[v] # NoRow => v \in definitions /\ observed[v] = machine[v]
    /\ phase = "idle" => \A v \in Vms : observed[v] = NoRow
    /\ phase = "observe" =>
          /\ listed \subseteq definitions
          /\ \A v \in definitions \ listed : machine[v] # "absent" => observed[v] = machine[v]
    /\ phase = "write" =>
          \A v \in definitions : machine[v] # "absent" =>
                                    observed[v] = machine[v] \/ cache[v] = machine[v]

(* Between two rounds no observation is left over. *)
Rested == faults \in Nat /\ (phase = "idle" => \A v \in Vms : observed[v] = NoRow)

LEMMA FirstIn == ASSUME NEW S \in SUBSET Vms, S # {} PROVE First(S) \in S
  BY FirstAssumption DEF First

LEMMA RestedStep == ASSUME TypeOK, Rested, [Next]_vars PROVE Rested'
<1>1. faults' = faults \/ faults' = faults + 1
  BY Zenon DEF Next, vars, JobStep, Enqueue, Cancel, StartCancelled, Start, Begin, Find, Work,
     Refuse, CleanUp, Succeed, Break, CleanUpFails, Vanish, SendBack, DeleteDefinition,
     RefreshStep, RefreshList, RefreshObserve, RefreshSkip, RefreshTurn, RefreshWrite, RefreshEnd
<1>2. RefreshStep \/ UNCHANGED refreshVars
  BY Zenon DEF Next, vars, JobStep, Enqueue, Cancel, StartCancelled, Start, Begin, Find, Work,
     Refuse, CleanUp, Succeed, Break, CleanUpFails, Vanish, SendBack, DeleteDefinition,
     refreshVars
<1>3. RefreshStep => (phase' = "idle" => \A v \in Vms : observed'[v] = NoRow)
  BY DEF RefreshStep, RefreshList, RefreshObserve, RefreshSkip, RefreshTurn, RefreshWrite,
     RefreshEnd
<1> QED BY <1>1, <1>2, <1>3 DEF Rested, refreshVars

(* In a calm round the observations that have still to be written are the  *)
(* machines', all of machines that may be written.                         *)
LEMMA RoundStep ==
    ASSUME TypeOK, Rested, RoundInv, [Calm]_vars
    PROVE  /\ RoundInv'
           /\ phase = "write" /\ phase' = "idle" => CacheRight'
           /\ CacheRight => CacheRight'
<1> DEFINE Goal == /\ RoundInv'
                   /\ phase = "write" /\ phase' = "idle" => CacheRight'
                   /\ CacheRight => CacheRight'
<1>p. /\ machine \in [Vms -> States] /\ observed \in [Vms -> States \cup {NoRow}]
      /\ cache \in [Vms -> States \cup {NoRow}] /\ definitions \subseteq Vms /\ listed \subseteq Vms
      /\ NoRow \notin States
  BY MachineJobsAssumption DEF TypeOK, States
<1>f. Calm => ~(faults' = faults + 1)
  BY DEF Calm, Rested
<1>1. CASE Calm /\ RefreshList
  BY <1>1, <1>p DEF RefreshList, RoundInv, CacheRight, world, tables
<1>2. CASE Calm /\ RefreshObserve
  <2>1. PICK v \in listed : v = First(listed)
    BY <1>2, <1>p, FirstIn DEF RefreshObserve
  <2>2. /\ listed' = listed \ {v} /\ observed' = [observed EXCEPT ![v] = machine[v]]
        /\ phase = "observe" /\ UNCHANGED <<machine, definitions, cache, phase>>
    BY <1>2, <2>1 DEF RefreshObserve, world, tables
  <2> QED BY <2>2, <1>p DEF RoundInv, CacheRight
<1>3. CASE Calm /\ RefreshSkip
  <2>1. PICK v \in listed : v = First(listed)
    BY <1>3, <1>p, FirstIn DEF RefreshSkip
  <2>2. /\ listed' = listed \ {v} /\ machine[v] = "absent"
        /\ phase = "observe" /\ UNCHANGED <<machine, definitions, cache, phase, observed>>
    BY <1>3, <1>f, <2>1 DEF RefreshSkip, Unobserved, world, tables
  <2> QED BY <2>2, <1>p DEF RoundInv, CacheRight
<1>4. CASE Calm /\ RefreshTurn
  BY <1>4, <1>p DEF RefreshTurn, RoundInv, CacheRight, world, tables
<1>5. CASE Calm /\ RefreshWrite
  <2>1. PICK v \in Vms : v = First(Unwritten) /\ observed[v] # NoRow
    BY <1>5, FirstIn DEF RefreshWrite, Unwritten
  <2>2. /\ cache' = [cache EXCEPT ![v] = observed[v]]
        /\ observed' = [observed EXCEPT ![v] = NoRow]
        /\ phase = "write" /\ UNCHANGED <<machine, definitions, phase>>
    BY <1>5, <2>1 DEF RefreshWrite, world
  <2>3. observed[v] = machine[v]
    BY <2>1 DEF RoundInv
  <2> QED BY <2>2, <2>3, <1>p DEF RoundInv, CacheRight
<1>6. CASE Calm /\ RefreshEnd
  <2>1. Unwritten # {} => Defined(First(Unwritten))
    <3> SUFFICES ASSUME Unwritten # {} PROVE Defined(First(Unwritten))
      OBVIOUS
    <3>1. First(Unwritten) \in Unwritten
      BY FirstIn DEF Unwritten
    <3> QED BY <3>1 DEF Unwritten, RoundInv, Defined
  <2>2. Unwritten = {} /\ phase = "write"
    BY <1>6, <1>f, <2>1 DEF RefreshEnd
  <2>3. \A v \in Vms : observed[v] = NoRow
    BY <2>2 DEF Unwritten
  <2>4. CacheRight
    BY <2>2, <2>3, <1>p DEF RoundInv, CacheRight
  <2>5. /\ phase' = "idle" /\ observed' = [v \in Vms |-> NoRow]
        /\ UNCHANGED <<machine, definitions, cache>>
    BY <1>6 DEF RefreshEnd, world, tables
  <2> QED BY <2>4, <2>5 DEF RoundInv, CacheRight
<1>7. CASE UNCHANGED vars
  BY <1>7 DEF vars, RoundInv, CacheRight
<1> QED BY <1>1, <1>2, <1>3, <1>4, <1>5, <1>6, <1>7 DEF Calm, RefreshStep

(* Whatever the rows say, and whatever jobs, failures and earlier rounds   *)
(* have left in them: a round during which nothing else happens makes the  *)
(* row of every defined machine that is there right, and later rounds keep *)
(* it so.                                                                  *)
CalmRounds ==
    [](phase = "idle" /\ [][Calm]_vars =>
          /\ [][phase = "write" /\ phase' = "idle" => CacheRight']_vars
          /\ [](CacheRight => []CacheRight))

(* The refresh settles the cache, for any number of machines: every        *)
(* observation of such a round is of a defined machine and still true when *)
(* it is written, and no machine is passed over.                           *)
THEOREM CalmRoundsSettle == Spec => CalmRounds
<1>1. Init => Rested
  BY DEF Init, Rested
<1>2. TypeOK /\ Rested /\ [Next]_vars => Rested'
  BY RestedStep
<1>3. Rested /\ phase = "idle" => RoundInv
  BY DEF Rested, RoundInv
<1>4. TypeOK /\ Rested /\ RoundInv /\ [Calm]_vars => RoundInv'
  BY RoundStep
<1>5. TypeOK /\ Rested /\ RoundInv /\ [Calm]_vars =>
         [phase = "write" /\ phase' = "idle" => CacheRight']_vars
  BY RoundStep
<1>6. TypeOK /\ Rested /\ RoundInv /\ [Calm]_vars => (CacheRight => CacheRight')
  BY RoundStep
<1> QED BY <1>1, <1>2, <1>3, <1>4, <1>5, <1>6, TypesHold, PTL DEF Spec, CalmRounds
=============================================================================
