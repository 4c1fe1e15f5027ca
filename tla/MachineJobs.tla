---------------------------- MODULE MachineJobs ----------------------------
(***************************************************************************)
(* What the jobs do to the virtual machines, and what the tables then say  *)
(* of them: the handlers of JobExecutor (hlvmp_worker/executor.py), the    *)
(* persistence of their results and the background refresh of the cache    *)
(* (hlvmp_worker/worker.py), over the tables of definitions, runtime       *)
(* states and snapshot records (repository.js).                            *)
(*                                                                         *)
(* A handler is the list of calls it makes, to the provisioner and to the  *)
(* service; a call does its work, is refused because of the state it       *)
(* finds, or breaks, in which case its work may be done all the same.  The *)
(* provisioner (service_mode) is external: where its behaviour does not    *)
(* show from here, both outcomes are allowed.                              *)
(*                                                                         *)
(* Claims, locks and the calls that mark a job are taken together to what  *)
(* JobService allows, which JobProcessing implements: a job is executed by *)
(* one thread at a time, jobs that share a key do not overlap, a thread    *)
(* may die, and one that has lost a race may send a job back.  Log         *)
(* collection and job events are left out.                                 *)
(***************************************************************************)
EXTENDS Naturals, Sequences, FiniteSets, ResourceKeys

CONSTANTS
    Vms,          \* names of machines; numbers, for ORDER BY vm_name
    Jobs,
    Host,         \* the host of the machines and of the workers
    Existing,     \* the machines there at the beginning
    MaxAttempts,  \* max_attempts of a job
    MaxFaults,    \* bound: calls that break, threads that die, lost races
    MaxDeletes,   \* bound: definitions deleted by the API
    NoRow         \* no row in vm_runtime_state

ASSUME MachineJobsAssumption ==
    /\ Vms \subseteq Nat
    /\ Vms # {}
    /\ NoVm \notin Vms
    /\ Existing \subseteq Vms
    /\ MaxAttempts \in Nat \ {0}
    /\ MaxFaults \in Nat
    /\ MaxDeletes \in Nat
    /\ NoRow \notin {"absent", "off", "running"}

(* What any set of numbers has, said for the provers *)
ASSUME FirstAssumption ==
    \A S \in SUBSET Vms : S # {} => \E v \in S : \A u \in S : v <= u

VARIABLES
    machine,      \* machine[v]: what libvirt has under this name
    disk,         \* disk[v]: the snapshots of v that exist
    nextSnap,     \* the provisioner's next snapshot id
    definitions,  \* vm_definitions
    cache,        \* vm_runtime_state: cache[v] is the state of v's row
    records,      \* vm_snapshots: the snapshot ids recorded for v
    spec,         \* spec[j]: type and payload of job j
    status, attempts,
    todo,         \* todo[j]: the calls the thread of job j has still to make
    seen,         \* seen[j]: the runtime state its handler returns
    snap,         \* snap[j]: the snapshot id of its payload or its result
    phase,        \* the background refresh: "idle", "observe" or "write"
    listed,       \* the machines it has still to observe
    observed,     \* observed[v]: the state it will write
    faults, deletes,
    leftBehind,   \* history: machines a failed job could not take back
    unrecorded    \* history: snapshots whose record could not be written

world == <<machine, disk, nextSnap>>
tables == <<definitions, cache, records>>
results == <<seen, snap>>
jobVars == <<spec, status, attempts, todo>>
refreshVars == <<phase, listed, observed>>
historyVars == <<leftBehind, unrecorded>>
vars == <<machine, disk, nextSnap, definitions, cache, records, spec, status,
          attempts, todo, seen, snap, phase, listed, observed, faults, deletes,
          leftBehind, unrecorded>>

-----------------------------------------------------------------------------
States == {"absent", "off", "running"}

(* Mutation: the record is dropped before the snapshot is deleted. *)
DeletionMutant == <<"lookup", "dropRecord", "erase", "succeed">>

Deletion == <<"lookup", "erase", "dropRecord", "succeed">>

(* Mutation: the job is reported done before the record is written. *)
SnapshottingMutant == <<"load", "snapshot", "succeed", "storeRecord">>

Snapshotting == <<"load", "snapshot", "storeRecord", "succeed">>

(* Each handler, with what _process_job does with its result: the calls in *)
(* their order.  A read that precedes another call and can only break is   *)
(* part of it.                                                             *)
Handler ==
    [provision_vm     |-> <<"load", "create", "observe", "storeState", "succeed">>,
     clone_vm         |-> <<"load", "clone", "observe", "storeState", "succeed">>,
     destroy_vm       |-> <<"destroy", "dropState", "succeed">>,
     start_vm         |-> <<"start", "observe", "storeState", "succeed">>,
     stop_vm          |-> <<"stop", "observe", "storeState", "succeed">>,
     snapshot_create  |-> Snapshotting,
     snapshot_restore |-> <<"lookup", "restore", "observe", "storeState", "succeed">>,
     snapshot_delete  |-> Deletion,
     reconcile_vm_networking  |-> <<"reconcile", "succeed">>,
     refresh_vm_runtime_state |-> <<"observe", "storeState", "succeed">>]

Types == DOMAIN Handler

(* The jobs that make the machine they name, and clean up after a failure *)
MakerTypes == {"provision_vm", "clone_vm"}

Specs == [type : Types, vm : Vms, source : Vms]

VmOf(j) == spec[j].vm

Maker(j) == spec[j].type \in MakerTypes

KeysOf(j) == ResourceKeysOf(spec[j].type, Host, VmOf(j))

InProgress(j) == todo[j] # <<>>

At(j, call) == InProgress(j) /\ Head(todo[j]) = call

First(S) == CHOOSE v \in S : \A u \in S : v <= u

Init ==
    /\ machine = [v \in Vms |-> IF v \in Existing THEN "running" ELSE "absent"]
    /\ disk = [v \in Vms |-> IF v \in Existing THEN {0} ELSE {}]
    /\ nextSnap = 1
    /\ definitions = Existing
    /\ cache = [v \in Vms |-> IF v \in Existing THEN "running" ELSE NoRow]
    /\ records = disk
    /\ spec = [j \in Jobs |-> CHOOSE s \in Specs : TRUE]
    /\ status = [j \in Jobs |-> "absent"]
    /\ attempts = [j \in Jobs |-> 0]
    /\ todo = [j \in Jobs |-> <<>>]
    /\ seen = [j \in Jobs |-> NoRow]
    /\ snap = [j \in Jobs |-> 0]
    /\ phase = "idle"
    /\ listed = {}
    /\ observed = [v \in Vms |-> NoRow]
    /\ faults = 0
    /\ deletes = 0
    /\ leftBehind = {}
    /\ unrecorded = {}

-----------------------------------------------------------------------------
(* The API, as far as the service's endpoints show it. *)

(* A provision or a clone is enqueued together with the definition of its  *)
(* machine, and a snapshot is restored or deleted by the id of a record.   *)
(* Only a clone has a source.  target_vm_id is the machine of the payload, *)
(* which the tests show and the API alone decides.                         *)
Enqueue(j) ==
    /\ status[j] = "absent"
    /\ status' = [status EXCEPT ![j] = "queued"]
    /\ \E s \in Specs :
          /\ s.source # s.vm <=> s.type = "clone_vm"
          /\ spec' = [spec EXCEPT ![j] = s]
          /\ IF s.type \in MakerTypes
             THEN definitions' = definitions \cup {s.vm}
             ELSE UNCHANGED definitions
          /\ IF s.type \in {"snapshot_restore", "snapshot_delete"}
             THEN \E n \in records[s.vm] : snap' = [snap EXCEPT ![j] = n]
             ELSE UNCHANGED snap
    /\ UNCHANGED <<world, cache, records, attempts, todo, seen, refreshVars,
                   faults, deletes, historyVars>>

Cancel(j) ==
    /\ status[j] = "queued"
    /\ status' = [status EXCEPT ![j] = "cancelled"]
    /\ UNCHANGED <<world, tables, spec, attempts, todo, results, refreshVars,
                   faults, deletes, historyVars>>

(* deleteVmDefinition; the row of the runtime state goes with it (ON       *)
(* DELETE CASCADE), snapshot records do not                                *)
DeleteDefinition(v) ==
    /\ deletes < MaxDeletes
    /\ v \in definitions
    /\ deletes' = deletes + 1
    /\ definitions' = definitions \ {v}
    /\ cache' = [cache EXCEPT ![v] = NoRow]
    /\ UNCHANGED <<world, records, jobVars, results, refreshVars, faults, historyVars>>

-----------------------------------------------------------------------------
(* How a job goes on. *)

(* Mutation: nobody looks whether the keys are locked. *)
LockedMutant(j) == FALSE

Locked(j) == \E i \in Jobs : InProgress(i) /\ KeysOf(i) \cap KeysOf(j) # {}

(* Locked and marked running *)
Begin(j) ==
    /\ ~Locked(j)
    /\ status' = [status EXCEPT ![j] = "running"]
    /\ attempts' = [attempts EXCEPT ![j] = @ + 1]
    /\ todo' = [todo EXCEPT ![j] = Handler[spec[j].type]]
    /\ UNCHANGED <<world, tables, spec, results, refreshVars, faults, deletes, historyVars>>

Start(j) == status[j] = "queued" /\ Begin(j)

(* The claim came before the cancellation. *)
StartCancelled(j) == status[j] = "cancelled" /\ Begin(j)

Continue(j) ==
    /\ todo' = [todo EXCEPT ![j] = Tail(@)]
    /\ UNCHANGED <<spec, status, attempts, historyVars>>

(* Mutation: one attempt more than max_attempts *)
SettleMutant(j, retriable) ==
    /\ todo' = [todo EXCEPT ![j] = <<>>]
    /\ status' = [status EXCEPT
                    ![j] = IF retriable /\ attempts[j] <= MaxAttempts THEN "queued" ELSE "failed"]
    /\ UNCHANGED <<spec, attempts>>

(* mark_job_failed *)
Settle(j, retriable) ==
    /\ todo' = [todo EXCEPT ![j] = <<>>]
    /\ status' = [status EXCEPT
                    ![j] = IF retriable /\ attempts[j] < MaxAttempts THEN "queued" ELSE "failed"]
    /\ UNCHANGED <<spec, attempts>>

(* Mutation: the observation is taken out of the try block. *)
CleansUpMutant(j) == Maker(j) /\ Head(todo[j]) \in {"create", "clone"}

(* The calls in the try block of the two makers, whose exception handler   *)
(* destroys the machine                                                    *)
CleansUp(j) == Maker(j) /\ Head(todo[j]) \in {"create", "clone", "observe"}

(* Snapshots that nobody will record any more *)
NoteUnrecorded(j) ==
    unrecorded' = IF Head(todo[j]) \in {"snapshot", "storeRecord"}
                  THEN unrecorded \cup (disk'[VmOf(j)] \ records'[VmOf(j)])
                  ELSE unrecorded

(* An exception from the current call; after the handler has returned      *)
(* nothing is taken back.                                                  *)
Raise(j) ==
    /\ IF CleansUp(j)
       THEN todo' = [todo EXCEPT ![j] = <<"cleanup">>] /\ UNCHANGED <<spec, status, attempts>>
       ELSE Settle(j, TRUE)
    /\ leftBehind' = IF Maker(j) /\ Head(todo[j]) \in {"storeState", "succeed"}
                     THEN leftBehind \cup {VmOf(j)} ELSE leftBehind
    /\ NoteUnrecorded(j)

-----------------------------------------------------------------------------
(* The work of a call. *)

SetMachine(j, state) ==
    /\ machine' = [machine EXCEPT ![VmOf(j)] = state]
    /\ UNCHANGED <<disk, nextSnap, tables, results>>

Sourced(j) == At(j, "clone") => machine[spec[j].source] # "absent"

(* service_mode.create_vm and clone_vm *)
Make(j) ==
    /\ At(j, "create") \/ At(j, "clone")
    /\ Sourced(j)
    /\ SetMachine(j, "running")

(* Whether its snapshots go with the machine does not show from here. *)
Unmake(v) ==
    /\ machine' = [machine EXCEPT ![v] = "absent"]
    /\ disk' \in {disk, [disk EXCEPT ![v] = {}]}
    /\ UNCHANGED <<nextSnap, tables, results>>

Destroy(j) == At(j, "destroy") /\ Unmake(VmOf(j))

Power(j) ==
    /\ machine[VmOf(j)] # "absent"
    /\ \/ At(j, "start") /\ SetMachine(j, "running")
       \/ At(j, "stop") /\ SetMachine(j, "off")

Restore(j) ==
    /\ At(j, "restore")
    /\ machine[VmOf(j)] # "absent"
    /\ snap[j] \in disk[VmOf(j)]
    /\ \E state \in {"off", "running"} : SetMachine(j, state)

TakeSnapshot(j) ==
    /\ At(j, "snapshot")
    /\ machine[VmOf(j)] # "absent"
    /\ disk' = [disk EXCEPT ![VmOf(j)] = @ \cup {nextSnap}]
    /\ snap' = [snap EXCEPT ![j] = nextSnap]
    /\ nextSnap' = nextSnap + 1
    /\ UNCHANGED <<machine, tables, seen>>

Erase(j) ==
    /\ At(j, "erase")
    /\ disk' = [disk EXCEPT ![VmOf(j)] = @ \ {snap[j]}]
    /\ UNCHANGED <<machine, nextSnap, tables, results>>

(* service_mode.refresh_vm_runtime_state: looks, and changes nothing *)
Observe(j) ==
    /\ At(j, "observe")
    /\ seen' = [seen EXCEPT ![j] = machine[VmOf(j)]]
    /\ UNCHANGED <<world, tables, snap>>

Reconcile(j) == At(j, "reconcile") /\ UNCHANGED <<world, tables, results>>

(* The foreign key of vm_runtime_state *)
Defined(v) == v \in definitions

StoreState(j) ==
    /\ At(j, "storeState")
    /\ Defined(VmOf(j))
    /\ cache' = [cache EXCEPT ![VmOf(j)] = seen[j]]
    /\ UNCHANGED <<world, definitions, records, results>>

DropState(j) ==
    /\ At(j, "dropState")
    /\ cache' = [cache EXCEPT ![VmOf(j)] = NoRow]
    /\ UNCHANGED <<world, definitions, records, results>>

StoreRecord(j) ==
    /\ At(j, "storeRecord")
    /\ records' = [records EXCEPT ![VmOf(j)] = @ \cup {snap[j]}]
    /\ UNCHANGED <<world, definitions, cache, results>>

DropRecord(j) ==
    /\ At(j, "dropRecord")
    /\ records' = [records EXCEPT ![VmOf(j)] = @ \ {snap[j]}]
    /\ UNCHANGED <<world, definitions, cache, results>>

Effect(j) ==
    \/ Make(j) \/ Destroy(j) \/ Power(j) \/ Restore(j)
    \/ TakeSnapshot(j) \/ Erase(j) \/ Observe(j) \/ Reconcile(j)
    \/ StoreState(j) \/ DropState(j) \/ StoreRecord(j) \/ DropRecord(j)

(* The states in which a call has, or may have, nothing to work on: a      *)
(* machine that is already there, one that is not, a missing snapshot, a   *)
(* definition that was deleted                                             *)
Refusable(j) ==
    \/ (At(j, "create") \/ At(j, "clone")) /\ machine[VmOf(j)] # "absent"
    \/ ~Sourced(j)
    \/ /\ \E c \in {"destroy", "start", "stop", "restore", "snapshot", "observe"} : At(j, c)
       /\ machine[VmOf(j)] = "absent"
    \/ (At(j, "restore") \/ At(j, "erase")) /\ snap[j] \notin disk[VmOf(j)]
    \/ At(j, "storeState") /\ ~Defined(VmOf(j))

(* A make that breaks may have got some way. *)
HalfMake(j) ==
    /\ At(j, "create") \/ At(j, "clone")
    /\ machine[VmOf(j)] = "absent"
    /\ SetMachine(j, "off")

-----------------------------------------------------------------------------
(* The steps of a job. *)

(* _load_vm_definition and get_vm_snapshot: what is not found is not       *)
(* looked for again.                                                       *)
Find(j) ==
    /\ \/ At(j, "load") /\ IF Defined(VmOf(j)) THEN Continue(j)
                                                ELSE Settle(j, FALSE) /\ UNCHANGED historyVars
       \/ At(j, "lookup") /\ IF snap[j] \in records[VmOf(j)] THEN Continue(j)
                                                ELSE Settle(j, FALSE) /\ UNCHANGED historyVars
    /\ UNCHANGED <<world, tables, results, refreshVars, faults, deletes>>

Work(j) ==
    /\ Effect(j)
    /\ Continue(j)
    /\ UNCHANGED <<refreshVars, faults, deletes>>

Refuse(j) ==
    /\ InProgress(j)
    /\ Refusable(j)
    /\ UNCHANGED <<world, tables, results, refreshVars, faults, deletes>>
    /\ Raise(j)

(* A call that breaks, its work done, half done or not done.  Whether      *)
(* mark_job_succeeded did its work makes no difference: mark_job_failed    *)
(* overwrites it.                                                          *)
Break(j) ==
    /\ InProgress(j)
    /\ ~At(j, "cleanup")
    /\ faults < MaxFaults
    /\ faults' = faults + 1
    /\ Effect(j) \/ HalfMake(j) \/ UNCHANGED <<world, tables, results>>
    /\ Raise(j)
    /\ UNCHANGED <<refreshVars, deletes>>

(* Mutation: a failed clone destroys its source. *)
WreckMutant(j) == spec[j].source

(* The machine the exception handler destroys *)
Wreck(j) == VmOf(j)

CleanUp(j) ==
    /\ At(j, "cleanup")
    /\ Unmake(Wreck(j))
    /\ Settle(j, TRUE)
    /\ UNCHANGED <<refreshVars, faults, deletes, historyVars>>

(* Its error is logged and dropped; what it did is done. *)
CleanUpFails(j) ==
    /\ At(j, "cleanup")
    /\ faults < MaxFaults
    /\ faults' = faults + 1
    /\ leftBehind' = leftBehind \cup {VmOf(j)}
    /\ Unmake(Wreck(j)) \/ UNCHANGED <<world, tables, results>>
    /\ Settle(j, TRUE)
    /\ UNCHANGED <<refreshVars, deletes, unrecorded>>

(* The worker is killed in the middle of a call, or mark_job_failed fails: *)
(* the job stays running, and nobody executes it.                          *)
Vanish(j) ==
    /\ InProgress(j)
    /\ faults < MaxFaults
    /\ faults' = faults + 1
    /\ \/ Effect(j) \/ HalfMake(j) \/ UNCHANGED <<world, tables, results>>
       \/ At(j, "cleanup") /\ Unmake(Wreck(j))
    /\ todo' = [todo EXCEPT ![j] = <<>>]
    /\ leftBehind' = IF Maker(j) /\ ~At(j, "load") THEN leftBehind \cup {VmOf(j)}
                                                   ELSE leftBehind
    /\ NoteUnrecorded(j)
    /\ UNCHANGED <<spec, status, attempts, refreshVars, deletes>>

(* A thread that had claimed the job as well could not start it, and marks *)
(* it failed, whatever has become of it.                                   *)
SendBack(j) ==
    /\ status[j] # "absent"
    /\ ~InProgress(j)
    /\ faults < MaxFaults
    /\ faults' = faults + 1
    /\ Settle(j, TRUE)
    /\ leftBehind' = IF Maker(j) /\ status[j] = "succeeded" THEN leftBehind \cup {VmOf(j)}
                                                            ELSE leftBehind
    /\ UNCHANGED <<world, tables, results, refreshVars, deletes, unrecorded>>

Succeed(j) ==
    /\ At(j, "succeed")
    /\ status' = [status EXCEPT ![j] = "succeeded"]
    /\ todo' = [todo EXCEPT ![j] = Tail(@)]
    /\ UNCHANGED <<world, tables, spec, attempts, results, refreshVars, faults,
                   deletes, historyVars>>

-----------------------------------------------------------------------------
(* _refresh_runtime_state_caches: all the machines are observed before the *)
(* first row is written; it takes no lock.                                 *)

RefreshList ==
    /\ phase = "idle"
    /\ phase' = "observe"
    /\ listed' = definitions
    /\ UNCHANGED <<world, tables, jobVars, results, observed, faults, deletes, historyVars>>

RefreshObserve ==
    /\ phase = "observe"
    /\ listed # {}
    /\ listed' = listed \ {First(listed)}
    /\ observed' = [observed EXCEPT ![First(listed)] = machine[First(listed)]]
    /\ UNCHANGED <<world, tables, jobVars, results, phase, faults, deletes, historyVars>>

(* Mutation: the round goes on without the rest of the list. *)
UnobservedMutant == {}

(* except Exception: continue.  The machine is skipped. *)
Unobserved == listed \ {First(listed)}

RefreshSkip ==
    /\ phase = "observe"
    /\ listed # {}
    /\ \/ machine[First(listed)] = "absent" /\ UNCHANGED faults
       \/ faults < MaxFaults /\ faults' = faults + 1
    /\ listed' = Unobserved
    /\ UNCHANGED <<world, tables, jobVars, results, phase, observed, deletes, historyVars>>

RefreshTurn ==
    /\ phase = "observe"
    /\ listed = {}
    /\ phase' = "write"
    /\ UNCHANGED <<world, tables, jobVars, results, listed, observed, faults, deletes, historyVars>>

Unwritten == {v \in Vms : observed[v] # NoRow}

RefreshWrite ==
    /\ phase = "write"
    /\ Unwritten # {}
    /\ Defined(First(Unwritten))
    /\ cache' = [cache EXCEPT ![First(Unwritten)] = observed[First(Unwritten)]]
    /\ observed' = [observed EXCEPT ![First(Unwritten)] = NoRow]
    /\ UNCHANGED <<world, definitions, records, jobVars, results, phase, listed,
                   faults, deletes, historyVars>>

(* The first row that cannot be written ends the round, and so does the    *)
(* end of the list.                                                        *)
RefreshEnd ==
    /\ phase = "write"
    /\ \/ Unwritten = {} /\ UNCHANGED faults
       \/ Unwritten # {} /\ ~Defined(First(Unwritten)) /\ UNCHANGED faults
       \/ Unwritten # {} /\ faults < MaxFaults /\ faults' = faults + 1
    /\ phase' = "idle"
    /\ observed' = [v \in Vms |-> NoRow]
    /\ UNCHANGED <<world, tables, jobVars, results, listed, deletes, historyVars>>

RefreshStep ==
    \/ RefreshList \/ RefreshObserve \/ RefreshSkip \/ RefreshTurn
    \/ RefreshWrite \/ RefreshEnd

JobStep(j) ==
    Start(j) \/ Find(j) \/ Work(j) \/ Refuse(j) \/ CleanUp(j) \/ Succeed(j)

Next ==
    \/ \E j \in Jobs :
         \/ Enqueue(j) \/ Cancel(j) \/ StartCancelled(j) \/ JobStep(j)
         \/ Break(j) \/ CleanUpFails(j) \/ Vanish(j) \/ SendBack(j)
    \/ \E v \in Vms : DeleteDefinition(v)
    \/ RefreshStep

Spec == Init /\ [][Next]_vars

(* The threads of the jobs are scheduled and their calls end; the main     *)
(* loop comes back to the refresh.                                         *)
FairSpec ==
    /\ Spec
    /\ \A j \in Jobs : WF_vars(JobStep(j))
    /\ WF_vars(RefreshStep)

-----------------------------------------------------------------------------
TypeOK ==
    /\ machine \in [Vms -> States]
    /\ disk \in [Vms -> SUBSET Nat]
    /\ nextSnap \in Nat
    /\ definitions \subseteq Vms
    /\ cache \in [Vms -> States \cup {NoRow}]
    /\ records \in [Vms -> SUBSET Nat]
    /\ spec \in [Jobs -> Specs]
    /\ status \in [Jobs -> {"absent", "queued", "running", "succeeded", "failed", "cancelled"}]
    /\ attempts \in [Jobs -> 0 .. MaxAttempts]
    /\ seen \in [Jobs -> States \cup {NoRow}]
    /\ snap \in [Jobs -> Nat]
    /\ phase \in {"idle", "observe", "write"}
    /\ listed \subseteq Vms
    /\ observed \in [Vms -> States \cup {NoRow}]
    /\ leftBehind \subseteq Vms
    /\ unrecorded \subseteq Nat

(* A provision or a clone that fails leaves no machine: whatever exists    *)
(* was made by a job that succeeded or is still at it, unless the failure  *)
(* came after the handler had returned, its clean-up failed too, its       *)
(* thread died, or the job was sent back after it had succeeded.           *)
MachinesHaveMakers ==
    \A v \in Vms \ (Existing \cup leftBehind) :
        machine[v] # "absent" =>
            \E j \in Jobs : Maker(j) /\ VmOf(j) = v
                            /\ (status[j] = "succeeded" \/ InProgress(j))

(* A job that may have taken the machine v away *)
Threatens(j, v) ==
    VmOf(j) = v /\ attempts[j] > 0 /\ (Maker(j) \/ spec[j].type = "destroy_vm")

OnlyThreat(j) == \A i \in Jobs : Threatens(i, VmOf(j)) => i = j

(* A machine that was there, or whose provision or clone succeeded, stays  *)
(* until a job is executed that makes or destroys this machine: no failure *)
(* and clean-up of another machine's job harms it, the one that clones it  *)
(* included.                                                               *)
MachinesStay ==
    /\ \A v \in Existing : (\A j \in Jobs : ~Threatens(j, v)) => machine[v] # "absent"
    /\ \A j \in Jobs : Maker(j) /\ status[j] = "succeeded" /\ OnlyThreat(j)
                            => machine[VmOf(j)] # "absent"

(* A record is deleted only when its snapshot is: whatever breaks between  *)
(* the two, the snapshot can still be found and deleted again.             *)
RecordsOutlive ==
    [][\A v \in Vms : (records[v] \ records'[v]) \cap disk'[v] = {}]_vars

(* A snapshot that exists is recorded, or the job that took it is about to *)
(* record it, or broke on the way.                                         *)
SnapshotsRecorded ==
    \A v \in Vms : \A n \in disk[v] \ unrecorded :
        \/ n \in records[v]
        \/ \E j \in Jobs : At(j, "storeRecord") /\ VmOf(j) = v /\ snap[j] = n

(* What makes the four of them inductive: how far a job has come says what *)
(* it has done to its machine, and snapshot ids are not used twice.        *)
JobsInv ==
    \A j \in Jobs :
        /\ InProgress(j) => status[j] = "running" /\ attempts[j] > 0
        /\ status[j] = "absent" => attempts[j] = 0
        /\ status[j] \in {"queued", "cancelled"} => attempts[j] < MaxAttempts

IdsInv ==
    /\ \A v \in Vms : \A n \in disk[v] \cup records[v] : n < nextSnap
    /\ \A j \in Jobs : snap[j] < nextSnap

ErasedInv == \A j \in Jobs : At(j, "dropRecord") => snap[j] \notin disk[VmOf(j)]

(* Its make has been done in this attempt. *)
HasMade(j) == Maker(j) /\ \E c \in {"observe", "storeState", "succeed"} : At(j, c)

StayInv ==
    \A j \in Jobs : HasMade(j) /\ OnlyThreat(j) => machine[VmOf(j)] # "absent"

MakersInv ==
    \A v \in Vms \ (Existing \cup leftBehind) :
        machine[v] # "absent" =>
            \E j \in Jobs : Maker(j) /\ VmOf(j) = v
                /\ (status[j] = "succeeded" \/ HasMade(j) \/ At(j, "cleanup"))

MachineInv == JobsInv /\ IdsInv /\ ErasedInv /\ StayInv /\ MakersInv

(* Handlers, retries, clean-ups and dying threads keep to what JobService  *)
(* allows, the serialization by keys included.  The thread that executes a *)
(* job goes by the job's name.                                             *)
AllKeys == {Key(p, id) : p \in DOMAIN PrefixRank, id \in Vms \cup {Host}}

ExecutorsOf == [j \in Jobs |-> IF InProgress(j) THEN {j} ELSE {}]

NeededKeys == [j \in Jobs |-> KeysOf(j)]

JobLife == INSTANCE JobService
    WITH Slots <- Jobs, Keys <- AllKeys, tries <- attempts,
         executors <- ExecutorsOf, keys <- NeededKeys, lost <- {}

JobsServed == JobLife!JobServiceSpec

(* However refreshes and jobs overwrite one another, in the end the row of *)
(* every machine that is there says what it does.                          *)
CacheConverges ==
    <>[](\A v \in definitions : machine[v] # "absent" => cache[v] = machine[v])
=============================================================================
