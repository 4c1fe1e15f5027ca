---------------------------- MODULE ResourceKeys ----------------------------
(***************************************************************************)
(* JobExecutor.get_resource_locks (hlvmp_worker/executor.py): the keys a   *)
(* job has to hold while it runs.  A key is its prefix and the id behind   *)
(* the colon; the list is sorted, and the prefixes decide the order.       *)
(***************************************************************************)
EXTENDS Naturals

CONSTANT NoVm   \* a job without targetVmId

VmMutations == {"provision_vm", "destroy_vm", "clone_vm", "start_vm", "stop_vm",
                "snapshot_create", "snapshot_restore", "snapshot_delete"}

Key(prefix, id) == <<prefix, id>>

ResourceKeysOf(type, host, vm) ==
    IF type \in VmMutations /\ vm # NoVm THEN {Key("vm", vm)}
    ELSE IF type = "reconcile_vm_networking"
         THEN {Key("firewall", host), Key("network", host)}
    ELSE {Key("host", host)}

(* sorted(locks): the keys of one job differ in their prefixes. *)
PrefixRank == [firewall |-> 1, host |-> 2, network |-> 3, vm |-> 4]

RankOf(k) == PrefixRank[k[1]]
=============================================================================
