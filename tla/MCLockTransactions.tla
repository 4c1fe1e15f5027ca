------------------------- MODULE MCLockTransactions -------------------------
(* Small instances of LockTransactions for TLC.  The keys and their order  *)
(* are those of ResourceKeys: two jobs reconcile the network of one host.  *)
EXTENDS LockTransactions, TLC

CONSTANT NoVm

Names == INSTANCE ResourceKeys

Reconciled == [j \in Jobs |-> Names!ResourceKeysOf("reconcile_vm_networking", "h1", NoVm)]

NameKeys == UNION {Reconciled[j] : j \in Jobs}

NameRank == [k \in NameKeys |-> Names!RankOf(k)]

(* The connections of the pool are alike. *)
Connections == Permutations(Txns)
=============================================================================
