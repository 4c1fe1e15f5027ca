---------------------------- MODULE MCWorkerLoop ----------------------------
(* Small instances of WorkerLoop for TLC. *)
EXTENDS WorkerLoop

CONSTANTS vm1, vm2

(* every job has a virtual machine of its own, or all have the same one *)
OwnVm == [j \in Jobs |-> IF j = 1 THEN vm1 ELSE vm2]
=============================================================================
