--------------------------- MODULE MCMachineJobs ---------------------------
(***************************************************************************)
(* MachineJobs for the model checker.  Jobs are told apart by nothing but  *)
(* what is put into them, so they may be permuted; this halves the states  *)
(* of the safety run.  The liveness run does without.                      *)
(***************************************************************************)
EXTENDS MachineJobs, TLC

JobSymmetry == Permutations(Jobs)
=============================================================================
