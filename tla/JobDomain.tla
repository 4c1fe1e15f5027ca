----------------------------- MODULE JobDomain -----------------------------
(***************************************************************************)
(* The identifiers the components share.  A job is its id; ids come from a *)
(* sequence and created_at from the same INSERT, so the order of the ids   *)
(* is the order of created_at.                                             *)
(***************************************************************************)
EXTENDS Integers

CONSTANTS
    Jobs,         \* job ids
    Workers,      \* worker ids
    NoJob,        \* no job
    NoWorker      \* no worker: NULL

ASSUME JobDomainAssumption ==
    /\ Jobs \subseteq Nat
    /\ NoJob \notin Jobs
    /\ NoWorker \notin Workers
=============================================================================
