---------------------------- MODULE LockService ----------------------------
(***************************************************************************)
(* What the lock table promises to those who use it, however its requests  *)
(* are carried out: a grant gives a job all the keys it asks for and takes *)
(* none that still belongs to somebody; what disappears from the table is  *)
(* what its owner gave back or what nobody owned any more; and nothing but *)
(* time shortens a lease, which nothing prolongs.                          *)
(***************************************************************************)
EXTENDS JobDomain

CONSTANTS
    Keys,      \* the values of lock_key
    JobKeys,   \* JobKeys[j]: the keys job j asks for
    TTL        \* the longest life of a lease, in ticks

VARIABLE locks

Nobody == [job |-> NoJob, worker |-> NoWorker, left |-> 0]

Lapsed(k) == locks[k].left = 0

(* Rows disappear *)
Without(keys) == [k \in Keys |-> IF k \in keys THEN Nobody ELSE locks[k]]

Grant(j, w, life) ==
    /\ \A k \in JobKeys[j] : Lapsed(k)
    /\ locks' = [k \in Keys |->
                   IF k \in JobKeys[j] THEN [job |-> j, worker |-> w, left |-> life]
                                       ELSE locks[k]]

GiveBack(j, w, keys) ==
    /\ \A k \in keys : locks[k].job = j /\ locks[k].worker = w
    /\ locks' = Without(keys)

Purge(keys) ==
    /\ \A k \in keys : Lapsed(k)
    /\ locks' = Without(keys)

TimePasses ==
    locks' = [k \in Keys |->
                [locks[k] EXCEPT !.left = IF @ > 0 THEN @ - 1 ELSE 0]]

LockServiceInit == locks = [k \in Keys |-> Nobody]

LockServiceNext ==
    \/ \E j \in Jobs, w \in Workers :
         \/ \E life \in 0 .. TTL : Grant(j, w, life)
         \/ \E keys \in SUBSET Keys : GiveBack(j, w, keys)
    \/ \E keys \in SUBSET Keys : Purge(keys)
    \/ TimePasses

LockServiceSpec == LockServiceInit /\ [][LockServiceNext]_locks
=============================================================================
