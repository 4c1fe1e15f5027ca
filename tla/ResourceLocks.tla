--------------------------- MODULE ResourceLocks ---------------------------
(***************************************************************************)
(* The `resource_locks` table: one row per locked key, owned by a job and  *)
(* a worker, with a time to live that nothing ever renews.  Each request   *)
(* on the table is one atomic step: its transaction, or its one statement. *)
(*                                                                         *)
(* Time is relative: `left` is what remains of a row's life, in ticks, and *)
(* a row with nothing left is one with expires_at < NOW(), which stays in  *)
(* the table until an acquire of its key or a clean-up deletes it.         *)
(***************************************************************************)
EXTENDS JobDomain

CONSTANTS
    Keys,   \* the values of lock_key
    TTL     \* ttlMs, in ticks

ASSUME ResourceLocksAssumption == TTL \in Nat \ {0}

VARIABLE locks

LockRow == [job    : Jobs \cup {NoJob},
            worker : Workers \cup {NoWorker},
            left   : 0 .. TTL]

NoRow == [job |-> NoJob, worker |-> NoWorker, left |-> 0]

LocksTypeOK == locks \in [Keys -> LockRow]

LocksInit == locks = [k \in Keys |-> NoRow]

-----------------------------------------------------------------------------
OwnedBy(k, j, w) == locks[k].job = j /\ locks[k].worker = w

(* Mutation: a row counts as expired a tick early. *)
ExpiredMutant(k) == locks[k] # NoRow /\ locks[k].left <= 1

(* WHERE expires_at < NOW() is true of no row that still has time left *)
Expired(k) == locks[k] # NoRow /\ locks[k].left = 0

(* DELETE the expired row, INSERT ... ON CONFLICT DO NOTHING succeeds *)
Free(k) == locks[k] = NoRow \/ Expired(k)

(* All the keys or none *)
LockAcquire(j, w, keys) ==
    /\ \A k \in keys : Free(k)
    /\ locks' = [k \in Keys |->
                   IF k \in keys THEN [job |-> j, worker |-> w, left |-> TTL]
                                 ELSE locks[k]]

(* A key is taken: ROLLBACK, return false *)
LockRefused(keys) ==
    /\ \E k \in keys : ~Free(k)
    /\ UNCHANGED locks

(* Mutation: the release deletes nothing. *)
LockReleaseMutant(j, w) == UNCHANGED locks

(* DELETE WHERE job_id = $1 AND worker_id = $2, whatever slot asks *)
LockRelease(j, w) ==
    locks' = [k \in Keys |-> IF OwnedBy(k, j, w) THEN NoRow ELSE locks[k]]

LockCleanup ==
    /\ \E k \in Keys : Expired(k)
    /\ locks' = [k \in Keys |-> IF Expired(k) THEN NoRow ELSE locks[k]]

(* A tick of the clock *)
LockTick ==
    /\ \E k \in Keys : locks[k].left > 0
    /\ locks' = [k \in Keys |->
                   [locks[k] EXCEPT !.left = IF @ > 0 THEN @ - 1 ELSE 0]]
=============================================================================
