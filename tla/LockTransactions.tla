-------------------------- MODULE LockTransactions --------------------------
(***************************************************************************)
(* The requests on the `resource_locks` table, statement by statement      *)
(* (repository.js of the database microservice), as PostgreSQL executes    *)
(* them at READ COMMITTED: several transactions are open at a time, a row  *)
(* one of them has inserted or deleted makes the others wait until it ends *)
(* and a transaction that ends without COMMIT leaves nothing behind.       *)
(*                                                                         *)
(* `rows` is what is committed.  `writer` names the transaction with an    *)
(* uncommitted change of a key, `draft` what the key becomes if it commits.*)
(***************************************************************************)
EXTENDS JobDomain

CONSTANTS
    Keys,      \* the values of lock_key
    KeyRank,   \* KeyRank[k]: the place of k in the alphabetical order
    JobKeys,   \* JobKeys[j]: the lockKeys of job j
    Txns,      \* the connections of the pool
    NoTxn,     \* no transaction
    TTL,       \* ttlMs, in ticks
    MaxTime    \* bound: the clock stops here

ASSUME KeyOrderAssumption ==
    /\ KeyRank \in [Keys -> Nat]
    /\ \A k, l \in Keys : k # l => KeyRank[k] # KeyRank[l]

ASSUME LockTransactionsAssumption ==
    /\ JobKeys \in [Jobs -> SUBSET Keys]
    /\ NoTxn \notin Txns
    /\ TTL \in Nat \ {0}
    /\ MaxTime \in Nat

VARIABLES
    rows,     \* rows[k]: the committed row of key k
    writer,   \* writer[k]: who has an uncommitted change of key k
    draft,    \* draft[k]: that change
    txn,      \* txn[t]: what transaction t does
    now       \* the clock

vars == <<rows, writer, draft, txn, now>>

-----------------------------------------------------------------------------
Row == [job : Jobs, worker : Workers, expires : Nat]

NoRow == [job |-> NoJob, worker |-> NoWorker, expires |-> 0]

(* `todo`: the keys an acquire has not come to, the rows a DELETE has seen *)
(* and not come to.  `began`: NOW(), which is fixed by BEGIN.              *)
Transaction == [op     : {"none", "acquire", "delete"},
                job    : Jobs \cup {NoJob},
                worker : Workers \cup {NoWorker},
                todo   : SUBSET Keys,
                stmt   : {"DELETE", "INSERT"},
                began  : Nat]

Idle == [op |-> "none", job |-> NoJob, worker |-> NoWorker, todo |-> {},
         stmt |-> "DELETE", began |-> 0]

Init ==
    /\ rows = [k \in Keys |-> NoRow]
    /\ writer = [k \in Keys |-> NoTxn]
    /\ draft = [k \in Keys |-> NoRow]
    /\ txn = [t \in Txns |-> Idle]
    /\ now = 0

-----------------------------------------------------------------------------
WrittenBy(t) == {k \in Keys : writer[k] = t}

(* The key as t sees it: its own change, or what is committed *)
Visible(t, k) == IF writer[k] = t THEN draft[k] ELSE rows[k]

(* Somebody else's change of the key is not decided yet *)
Undecided(t, k) == writer[k] \notin {t, NoTxn}

Write(t, k, row) ==
    /\ writer' = [writer EXCEPT ![k] = t]
    /\ draft' = [draft EXCEPT ![k] = row]

(* Mutation: the DELETE takes whatever row has the key by now. *)
PassedMutant(t) == [txn EXCEPT ![t] = Idle]

(* A row that another transaction has replaced or deleted is not the row a *)
(* DELETE has seen, and is passed over.                                    *)
Passed(t) ==
    [u \in Txns |->
       IF u = t THEN Idle
       ELSE IF txn[u].op = "delete" THEN [txn[u] EXCEPT !.todo = @ \ WrittenBy(t)]
       ELSE txn[u]]

Commit(t) ==
    /\ rows' = [k \in Keys |-> IF writer[k] = t THEN draft[k] ELSE rows[k]]
    /\ writer' = [k \in Keys |-> IF writer[k] = t THEN NoTxn ELSE writer[k]]
    /\ draft' = [k \in Keys |-> IF writer[k] = t THEN NoRow ELSE draft[k]]
    /\ txn' = Passed(t)
    /\ UNCHANGED now

(* Mutation: a refused acquire ends its transaction with COMMIT. *)
RollbackMutant(t) == Commit(t)

Rollback(t) ==
    /\ writer' = [k \in Keys |-> IF writer[k] = t THEN NoTxn ELSE writer[k]]
    /\ draft' = [k \in Keys |-> IF writer[k] = t THEN NoRow ELSE draft[k]]
    /\ txn' = [txn EXCEPT ![t] = Idle]
    /\ UNCHANGED <<rows, now>>

-----------------------------------------------------------------------------
(* acquireResourceLocks *)

Before(k, l) == KeyRank[k] < KeyRank[l]

BeginAcquire(t, j, w) ==
    /\ txn[t].op = "none"
    /\ txn' = [txn EXCEPT ![t] = [op |-> "acquire", job |-> j, worker |-> w,
                                  todo |-> JobKeys[j], stmt |-> "DELETE", began |-> now]]
    /\ UNCHANGED <<rows, writer, draft, now>>

(* Mutation: the keys are not sorted. *)
CurrentMutant(t, k) ==
    /\ txn[t].op = "acquire"
    /\ k \in txn[t].todo
    /\ \A l \in txn[t].todo : txn[t].job = 1 => ~Before(l, k)
    /\ \A l \in txn[t].todo : txn[t].job # 1 => ~Before(k, l)

(* for (const lockKey of lockKeys) *)
Current(t, k) ==
    /\ txn[t].op = "acquire"
    /\ k \in txn[t].todo
    /\ \A l \in txn[t].todo : ~Before(l, k)

(* DELETE FROM resource_locks WHERE lock_key = $1 AND expires_at < NOW() *)
Outlived(t, k) == rows[k] # NoRow /\ rows[k].expires < txn[t].began

DeleteExpired(t, k) ==
    /\ Current(t, k)
    /\ txn[t].stmt = "DELETE"
    /\ IF Outlived(t, k)
       THEN ~Undecided(t, k) /\ Write(t, k, NoRow)
       ELSE UNCHANGED <<writer, draft>>
    /\ txn' = [txn EXCEPT ![t].stmt = "INSERT"]
    /\ UNCHANGED <<rows, now>>

(* Mutation: the time to live is subtracted. *)
InsertMutant(t, k) ==
    /\ Current(t, k)
    /\ txn[t].stmt = "INSERT"
    /\ ~Undecided(t, k)
    /\ Visible(t, k) = NoRow
    /\ Write(t, k, [job |-> txn[t].job, worker |-> txn[t].worker,
                    expires |-> txn[t].began - TTL])
    /\ txn' = [txn EXCEPT ![t].todo = @ \ {k}, ![t].stmt = "DELETE"]
    /\ UNCHANGED <<rows, now>>

(* INSERT ... ON CONFLICT (lock_key) DO NOTHING RETURNING *               *)
Insert(t, k) ==
    /\ Current(t, k)
    /\ txn[t].stmt = "INSERT"
    /\ ~Undecided(t, k)
    /\ Visible(t, k) = NoRow
    /\ Write(t, k, [job |-> txn[t].job, worker |-> txn[t].worker,
                    expires |-> txn[t].began + TTL])
    /\ txn' = [txn EXCEPT ![t].todo = @ \ {k}, ![t].stmt = "DELETE"]
    /\ UNCHANGED <<rows, now>>

(* No row inserted: the lock is held *)
Refuse(t, k) ==
    /\ Current(t, k)
    /\ txn[t].stmt = "INSERT"
    /\ ~Undecided(t, k)
    /\ Visible(t, k) # NoRow
    /\ Rollback(t)

-----------------------------------------------------------------------------
(* releaseResourceLocks and cleanupExpiredLocks: one DELETE of the rows    *)
(* the statement sees when it begins, in whatever order the table is read. *)

OwnedBy(k, j, w) == rows[k].job = j /\ rows[k].worker = w

BeginDelete(t, seen) ==
    /\ txn[t].op = "none"
    /\ txn' = [txn EXCEPT ![t] = [Idle EXCEPT !.op = "delete", !.todo = seen,
                                              !.began = now]]
    /\ UNCHANGED <<rows, writer, draft, now>>

BeginRelease(t, j, w) == BeginDelete(t, {k \in Keys : OwnedBy(k, j, w)})

BeginCleanup(t) ==
    BeginDelete(t, {k \in Keys : rows[k] # NoRow /\ rows[k].expires < now})

DeleteRow(t, k) ==
    /\ txn[t].op = "delete"
    /\ k \in txn[t].todo
    /\ ~Undecided(t, k)
    /\ Write(t, k, NoRow)
    /\ txn' = [txn EXCEPT ![t].todo = @ \ {k}]
    /\ UNCHANGED <<rows, now>>

-----------------------------------------------------------------------------
(* All keys inserted, all rows deleted *)
Finish(t) ==
    /\ txn[t].op # "none"
    /\ txn[t].todo = {}
    /\ Commit(t)

(* The connection is lost, or PostgreSQL picks t to break a deadlock *)
Fail(t) ==
    /\ txn[t].op # "none"
    /\ Rollback(t)

Tick ==
    /\ now < MaxTime
    /\ now' = now + 1
    /\ UNCHANGED <<rows, writer, draft, txn>>

Step(t) ==
    \/ \E k \in Keys : DeleteExpired(t, k) \/ Insert(t, k) \/ Refuse(t, k) \/ DeleteRow(t, k)
    \/ Finish(t)

Next ==
    \/ \E t \in Txns :
         \/ \E j \in Jobs, w \in Workers : BeginAcquire(t, j, w) \/ BeginRelease(t, j, w)
         \/ BeginCleanup(t)
         \/ Step(t)
         \/ Fail(t)
    \/ Tick

Spec == Init /\ [][Next]_vars

-----------------------------------------------------------------------------
TypeOK ==
    /\ rows \in [Keys -> Row \cup {NoRow}]
    /\ writer \in [Keys -> Txns \cup {NoTxn}]
    /\ draft \in [Keys -> Row \cup {NoRow}]
    /\ txn \in [Txns -> Transaction]
    /\ now \in Nat

(* t waits for the transaction that has an undecided change of k. *)
WaitsOn(t, k) ==
    /\ Undecided(t, k)
    /\ \/ Current(t, k) /\ (txn[t].stmt = "INSERT" \/ Outlived(t, k))
       \/ txn[t].op = "delete" /\ k \in txn[t].todo

(* "Locks are sorted alphabetically for deterministic ordering to prevent  *)
(* deadlocks": along a chain of acquires that wait for one another the     *)
(* keys they wait for only go up, so it never closes.                      *)
WaitsGoUp ==
    \A t, u \in Txns, k, l \in Keys :
        /\ txn[t].op = "acquire" /\ WaitsOn(t, k) /\ writer[k] = u
        /\ txn[u].op = "acquire" /\ WaitsOn(u, l)
        => Before(k, l)

(* What WaitsGoUp and Promise rest on, for every open transaction.         *)

IdleWritesNothing == \A k \in Keys : writer[k] # NoTxn => txn[writer[k]].op # "none"

(* An acquire has written nothing beyond the key it is at. *)
HeldBelow(t) ==
    txn[t].op = "acquire" =>
        \A k \in WrittenBy(t), l \in txn[t].todo : l # k => Before(k, l)

(* It has taken the keys behind it, and from nobody with time left. *)
AcquireTakesFree(t) ==
    txn[t].op = "acquire" =>
        /\ txn[t].job \in Jobs
        /\ txn[t].worker \in Workers
        /\ txn[t].began <= now
        /\ WrittenBy(t) \cup txn[t].todo \subseteq JobKeys[txn[t].job]
        /\ \A k \in WrittenBy(t) : rows[k] = NoRow \/ Outlived(t, k)
        /\ \A k \in JobKeys[txn[t].job] \ txn[t].todo :
              /\ writer[k] = t
              /\ draft[k] = [job |-> txn[t].job, worker |-> txn[t].worker,
                             expires |-> txn[t].began + TTL]

(* The rows a DELETE has seen and not passed over are one owner's, or dead. *)
DeletesOwnOrDead(t) ==
    txn[t].op = "delete" =>
        /\ \A k \in WrittenBy(t) : draft[k] = NoRow
        /\ \/ \E j \in Jobs, w \in Workers :
                 \A k \in txn[t].todo \cup WrittenBy(t) : OwnedBy(k, j, w)
           \/ \A k \in txn[t].todo \cup WrittenBy(t) : rows[k].expires < now

StatementInv ==
    /\ IdleWritesNothing
    /\ \A t \in Txns : HeldBelow(t) /\ AcquireTakesFree(t) /\ DeletesOwnOrDead(t)

(* The statements implement the promise of LockService: an acquire is      *)
(* granted as a whole when it commits, and never takes a live row.  A row  *)
(* whose expires_at is now has a tick left: the comparison is strict.      *)
Left(k) == IF rows[k] # NoRow /\ rows[k].expires >= now
           THEN rows[k].expires - now + 1 ELSE 0

Service == INSTANCE LockService
             WITH TTL <- TTL + 1,
                  locks <- [k \in Keys |-> [job |-> rows[k].job, worker |-> rows[k].worker,
                                            left |-> Left(k)]]

Promise == Service!LockServiceSpec
=============================================================================
