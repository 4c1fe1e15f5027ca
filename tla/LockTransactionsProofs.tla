----------------------- MODULE LockTransactionsProofs -----------------------
(***************************************************************************)
(* Theorems about LockTransactions, for any keys, jobs, workers, number of *)
(* connections and bound on the clock.                                     *)
(***************************************************************************)
EXTENDS LockTransactions, TLAPS

-----------------------------------------------------------------------------
(* Types. *)

LEMMA RowTypes ==
    /\ NoRow \notin Row
    /\ \A j \in Jobs, w \in Workers, e \in Nat :
         /\ [job |-> j, worker |-> w, expires |-> e] \in Row
         /\ [job |-> j, worker |-> w, expires |-> e] # NoRow
  BY JobDomainAssumption DEF Row, NoRow

LEMMA IdleType == Idle \in Transaction
  BY DEF Idle, Transaction

LEMMA InitTypeOK == Init => TypeOK
  BY IdleType DEF Init, TypeOK

LEMMA WriteType ==
    ASSUME TypeOK, NEW t \in Txns, NEW k \in Keys, NEW row \in Row \cup {NoRow},
           Write(t, k, row)
    PROVE  /\ writer' \in [Keys -> Txns \cup {NoTxn}]
           /\ draft' \in [Keys -> Row \cup {NoRow}]
  BY DEF TypeOK, Write

LEMMA TodoType ==
    ASSUME NEW x \in Transaction, NEW K
    PROVE  [x EXCEPT !.todo = @ \ K] \in Transaction
  BY DEF Transaction

LEMMA CommitType ==
    ASSUME TypeOK, NEW t \in Txns, Commit(t)
    PROVE  TypeOK'
<1>1. ASSUME NEW u \in Txns
      PROVE  Passed(t)[u] \in Transaction
  BY IdleType, TodoType DEF TypeOK, Passed
<1>2. txn' \in [Txns -> Transaction]
  BY <1>1 DEF Commit, Passed
<1> QED BY <1>2 DEF TypeOK, Commit

LEMMA RollbackType ==
    ASSUME TypeOK, NEW t \in Txns, Rollback(t)
    PROVE  TypeOK'
  BY IdleType DEF TypeOK, Rollback

LEMMA BeginType ==
    ASSUME TypeOK, NEW t \in Txns,
           \/ \E j \in Jobs, w \in Workers : BeginAcquire(t, j, w) \/ BeginRelease(t, j, w)
           \/ BeginCleanup(t)
    PROVE  TypeOK'
<1>1. ASSUME NEW j \in Jobs, NEW w \in Workers, BeginAcquire(t, j, w)
      PROVE  TypeOK'
  <2>1. [op |-> "acquire", job |-> j, worker |-> w, todo |-> JobKeys[j],
         stmt |-> "DELETE", began |-> now] \in Transaction
    BY LockTransactionsAssumption DEF TypeOK, Transaction
  <2> QED BY <1>1, <2>1 DEF BeginAcquire, TypeOK
<1>2. ASSUME NEW K \in SUBSET Keys, BeginDelete(t, K)
      PROVE  TypeOK'
  <2>1. [Idle EXCEPT !.op = "delete", !.todo = K, !.began = now] \in Transaction
    BY DEF TypeOK, Idle, Transaction
  <2> QED BY <1>2, <2>1 DEF BeginDelete, TypeOK
<1> QED BY <1>1, <1>2 DEF BeginRelease, BeginCleanup

LEMMA StatementType ==
    ASSUME TypeOK, NEW t \in Txns, NEW k \in Keys, txn[t].op = "acquire" => txn[t].job \in Jobs /\ txn[t].worker \in Workers,
           DeleteExpired(t, k) \/ Insert(t, k) \/ DeleteRow(t, k)
    PROVE  TypeOK'
<1>1. CASE DeleteExpired(t, k)
  <2>1. /\ writer' \in [Keys -> Txns \cup {NoTxn}]
        /\ draft' \in [Keys -> Row \cup {NoRow}]
    BY <1>1, WriteType DEF DeleteExpired, TypeOK
  <2>2. [txn[t] EXCEPT !.stmt = "INSERT"] \in Transaction
    BY DEF TypeOK, Transaction
  <2> QED BY <1>1, <2>1, <2>2 DEF DeleteExpired, TypeOK
<1>2. CASE Insert(t, k)
  <2>1. txn[t].began + TTL \in Nat
    BY LockTransactionsAssumption DEF TypeOK, Transaction
  <2>2. [job |-> txn[t].job, worker |-> txn[t].worker, expires |-> txn[t].began + TTL] \in Row
    BY <1>2, <2>1, RowTypes DEF Insert, Current
  <2>3. /\ writer' \in [Keys -> Txns \cup {NoTxn}]
        /\ draft' \in [Keys -> Row \cup {NoRow}]
    BY <1>2, <2>2, WriteType DEF Insert
  <2>4. [txn[t] EXCEPT !.todo = @ \ {k}, !.stmt = "DELETE"] \in Transaction
    BY DEF TypeOK, Transaction
  <2> QED BY <1>2, <2>3, <2>4 DEF Insert, TypeOK
<1>3. CASE DeleteRow(t, k)
  <2>1. /\ writer' \in [Keys -> Txns \cup {NoTxn}]
        /\ draft' \in [Keys -> Row \cup {NoRow}]
    BY <1>3, WriteType DEF DeleteRow
  <2>2. [txn[t] EXCEPT !.todo = @ \ {k}] \in Transaction
    BY TodoType DEF TypeOK
  <2> QED BY <1>3, <2>1, <2>2 DEF DeleteRow, TypeOK
<1> QED BY <1>1, <1>2, <1>3

LEMMA TypeOKStep == TypeOK /\ StatementInv /\ [Next]_vars => TypeOK'
<1> SUFFICES ASSUME TypeOK, StatementInv, [Next]_vars PROVE TypeOK'
  OBVIOUS
<1>1. ASSUME NEW t \in Txns, NEW k \in Keys,
             DeleteExpired(t, k) \/ Insert(t, k) \/ DeleteRow(t, k)
      PROVE  TypeOK'
  BY <1>1, StatementType DEF StatementInv, AcquireTakesFree
<1>2. ASSUME NEW t \in Txns, NEW k \in Keys, Refuse(t, k) PROVE TypeOK'
  BY <1>2, RollbackType DEF Refuse
<1>3. ASSUME NEW t \in Txns, Finish(t) \/ Fail(t) PROVE TypeOK'
  BY <1>3, CommitType, RollbackType DEF Finish, Fail
<1>4. CASE Tick
  BY <1>4 DEF Tick, TypeOK
<1>5. CASE UNCHANGED vars
  BY <1>5 DEF vars, TypeOK
<1> QED BY <1>1, <1>2, <1>3, <1>4, <1>5, BeginType DEF Next, Step

-----------------------------------------------------------------------------
(* The inductive invariant. *)

TxnInv(t) == HeldBelow(t) /\ AcquireTakesFree(t) /\ DeletesOwnOrDead(t)

(* What a statement of t leaves alone of transaction u *)
Untouched(u) ==
    /\ txn'[u] = txn[u]
    /\ WrittenBy(u)' = WrittenBy(u)
    /\ \A k \in WrittenBy(u) : draft'[k] = draft[k]

LEMMA AcquireKept ==
    ASSUME TypeOK, NEW u \in Txns, AcquireTakesFree(u), txn'[u] = txn[u],
           WrittenBy(u)' = WrittenBy(u), now' = now,
           \A k \in WrittenBy(u) : draft'[k] = draft[k] /\ rows'[k] = rows[k]
    PROVE  AcquireTakesFree(u)'
<1> SUFFICES ASSUME txn[u].op = "acquire"
             PROVE  AcquireTakesFree(u)'
  BY DEF AcquireTakesFree
<1>1. \A k \in WrittenBy(u)' : rows'[k] = NoRow \/ Outlived(u, k)'
  BY DEF AcquireTakesFree, Outlived
<1>2. \A k \in JobKeys[txn[u].job] \ txn[u].todo : k \in WrittenBy(u)
  BY LockTransactionsAssumption DEF AcquireTakesFree, WrittenBy
<1>3. ASSUME NEW k \in JobKeys[txn'[u].job] \ txn'[u].todo
      PROVE  /\ writer'[k] = u
             /\ draft'[k] = [job |-> txn'[u].job, worker |-> txn'[u].worker,
                             expires |-> txn'[u].began + TTL]
  BY <1>2, <1>3 DEF AcquireTakesFree, WrittenBy
<1> QED BY <1>1, <1>3 DEF AcquireTakesFree

LEMMA UntouchedKeeps ==
    ASSUME TypeOK, NEW u \in Txns, TxnInv(u), Untouched(u), UNCHANGED <<rows, now>>
    PROVE  TxnInv(u)'
<1>1. HeldBelow(u)'
  BY DEF Untouched, TxnInv, HeldBelow
<1>2. AcquireTakesFree(u)'
  BY AcquireKept DEF Untouched, TxnInv
<1>3. DeletesOwnOrDead(u)'
  BY DEF Untouched, TxnInv, DeletesOwnOrDead, OwnedBy
<1> QED BY <1>1, <1>2, <1>3 DEF TxnInv

LEMMA BeginInv ==
    ASSUME TypeOK, StatementInv, NEW t \in Txns,
           \/ \E j \in Jobs, w \in Workers : BeginAcquire(t, j, w) \/ BeginRelease(t, j, w)
           \/ BeginCleanup(t)
    PROVE  StatementInv'
<1>0. txn[t].op = "none" /\ UNCHANGED <<rows, writer, draft, now>>
  BY DEF BeginAcquire, BeginRelease, BeginCleanup, BeginDelete
<1>1. WrittenBy(t) = {} /\ UNCHANGED <<rows, writer, draft, now>>
  BY <1>0, LockTransactionsAssumption DEF StatementInv, IdleWritesNothing, WrittenBy
<1>2. WrittenBy(t)' = {}
  BY <1>1 DEF WrittenBy
<1>3. \A u \in Txns \ {t} : txn'[u] = txn[u]
  BY DEF BeginAcquire, BeginRelease, BeginCleanup, BeginDelete, TypeOK
<1>4. ASSUME NEW u \in Txns \ {t} PROVE TxnInv(u)'
  <2>1. Untouched(u)
    BY <1>1, <1>3 DEF Untouched, WrittenBy
  <2> QED BY <1>1, <2>1, UntouchedKeeps DEF StatementInv, TxnInv
<1>5. TxnInv(t)' /\ txn'[t].op # "none"
  <2>1. ASSUME NEW j \in Jobs, NEW w \in Workers, BeginAcquire(t, j, w)
        PROVE  TxnInv(t)' /\ txn'[t].op # "none"
    <3>1. txn'[t] = [op |-> "acquire", job |-> j, worker |-> w, todo |-> JobKeys[j],
                     stmt |-> "DELETE", began |-> now]
      BY <2>1 DEF BeginAcquire, TypeOK
    <3> QED
      BY <1>1, <1>2, <3>1 DEF TxnInv, HeldBelow, AcquireTakesFree, DeletesOwnOrDead, TypeOK
  <2>2. ASSUME NEW K \in SUBSET Keys, BeginDelete(t, K),
               \/ \E j \in Jobs, w \in Workers : \A k \in K : OwnedBy(k, j, w)
               \/ \A k \in K : rows[k].expires < now
        PROVE  TxnInv(t)' /\ txn'[t].op # "none"
    <3>1. txn'[t].op = "delete" /\ txn'[t].todo = K
      BY <2>2 DEF BeginDelete, TypeOK, Idle
    <3> QED
      BY <1>1, <1>2, <2>2, <3>1
      DEF TxnInv, HeldBelow, AcquireTakesFree, DeletesOwnOrDead, OwnedBy
  <2>3. ASSUME NEW j \in Jobs, NEW w \in Workers, BeginRelease(t, j, w)
        PROVE  TxnInv(t)' /\ txn'[t].op # "none"
    <3> DEFINE K == {k \in Keys : OwnedBy(k, j, w)}
    <3>1. BeginDelete(t, K) /\ \A k \in K : OwnedBy(k, j, w)
      BY <2>3 DEF BeginRelease
    <3> HIDE DEF K
    <3>2. K \in SUBSET Keys
      BY DEF K
    <3> QED BY <2>2, <3>1, <3>2
  <2>4. CASE BeginCleanup(t)
    <3> DEFINE K == {k \in Keys : rows[k] # NoRow /\ rows[k].expires < now}
    <3>1. BeginDelete(t, K) /\ \A k \in K : rows[k].expires < now
      BY <2>4 DEF BeginCleanup
    <3> HIDE DEF K
    <3>2. K \in SUBSET Keys
      BY DEF K
    <3> QED BY <2>2, <3>1, <3>2
  <2> QED BY <2>1, <2>3, <2>4
<1>6. IdleWritesNothing'
  BY <1>1, <1>3, <1>5 DEF StatementInv, IdleWritesNothing, TypeOK
<1> QED BY <1>4, <1>5, <1>6 DEF StatementInv, TxnInv

(* Ending a transaction by ROLLBACK *)
LEMMA RollbackInv ==
    ASSUME TypeOK, StatementInv, NEW t \in Txns, Rollback(t)
    PROVE  StatementInv'
<1>1. \A u \in Txns \ {t} : Untouched(u)
  BY LockTransactionsAssumption DEF Rollback, TypeOK, Untouched, WrittenBy
<1>2. txn'[t] = Idle /\ WrittenBy(t)' = {}
  BY LockTransactionsAssumption DEF Rollback, TypeOK, WrittenBy
<1>3. TxnInv(t)'
  BY <1>2 DEF TxnInv, HeldBelow, AcquireTakesFree, DeletesOwnOrDead, Idle
<1>4. \A u \in Txns \ {t} : TxnInv(u)'
  BY <1>1, UntouchedKeeps DEF StatementInv, TxnInv, Rollback
<1>5. IdleWritesNothing'
  BY <1>1 DEF Rollback, TypeOK, StatementInv, IdleWritesNothing, Untouched
<1> QED BY <1>3, <1>4, <1>5 DEF StatementInv, TxnInv

(* Ending it by COMMIT: what it has deleted or replaced is passed over *)
LEMMA CommitInv ==
    ASSUME TypeOK, StatementInv, NEW t \in Txns, Commit(t)
    PROVE  StatementInv'
<1>1. txn'[t] = Idle /\ WrittenBy(t)' = {}
  BY LockTransactionsAssumption DEF Commit, Passed, TypeOK, WrittenBy
<1>2. TxnInv(t)'
  BY <1>1 DEF TxnInv, HeldBelow, AcquireTakesFree, DeletesOwnOrDead, Idle
<1>3. ASSUME NEW u \in Txns \ {t}
      PROVE  TxnInv(u)' /\ txn'[u].op = txn[u].op
  <2>1. /\ WrittenBy(u)' = WrittenBy(u)
        /\ \A k \in WrittenBy(u) : draft'[k] = draft[k]
        /\ \A k \in Keys \ WrittenBy(t) : rows'[k] = rows[k]
        /\ WrittenBy(u) \cap WrittenBy(t) = {}
        /\ now' = now
    BY LockTransactionsAssumption DEF Commit, TypeOK, WrittenBy
  <2>2. CASE txn[u].op = "delete"
    <3>1. txn'[u] = [txn[u] EXCEPT !.todo = @ \ WrittenBy(t)]
      BY <2>2 DEF Commit, Passed
    <3>2. txn'[u].op = "delete" /\ txn'[u].todo = txn[u].todo \ WrittenBy(t)
      BY <2>2, <3>1 DEF TypeOK, Transaction
    <3>3. txn[u].todo \subseteq Keys /\ WrittenBy(u) \subseteq Keys
      BY DEF TypeOK, Transaction, WrittenBy
    <3> DEFINE K == txn[u].todo \cup WrittenBy(u)
               L == txn'[u].todo \cup WrittenBy(u)'
    <3>4. L \subseteq K /\ \A k \in L : rows'[k] = rows[k]
      BY <2>1, <3>2, <3>3
    <3>5. \/ \E j \in Jobs, w \in Workers : \A k \in K : OwnedBy(k, j, w)
          \/ \A k \in K : rows[k].expires < now
      BY <2>2 DEF StatementInv, DeletesOwnOrDead
    <3>6. \/ \E j \in Jobs, w \in Workers : \A k \in L : OwnedBy(k, j, w)'
          \/ \A k \in L : rows'[k].expires < now'
      BY <2>1, <3>4, <3>5 DEF OwnedBy
    <3>7. \A k \in WrittenBy(u) : draft[k] = NoRow
      BY <2>2 DEF StatementInv, DeletesOwnOrDead
    <3>8. DeletesOwnOrDead(u)'
      BY <2>1, <3>6, <3>7 DEF DeletesOwnOrDead
    <3> QED BY <2>2, <3>2, <3>8 DEF TxnInv, HeldBelow, AcquireTakesFree
  <2>3. CASE txn[u].op # "delete"
    <3>1. txn'[u] = txn[u]
      BY <2>3 DEF Commit, Passed
    <3>2. HeldBelow(u)'
      BY <2>1, <3>1 DEF StatementInv, HeldBelow
    <3>3. AcquireTakesFree(u)'
      <4>1. \A k \in WrittenBy(u) : rows'[k] = rows[k]
        BY <2>1 DEF WrittenBy
      <4> QED BY <2>1, <3>1, <4>1, AcquireKept DEF StatementInv
    <3> QED BY <2>3, <3>1, <3>2, <3>3 DEF TxnInv, DeletesOwnOrDead
  <2> QED BY <2>2, <2>3
<1>4. IdleWritesNothing'
  BY <1>3 DEF Commit, TypeOK, StatementInv, IdleWritesNothing
<1> QED BY <1>2, <1>3, <1>4 DEF StatementInv, TxnInv

LEMMA WriteFrame ==
    ASSUME TypeOK, NEW t \in Txns, NEW k \in Keys, NEW row, ~Undecided(t, k),
           Write(t, k, row)
    PROVE  /\ WrittenBy(t)' = WrittenBy(t) \cup {k}
           /\ draft'[k] = row
           /\ \A l \in Keys \ {k} : draft'[l] = draft[l]
           /\ \A u \in Txns \ {t} :
                /\ WrittenBy(u)' = WrittenBy(u)
                /\ k \notin WrittenBy(u)
  BY LockTransactionsAssumption DEF TypeOK, Undecided, Write, WrittenBy

(* A statement of t changes nothing for the others. *)
LEMMA StatementInvOf ==
    ASSUME TypeOK, TypeOK', StatementInv, NEW t \in Txns, UNCHANGED <<rows, now>>,
           \A u \in Txns \ {t} : Untouched(u), TxnInv(t)', txn'[t].op # "none"
    PROVE  StatementInv'
<1>1. \A u \in Txns \ {t} : TxnInv(u)'
  BY UntouchedKeeps DEF StatementInv, TxnInv
<1>2. ASSUME NEW k \in Keys, NEW u \in Txns, writer'[k] = u
      PROVE  txn'[u].op # "none"
  <2>1. CASE u = t
    BY <2>1
  <2>2. CASE u # t
    <3>1. k \in WrittenBy(u)'
      BY <1>2 DEF WrittenBy
    <3>2. k \in WrittenBy(u) /\ txn'[u] = txn[u]
      BY <2>2, <3>1 DEF Untouched
    <3> QED
      BY <3>2, LockTransactionsAssumption DEF StatementInv, IdleWritesNothing, WrittenBy
  <2> QED BY <2>1, <2>2
<1>3. IdleWritesNothing'
  BY <1>2 DEF TypeOK, IdleWritesNothing
<1> QED BY <1>1, <1>3 DEF StatementInv, TxnInv

(* The key an acquire is at comes before all it has still to come to. *)
LEMMA CurrentFirst ==
    ASSUME TypeOK, NEW t \in Txns, NEW k \in Keys, Current(t, k)
    PROVE  \A l \in txn[t].todo : l # k => Before(k, l)
<1>1. txn[t].todo \subseteq Keys
  BY DEF TypeOK, Transaction
<1>2. ASSUME NEW l \in Keys, l # k, ~Before(l, k)
      PROVE  Before(k, l)
  BY <1>2, KeyOrderAssumption DEF Before
<1> QED BY <1>1, <1>2 DEF Current

LEMMA DeleteExpiredInv ==
    ASSUME TypeOK, TypeOK', StatementInv, NEW t \in Txns, NEW k \in Keys, DeleteExpired(t, k)
    PROVE  StatementInv'
<1>1. txn'[t] = [txn[t] EXCEPT !.stmt = "INSERT"] /\ \A u \in Txns \ {t} : txn'[u] = txn[u]
  BY DEF DeleteExpired, TypeOK
<1>2. /\ txn[t].op = "acquire" /\ txn'[t].op = "acquire"
      /\ txn'[t].job = txn[t].job /\ txn'[t].worker = txn[t].worker
      /\ txn'[t].todo = txn[t].todo /\ txn'[t].began = txn[t].began
      /\ k \in txn[t].todo
  BY <1>1 DEF DeleteExpired, Current, TypeOK, Transaction
<1>3. UNCHANGED <<rows, now>>
  BY DEF DeleteExpired
<1>4. CASE ~Outlived(t, k)
  <2>1. UNCHANGED <<writer, draft>>
    BY <1>4 DEF DeleteExpired
  <2>2. HeldBelow(t)' /\ AcquireTakesFree(t)' /\ DeletesOwnOrDead(t)'
    BY <1>2, <1>3, <2>1
    DEF StatementInv, HeldBelow, AcquireTakesFree, DeletesOwnOrDead, WrittenBy, Outlived,
        Before
  <2>3. \A u \in Txns \ {t} : Untouched(u)
    BY <1>1, <2>1 DEF Untouched, WrittenBy
  <2> QED BY <1>2, <1>3, <2>2, <2>3, StatementInvOf DEF TxnInv
<1>5. CASE Outlived(t, k)
  <2>1. ~Undecided(t, k) /\ Write(t, k, NoRow)
    BY <1>5 DEF DeleteExpired
  <2>2. /\ WrittenBy(t)' = WrittenBy(t) \cup {k}
        /\ \A l \in Keys \ {k} : draft'[l] = draft[l]
        /\ \A u \in Txns \ {t} : WrittenBy(u)' = WrittenBy(u) /\ k \notin WrittenBy(u)
    BY <2>1, WriteFrame
  <2>3. \A u \in Txns \ {t} : Untouched(u)
    BY <1>1, <2>2 DEF Untouched, WrittenBy
  <2>4. HeldBelow(t)'
    BY <1>2, <2>2, CurrentFirst DEF StatementInv, HeldBelow, DeleteExpired, Before
  <2>5. AcquireTakesFree(t)'
    <3>1. \A l \in WrittenBy(t)' : rows'[l] = NoRow \/ Outlived(t, l)'
      BY <1>2, <1>3, <1>5, <2>2 DEF StatementInv, AcquireTakesFree, Outlived
    <3>2. \A l \in JobKeys[txn[t].job] \ txn[t].todo :
            writer[l] = t /\ l \in Keys \ {k}
      BY <1>2, LockTransactionsAssumption DEF StatementInv, AcquireTakesFree
    <3>3. ASSUME NEW l \in JobKeys[txn[t].job] \ txn[t].todo
          PROVE  writer'[l] = t /\ draft'[l] = draft[l]
      BY <2>2, <3>2 DEF WrittenBy
    <3> QED BY <1>2, <1>3, <2>2, <3>1, <3>3 DEF StatementInv, AcquireTakesFree
  <2>6. DeletesOwnOrDead(t)'
    BY <1>2 DEF DeletesOwnOrDead
  <2> QED BY <1>2, <1>3, <2>3, <2>4, <2>5, <2>6, StatementInvOf DEF TxnInv
<1> QED BY <1>4, <1>5

LEMMA InsertInv ==
    ASSUME TypeOK, TypeOK', StatementInv, NEW t \in Txns, NEW k \in Keys, Insert(t, k)
    PROVE  StatementInv'
<1> DEFINE row == [job |-> txn[t].job, worker |-> txn[t].worker,
                   expires |-> txn[t].began + TTL]
<1>1. /\ txn'[t] = [txn[t] EXCEPT !.todo = @ \ {k}, !.stmt = "DELETE"]
      /\ \A u \in Txns \ {t} : txn'[u] = txn[u]
  BY DEF Insert, TypeOK
<1>2. /\ txn[t].op = "acquire" /\ txn'[t].op = "acquire"
      /\ txn'[t].job = txn[t].job /\ txn'[t].worker = txn[t].worker
      /\ txn'[t].todo = txn[t].todo \ {k} /\ txn'[t].began = txn[t].began
      /\ k \in txn[t].todo
  BY <1>1 DEF Insert, Current, TypeOK, Transaction
<1>3. UNCHANGED <<rows, now>> /\ ~Undecided(t, k) /\ Write(t, k, row)
  BY DEF Insert
<1>4. /\ WrittenBy(t)' = WrittenBy(t) \cup {k}
      /\ draft'[k] = row
      /\ \A l \in Keys \ {k} : draft'[l] = draft[l]
      /\ \A u \in Txns \ {t} : WrittenBy(u)' = WrittenBy(u) /\ k \notin WrittenBy(u)
  BY <1>3, WriteFrame
<1>5. \A u \in Txns \ {t} : Untouched(u)
  BY <1>1, <1>4 DEF Untouched, WrittenBy
<1>6. HeldBelow(t)'
  <2>1. \A l \in txn[t].todo : l # k => Before(k, l)
    BY CurrentFirst DEF Insert
  <2> QED BY <1>2, <1>4, <2>1 DEF StatementInv, HeldBelow, Before
<1>7. AcquireTakesFree(t)'
  <2>1. k \in WrittenBy(t) \/ rows[k] = NoRow
    BY <1>3 DEF Insert, Visible, WrittenBy
  <2>2. \A l \in WrittenBy(t)' : rows'[l] = NoRow \/ Outlived(t, l)'
    BY <1>2, <1>3, <1>4, <2>1 DEF StatementInv, AcquireTakesFree, Outlived
  <2>3. \A l \in JobKeys[txn[t].job] \ txn[t].todo :
          writer[l] = t /\ draft[l] = row /\ l \in Keys \ {k}
    BY <1>2, LockTransactionsAssumption DEF StatementInv, AcquireTakesFree
  <2>4. ASSUME NEW l \in JobKeys[txn[t].job] \ txn'[t].todo
        PROVE  writer'[l] = t /\ draft'[l] = row
    BY <1>2, <1>4, <2>3 DEF WrittenBy
  <2>5. WrittenBy(t)' \cup txn'[t].todo \subseteq JobKeys[txn'[t].job]
    BY <1>2, <1>4 DEF StatementInv, AcquireTakesFree
  <2>6. row = [job |-> txn'[t].job, worker |-> txn'[t].worker,
               expires |-> txn'[t].began + TTL]
    BY <1>2
  <2> HIDE DEF row
  <2>7. txn'[t].job \in Jobs /\ txn'[t].worker \in Workers /\ txn'[t].began <= now'
    BY <1>2, <1>3 DEF StatementInv, AcquireTakesFree
  <2> QED BY <1>2, <2>2, <2>4, <2>5, <2>6, <2>7 DEF AcquireTakesFree
<1>8. DeletesOwnOrDead(t)'
  BY <1>2 DEF DeletesOwnOrDead
<1> QED BY <1>2, <1>3, <1>5, <1>6, <1>7, <1>8, StatementInvOf DEF TxnInv

LEMMA DeleteRowInv ==
    ASSUME TypeOK, TypeOK', StatementInv, NEW t \in Txns, NEW k \in Keys, DeleteRow(t, k)
    PROVE  StatementInv'
<1>1. /\ txn'[t] = [txn[t] EXCEPT !.todo = @ \ {k}]
      /\ \A u \in Txns \ {t} : txn'[u] = txn[u]
  BY DEF DeleteRow, TypeOK
<1>2. /\ txn[t].op = "delete" /\ txn'[t].op = "delete"
      /\ txn'[t].todo = txn[t].todo \ {k} /\ k \in txn[t].todo
  BY <1>1 DEF DeleteRow, TypeOK, Transaction
<1>3. UNCHANGED <<rows, now>> /\ ~Undecided(t, k) /\ Write(t, k, NoRow)
  BY DEF DeleteRow
<1>4. /\ WrittenBy(t)' = WrittenBy(t) \cup {k}
      /\ draft'[k] = NoRow
      /\ \A l \in Keys \ {k} : draft'[l] = draft[l]
      /\ \A u \in Txns \ {t} : WrittenBy(u)' = WrittenBy(u) /\ k \notin WrittenBy(u)
  BY <1>3, WriteFrame
<1>5. \A u \in Txns \ {t} : Untouched(u)
  BY <1>1, <1>4 DEF Untouched, WrittenBy
<1>6. HeldBelow(t)' /\ AcquireTakesFree(t)'
  BY <1>2 DEF HeldBelow, AcquireTakesFree
<1>7. DeletesOwnOrDead(t)'
  <2>1. txn'[t].todo \cup WrittenBy(t)' = txn[t].todo \cup WrittenBy(t)
    BY <1>2, <1>4
  <2>2. \A l \in WrittenBy(t)' : draft'[l] = NoRow
    BY <1>2, <1>4 DEF StatementInv, DeletesOwnOrDead, WrittenBy
  <2>3. \/ \E j \in Jobs, w \in Workers :
             \A l \in txn[t].todo \cup WrittenBy(t) : OwnedBy(l, j, w)
        \/ \A l \in txn[t].todo \cup WrittenBy(t) : rows[l].expires < now
    BY <1>2 DEF StatementInv, DeletesOwnOrDead
  <2>4. \/ \E j \in Jobs, w \in Workers :
             \A l \in txn'[t].todo \cup WrittenBy(t)' : OwnedBy(l, j, w)'
        \/ \A l \in txn'[t].todo \cup WrittenBy(t)' : rows'[l].expires < now'
    BY <1>3, <2>1, <2>3 DEF OwnedBy
  <2> QED BY <2>2, <2>4 DEF DeletesOwnOrDead
<1> QED BY <1>2, <1>3, <1>5, <1>6, <1>7, StatementInvOf DEF TxnInv

LEMMA TickInv ==
    ASSUME TypeOK, StatementInv, Tick
    PROVE  StatementInv'
<1>1. UNCHANGED <<rows, writer, draft, txn>> /\ now' = now + 1
  BY DEF Tick
<1>2. ASSUME NEW t \in Txns
      PROVE  HeldBelow(t)' /\ AcquireTakesFree(t)' /\ DeletesOwnOrDead(t)'
  <2>1. HeldBelow(t)'
    BY <1>1 DEF StatementInv, HeldBelow, WrittenBy, Before
  <2>2. AcquireTakesFree(t)'
    <3>1. now' \in Nat /\ txn[t].began \in Nat /\ (txn[t].began <= now => txn[t].began <= now')
      BY <1>1 DEF TypeOK, Transaction
    <3>2. WrittenBy(t)' = WrittenBy(t) /\ \A k \in Keys : Outlived(t, k)' <=> Outlived(t, k)
      BY <1>1 DEF WrittenBy, Outlived
    <3>3. WrittenBy(t) \subseteq Keys
      BY DEF WrittenBy
    <3> QED BY <1>1, <3>1, <3>2, <3>3 DEF StatementInv, AcquireTakesFree
  <2>3. ASSUME NEW k \in txn[t].todo \cup WrittenBy(t), rows[k].expires < now
        PROVE  rows[k].expires < now'
    <3>1. k \in Keys
      BY DEF TypeOK, Transaction, WrittenBy
    <3>2. rows[k].expires \in Nat
      BY <3>1 DEF TypeOK, Row, NoRow
    <3> QED BY <1>1, <2>3, <3>2 DEF TypeOK
  <2>4. DeletesOwnOrDead(t)'
    BY <1>1, <2>3 DEF StatementInv, DeletesOwnOrDead, WrittenBy, OwnedBy
  <2> QED BY <2>1, <2>2, <2>4
<1> QED BY <1>1, <1>2 DEF StatementInv, IdleWritesNothing

LEMMA StatementInvStep ==
    TypeOK /\ TypeOK' /\ StatementInv /\ [Next]_vars => StatementInv'
<1> SUFFICES ASSUME TypeOK, TypeOK', StatementInv, [Next]_vars PROVE StatementInv'
  OBVIOUS
<1>1. ASSUME NEW t \in Txns, NEW k \in Keys,
             DeleteExpired(t, k) \/ Insert(t, k) \/ Refuse(t, k) \/ DeleteRow(t, k)
      PROVE  StatementInv'
  BY <1>1, DeleteExpiredInv, InsertInv, RollbackInv, DeleteRowInv DEF Refuse
<1>2. ASSUME NEW t \in Txns, Finish(t) \/ Fail(t) PROVE StatementInv'
  BY <1>2, CommitInv, RollbackInv DEF Finish, Fail
<1>3. CASE UNCHANGED vars
  BY <1>3
  DEF vars, StatementInv, IdleWritesNothing, HeldBelow, AcquireTakesFree, DeletesOwnOrDead,
      WrittenBy, Outlived, OwnedBy, Before
<1> QED BY <1>1, <1>2, <1>3, BeginInv, TickInv, Zenon DEF Next, Step

LEMMA StatementInvInit == Init => StatementInv
  BY DEF Init, StatementInv, IdleWritesNothing, HeldBelow, AcquireTakesFree,
         DeletesOwnOrDead, Idle

(* The inductive invariant of the statements. *)
THEOREM StatementsCorrect == Spec => [](TypeOK /\ StatementInv)
<1>1. TypeOK /\ StatementInv /\ [Next]_vars => (TypeOK /\ StatementInv)'
  BY TypeOKStep, StatementInvStep
<1> QED BY <1>1, InitTypeOK, StatementInvInit, PTL DEF Spec

(* Rows, connections and waits keep their types. *)
THEOREM TypeCorrect == Spec => []TypeOK
  BY StatementsCorrect, PTL

LEMMA ChainsGoUp == TypeOK /\ StatementInv => WaitsGoUp
<1> SUFFICES ASSUME TypeOK, StatementInv,
                    NEW t \in Txns, NEW u \in Txns, NEW k \in Keys, NEW l \in Keys,
                    writer[k] = u, txn[u].op = "acquire", WaitsOn(u, l)
             PROVE  Before(k, l)
  BY DEF WaitsGoUp
<1>1. l \in txn[u].todo /\ l # k
  BY DEF WaitsOn, Current, Undecided
<1> QED BY <1>1 DEF StatementInv, HeldBelow, WrittenBy

(* Acquires that wait for one another wait for ever higher keys. *)
THEOREM WaitsGoUpCorrect == Spec => []WaitsGoUp
  BY StatementsCorrect, ChainsGoUp, PTL

-----------------------------------------------------------------------------
(* The statements implement LockService. *)

(* The lock table as LockService sees it *)
Table == [k \in Keys |-> [job |-> rows[k].job, worker |-> rows[k].worker, left |-> Left(k)]]

LEMMA LeftType ==
    ASSUME TypeOK, NEW k \in Keys
    PROVE  /\ rows[k].expires \in Nat
           /\ Left(k) \in Nat
           /\ Left(k) = 0 <=> (rows[k] = NoRow \/ rows[k].expires < now)
  BY DEF TypeOK, Left, Row, NoRow

LEMMA DeadRowsLapsed ==
    ASSUME TypeOK, NEW k \in Keys, rows[k] = NoRow \/ rows[k].expires < now
    PROVE  Service!Lapsed(k)
  BY LeftType DEF Service!Lapsed

LEMMA ServiceMoves ==
    ASSUME NEW j \in Jobs, NEW w \in Workers, NEW K \in SUBSET Keys
    PROVE  /\ Service!GiveBack(j, w, K) => Service!LockServiceNext
           /\ \A life \in 0 .. TTL + 1 :
                Service!Grant(j, w, life) => Service!LockServiceNext
  BY Zenon DEF Service!LockServiceNext

LEMMA ServicePurges ==
    ASSUME NEW K \in SUBSET Keys, Service!Purge(K)
    PROVE  Service!LockServiceNext
  BY Zenon DEF Service!LockServiceNext

(* COMMIT of a DELETE: its rows are gone, the others are as they were *)
LEMMA DeleteServed ==
    ASSUME TypeOK, StatementInv, NEW t \in Txns, txn[t].op = "delete", Commit(t)
    PROVE  Service!LockServiceNext
<1>0. PICK K \in SUBSET Keys : K = WrittenBy(t)
  BY DEF WrittenBy
<1>1. K \subseteq Keys /\ \A k \in K : draft[k] = NoRow
  BY <1>0 DEF StatementInv, DeletesOwnOrDead, WrittenBy
<1>2. /\ \A k \in K : rows'[k] = NoRow
      /\ \A k \in Keys \ K : rows'[k] = rows[k]
      /\ now' = now
  BY <1>0, <1>1 DEF Commit, WrittenBy
<1>3. Table' = [k \in Keys |-> IF k \in K THEN Service!Nobody ELSE Table[k]]
  <2>1. ASSUME NEW k \in K
        PROVE  [job |-> rows'[k].job, worker |-> rows'[k].worker, left |-> Left(k)'] = Service!Nobody
    BY <1>2 DEF Left, NoRow, Service!Nobody
  <2>2. ASSUME NEW k \in Keys \ K
        PROVE  [job |-> rows'[k].job, worker |-> rows'[k].worker, left |-> Left(k)'] = Table[k]
    BY <1>2 DEF Table, Left
  <2> QED BY <2>1, <2>2 DEF Table
<1>4. Table' = Service!Without(K)
  BY <1>3 DEF Service!Without, Table
<1>5. \/ \E j \in Jobs, w \in Workers : \A k \in K : OwnedBy(k, j, w)
      \/ \A k \in K : rows[k].expires < now
  BY <1>0 DEF StatementInv, DeletesOwnOrDead
<1>6. CASE \E j \in Jobs, w \in Workers : \A k \in K : OwnedBy(k, j, w)
  <2>1. PICK j \in Jobs, w \in Workers : \A k \in K : OwnedBy(k, j, w)
    BY <1>6
  <2>2. Service!GiveBack(j, w, K)
    BY <1>1, <1>4, <2>1 DEF Service!GiveBack, OwnedBy, Table
  <2> QED BY <1>1, <2>2, ServiceMoves
<1>7. CASE \A k \in K : rows[k].expires < now
  <2>1. Service!Purge(K)
    BY <1>1, <1>4, <1>7, DeadRowsLapsed DEF Service!Purge, Table
  <2> QED BY <1>1, <2>1, ServicePurges
<1> QED BY <1>5, <1>6, <1>7

(* COMMIT of an acquire that has come to all its keys: a whole grant *)
LEMMA AcquireServed ==
    ASSUME TypeOK, StatementInv, NEW t \in Txns, txn[t].op = "acquire", txn[t].todo = {},
           Commit(t)
    PROVE  Service!LockServiceNext
<1> DEFINE K == JobKeys[txn[t].job]
           expires == txn[t].began + TTL
           life == IF expires >= now THEN expires - now + 1 ELSE 0
<1>1. /\ txn[t].job \in Jobs /\ txn[t].worker \in Workers
      /\ K \subseteq Keys /\ K = WrittenBy(t)
  <2>1. /\ txn[t].job \in Jobs /\ txn[t].worker \in Workers
        /\ WrittenBy(t) \subseteq K
        /\ \A k \in K : writer[k] = t
    BY DEF StatementInv, AcquireTakesFree
  <2>2. K \subseteq Keys
    BY <2>1, LockTransactionsAssumption
  <2> QED BY <2>1, <2>2 DEF WrittenBy
<1>2. /\ txn[t].began \in Nat /\ now \in Nat /\ txn[t].began <= now
      /\ TTL \in Nat
  BY LockTransactionsAssumption DEF TypeOK, Transaction, StatementInv, AcquireTakesFree
<1>3. life \in 0 .. TTL + 1
  BY <1>2
<1>4. \A k \in K : draft[k] = [job |-> txn[t].job, worker |-> txn[t].worker,
                               expires |-> expires]
  BY DEF StatementInv, AcquireTakesFree
<1>5. /\ \A k \in K : rows'[k] = draft[k]
      /\ \A k \in Keys \ K : rows'[k] = rows[k]
      /\ now' = now
  BY <1>1 DEF Commit, WrittenBy
<1>6. \A k \in K : Service!Lapsed(k)
  <2>1. ASSUME NEW k \in K
        PROVE  k \in Keys /\ (rows[k] = NoRow \/ rows[k].expires < now)
    <3>1. k \in Keys /\ k \in WrittenBy(t)
      BY <1>1
    <3>2. rows[k] = NoRow \/ rows[k].expires < txn[t].began
      BY <3>1 DEF StatementInv, AcquireTakesFree, Outlived
    <3> QED BY <1>2, <3>1, <3>2, LeftType
  <2> QED BY <2>1, DeadRowsLapsed
<1>7. ASSUME NEW k \in K
      PROVE  [job |-> rows'[k].job, worker |-> rows'[k].worker, left |-> Left(k)']
               = [job |-> txn[t].job, worker |-> txn[t].worker, left |-> life]
  <2>1. expires \in Nat
    BY <1>2
  <2> HIDE DEF expires
  <2>2. rows'[k] = [job |-> txn[t].job, worker |-> txn[t].worker, expires |-> expires]
    BY <1>4, <1>5
  <2>3. rows'[k] # NoRow
    BY <1>1, <2>1, <2>2, RowTypes
  <2> QED BY <1>5, <2>2, <2>3 DEF Left
<1>8. ASSUME NEW k \in Keys \ K
      PROVE  [job |-> rows'[k].job, worker |-> rows'[k].worker, left |-> Left(k)'] = Table[k]
  BY <1>5 DEF Table, Left
<1> HIDE DEF K, life
<1>9. Table' = [k \in Keys |->
                  IF k \in K
                  THEN [job |-> txn[t].job, worker |-> txn[t].worker, left |-> life]
                  ELSE Table[k]]
  BY <1>7, <1>8 DEF Table
<1>10. PICK j \in Jobs, w \in Workers, n \in 0 .. TTL + 1 :
          j = txn[t].job /\ w = txn[t].worker /\ n = life
  BY <1>1, <1>3
<1>11. Service!Grant(j, w, n)
  BY <1>6, <1>9, <1>10 DEF Service!Grant, Table, K
<1> QED BY <1>11, ServiceMoves

LEMMA TickServed ==
    ASSUME TypeOK, Tick
    PROVE  Service!LockServiceNext
<1>1. rows' = rows /\ now' = now + 1 /\ now \in Nat
  BY DEF Tick, TypeOK
<1>2. ASSUME NEW k \in Keys
      PROVE  Left(k)' = IF Left(k) > 0 THEN Left(k) - 1 ELSE 0
  <2>1. rows[k].expires \in Nat
    BY LeftType
  <2> QED BY <1>1, <2>1 DEF Left
<1>3. Table' = [k \in Keys |-> [Table[k] EXCEPT !.left = IF @ > 0 THEN @ - 1 ELSE 0]]
  <2>1. ASSUME NEW k \in Keys
        PROVE  [Table[k] EXCEPT !.left = IF @ > 0 THEN @ - 1 ELSE 0]
                 = [job |-> rows'[k].job, worker |-> rows'[k].worker, left |-> Left(k)']
    BY <1>1, <1>2 DEF Table
  <2> QED BY <2>1 DEF Table
<1>4. Service!TimePasses
  BY <1>3 DEF Service!TimePasses, Table
<1> QED BY <1>4 DEF Service!LockServiceNext

LEMMA ServedStep ==
    TypeOK /\ StatementInv /\ [Next]_vars => Service!LockServiceNext \/ UNCHANGED Table
<1> SUFFICES ASSUME TypeOK, StatementInv, [Next]_vars
             PROVE  Service!LockServiceNext \/ UNCHANGED Table
  OBVIOUS
<1>1. UNCHANGED <<rows, now>> => UNCHANGED Table
  BY DEF Table, Left
<1>2. ASSUME NEW t \in Txns, Finish(t)
      PROVE  Service!LockServiceNext
  <2>1. txn[t].op \in {"acquire", "delete"} /\ txn[t].todo = {} /\ Commit(t)
    BY <1>2 DEF Finish, TypeOK, Transaction
  <2> QED BY <2>1, AcquireServed, DeleteServed
<1>3. ASSUME NEW t \in Txns,
             \/ \E j \in Jobs, w \in Workers : BeginAcquire(t, j, w) \/ BeginRelease(t, j, w)
             \/ BeginCleanup(t)
             \/ Fail(t)
      PROVE  UNCHANGED <<rows, now>>
  BY <1>3 DEF BeginAcquire, BeginRelease, BeginCleanup, BeginDelete, Fail, Rollback
<1>4. ASSUME NEW t \in Txns, NEW k \in Keys,
             DeleteExpired(t, k) \/ Insert(t, k) \/ Refuse(t, k) \/ DeleteRow(t, k)
      PROVE  UNCHANGED <<rows, now>>
  BY <1>4 DEF DeleteExpired, Insert, Refuse, Rollback, DeleteRow
<1>5. CASE UNCHANGED vars
  BY <1>1, <1>5 DEF vars
<1> QED BY <1>1, <1>2, <1>3, <1>4, <1>5, TickServed, Zenon DEF Next, Step

(* However the statements of its requests interleave, the lock table keeps *)
(* the promise of LockService.                                             *)
THEOREM PromiseCorrect == Spec => Promise
<1>1. Init => Service!LockServiceInit
  BY DEF Init, Service!LockServiceInit, Service!Nobody, Left, NoRow
<1>2. TypeOK /\ StatementInv /\ [Next]_vars
      => [Service!LockServiceNext]_([k \in Keys |-> [job |-> rows[k].job,
                                                     worker |-> rows[k].worker,
                                                     left |-> Left(k)]])
  BY ServedStep DEF Table
<1> QED BY <1>1, <1>2, StatementsCorrect, PTL DEF Spec, Promise, Service!LockServiceSpec
=============================================================================
