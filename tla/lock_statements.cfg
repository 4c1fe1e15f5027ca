CONSTANTS
    Jobs = {1, 2}
    Workers = {w1}
    Txns = {t1, t2, t3}
    Keys <- NameKeys
    KeyRank <- NameRank
    JobKeys <- Reconciled
    TTL = 1
    MaxTime = 3
    NoJob = NoJob
    NoWorker = NoWorker
    NoTxn = NoTxn
    NoVm = NoVm
CHECK_DEADLOCK FALSE
SYMMETRY Connections
SPECIFICATION Spec
INVARIANTS
    TypeOK
    StatementInv
    WaitsGoUp
PROPERTY Promise
