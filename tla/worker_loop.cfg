CONSTANTS
    Jobs = {1, 2}
    NoJob = NoJob
    vm1 = vm1
    vm2 = vm2
    Keys = {vm1, vm2}
    Key <- OwnVm
    Concurrency = 2
    Futures = {1, 2, 3}
    MaxMishaps = 1
    HeldElsewhere = {vm1}
SPECIFICATION FairSpec
INVARIANTS
    TypeOK
    WakesHeard
    NeverOvercommitted
    HealthCounts
    SocketReachable
PROPERTIES
    EndsGracefully
    ShutdownEnds
    QueueDrains
CHECK_DEADLOCK FALSE
