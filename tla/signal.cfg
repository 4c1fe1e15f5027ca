CONSTANTS
    Jobs = {1}
    NoJob = NoJob
    vm1 = vm1
    vm2 = vm2
    Keys = {vm1}
    Key <- OwnVm
    HeldElsewhere = {}
    Concurrency = 1
    Futures = {1, 2}
    MaxMishaps = 0
SPECIFICATION FairSpec
PROPERTIES
    ShutdownCompletes
CHECK_DEADLOCK FALSE
