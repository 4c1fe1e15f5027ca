CONSTANTS
    Jobs = {1}
    Workers = {w1, w2}
    Slots = {s1, s2}
    SlotWorker <- OwnWorker
    MaxAttempts = 2
    TTL = 2
    MaxFaults = 1
    MaxCrashes = 1
    TargetHost <- OneHost
    WorkerHost <- SameHost
    JobKeys <- SameVm
    Hosts = {h1}
    Keys = {vm}
    h1 = h1
    w1 = w1
    w2 = w2
    s1 = s1
    s2 = s2
    vm = vm
    NoJob = NoJob
    NoWorker = NoWorker
SYMMETRY Exchange
CHECK_DEADLOCK FALSE
SPECIFICATION Spec
INVARIANTS
    LeaseInv
    Serialized
    ClaimsQueued
    ExecutionOwnership
PROPERTIES
    LocksServed
    JobsServed
