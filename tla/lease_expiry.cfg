CONSTANTS
    Jobs = {1, 2}
    Workers = {w1, w2}
    Slots = {s1, s2}
    SlotWorker <- OwnWorker
    MaxAttempts = 1
    TTL = 1
    MaxFaults = 0
    MaxCrashes = 0
    TargetHost <- OneHost
    WorkerHost <- SameHost
    JobKeys <- SameVm
    Hosts = {h1}
    Keys = {vm}
    h1 = h1
    w1 = w1
    w2 = w2
    s1 = s1
    s2 = s2
    vm = vm
    NoJob = NoJob
    NoWorker = NoWorker
CHECK_DEADLOCK FALSE
SPECIFICATION Spec
INVARIANT LocksSerialize
