CONSTANTS
    Jobs = {1, 2}
    Workers = {w1}
    Slots = {s1}
    SlotWorker <- SharedWorker
    MaxAttempts = 2
    TTL = 2
    MaxFaults = 1
    MaxCrashes = 0
    TargetHost <- OneHost
    WorkerHost <- SameHost
    JobKeys <- SameVm
    Hosts = {h1}
    Keys = {vm}
    h1 = h1
    w1 = w1
    w2 = w2
    s1 = s1
    s2 = s2
    vm = vm
    NoJob = NoJob
    NoWorker = NoWorker
CHECK_DEADLOCK FALSE
SPECIFICATION FairSpec
PROPERTIES
    JobSettles
    SettledStays
