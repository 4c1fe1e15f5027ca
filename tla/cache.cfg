CONSTANTS
    Vms = {1, 2}
    Jobs = {j1, j2}
    Host = h1
    Existing = {1}
    MaxAttempts = 1
    MaxFaults = 0
    MaxDeletes = 1
    NoRow = NoRow
    NoVm = NoVm
SPECIFICATION FairSpec
PROPERTIES
    CacheConverges
