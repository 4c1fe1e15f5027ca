CONSTANTS
    Vms = {1, 2}
    Jobs = {j1, j2}
    Host = h1
    Existing = {1}
    MaxAttempts = 2
    MaxFaults = 1
    MaxDeletes = 0
    NoRow = NoRow
    NoVm = NoVm
SYMMETRY JobSymmetry
SPECIFICATION Spec
INVARIANTS
    TypeOK
    MachinesHaveMakers
    MachinesStay
    SnapshotsRecorded
    MachineInv
PROPERTIES
    RecordsOutlive
    JobsServed
