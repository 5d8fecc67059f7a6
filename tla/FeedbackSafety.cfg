SPECIFICATION Spec
CONSTANTS
    NoResponse = NoResponse
    MaxCycles = 3
    MaxFaults = 2
    MaxRestarts = 1
INVARIANTS
    TypeOK
    SnapshotExact
    MisfiledNeedsTwoLosses
    SnapshotNeedsCadence
    TextAgrees
