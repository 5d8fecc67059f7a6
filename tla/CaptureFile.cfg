SPECIFICATION FairSpec
CONSTANTS
    Formats = {0, 1, 2, 3}
    Totals = {0, 1}
    SampleCounts = {1, 2, 3}
    MaxBatchSamples = 2
    MaxBatches = 2
INVARIANTS
    TypeOK
    ReplayFaithful
PROPERTIES
    CleanEndIsComplete
    TruncationIsReal
    ReplayEnds
    ImplementsReplay
CHECK_DEADLOCK FALSE
