SPECIFICATION FairSpec
CONSTANTS
    TickMod = 1600
    OutgoingBurst = 2
    DefaultPeriod = 2
    Periods = {0, 2}
INVARIANTS
    TypeOK
    SnapshotRecent
    NoOldPeriod
PROPERTY MockTelemetryFlows
