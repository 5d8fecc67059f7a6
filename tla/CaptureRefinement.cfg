SPECIFICATION FairSpec
CONSTANTS
    Nobody = Nobody
    RingLen = 3
    CounterMod = 2
    FifoDepth = 1
    MaxSamples = 3
    SamplesPerPacket = 2
    OutgoingBurst = 2
    DecodeBurst = 2
    MinSnapshotSamples = 2
    SeqMod = 2
    RequestSeqs = {1}
    DefaultPeriod = 0
    Periods = {0}
PROPERTIES
    SamplesLeaveRing
    TelemetryFlows
    ImplementsBridge
