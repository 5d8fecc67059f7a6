SPECIFICATION Spec
CONSTANTS
    RingLen = 3
    CounterMod = 2
    FifoDepth = 1
    MaxSamples = 4
    SamplesPerPacket = 2
    OutgoingBurst = 2
    DecodeBurst = 2
    MinSnapshotSamples = 2
    SeqMod = 2
    RequestSeqs = {1}
    DefaultPeriod = 0
    Periods = {0}
INVARIANTS
    TypeOK
    NoSilentLoss
    StreamInOrder
    EpochFresh
    QuietAfterOff
    TelemetryOnlyWhenAsked
    MissesReported
