SPECIFICATION Spec
CONSTANTS
    Versions = {1, 2, 3}
    SampleCounts = {1, 5, 15, 36, 68, 99}
    MaxPackets = 3
    MaxCuts = 2
INVARIANTS
    TypeOK
    Genuine
    DamageContained
    FreshSnapshot
PROPERTIES
    ImplementsLink
