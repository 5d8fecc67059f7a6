SPECIFICATION FairLoss
CONSTANTS
    Seqs = {1, 2}
    Tags <- MCTags
    NoTag <- MCNoTag
    Burst = 1
    MaxSessions = 3
    MaxCuts = 1
    MaxKills = 2
    MaxDeadlines = 1
    CounterMod = 2
    MaxLost = 2
INVARIANTS
    TypeOK
    ModeAsWanted
    OwnSamples
    NeverWedged
    LossTypeOK
    LossesTrue
PROPERTY RequestAnswered
CHECK_DEADLOCK FALSE
