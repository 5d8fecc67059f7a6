SPECIFICATION SessionSpec
CONSTANTS
    Seqs = {1, 2}
    Tags <- MCTags
    NoTag <- MCNoTag
    Burst = 2
    MaxSessions = 4
    MaxCuts = 1
    MaxKills = 2
    MaxDeadlines = 1
INVARIANT WaitsForAck
CHECK_DEADLOCK FALSE
