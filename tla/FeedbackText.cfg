SPECIFICATION Spec
CONSTANTS
    NoResponse = NoResponse
    MaxCycles = 2
    MaxFaults = 0
    MaxRestarts = 1
INVARIANT TextAfterCycle
