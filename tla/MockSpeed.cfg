SPECIFICATION Spec
CONSTANTS
    TickMod = 800
    OutgoingBurst = 2
    DefaultPeriod = 2
    Periods = {0}
INVARIANT SpeedSensible
