SPECIFICATION Spec
CONSTANTS
    c1 = c1
    c2 = c2
    Caller <- OneCaller
    Key <- MCKey
    NoKey <- MCNoKey
    JournalOwner <- Workers
    Attempts = 2
    Amount = 1
    PeriodCap = 1
    MaxFaults = 1
    Requirements = 1
    Bounded <- NoRequirement
    MaxPlans = 2
    MaxAssets = 2
PROPERTY NoBlindRepeat
CHECK_DEADLOCK FALSE
