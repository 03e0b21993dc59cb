SPECIFICATION Spec
CONSTANTS
    c1 = c1
    c2 = c2
    Caller <- TwoCallers
    Key <- MCKey
    NoKey <- MCNoKey
    JournalOwner <- Workers
    Attempts = 2
    Amount = 1
    PeriodCap = 1
    MaxFaults = 1
    Requirements = 1
    Bounded <- FirstRequirement
    MaxPlans = 2
    MaxAssets = 2
CONSTRAINT Pairwise
SYMMETRY CallerSymmetry
INVARIANTS EffectOncePerKey WithinBudget ApprovedBeforeEffect AssetIsSettled CompletedIsProvisioned NoLogicalDuplicate
CHECK_DEADLOCK FALSE
