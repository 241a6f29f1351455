SPECIFICATION FairSpec
CONSTANTS
    Inputs = {i1, i2}
    Steerable = {i1, i2}
    MaxCrashes = 2
INVARIANTS
    TypeOK
    PromptedOnce
    StopHolds
    NothingDropped
    OneOpenTurn
PROPERTIES
    RequestsAreAtomic
    EveryInputCompletes
CHECK_DEADLOCK FALSE
