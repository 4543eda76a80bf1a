SPECIFICATION Spec
CONSTANTS
    Inputs <- AllInputs
    Column <- Columns
    StatsLength = 2
    RunLimit = 2
    Rewrites = {TRUE, FALSE}
    Failures = TRUE
CHECK_DEADLOCK FALSE
INVARIANTS
    TypeOK
    InOrder
    EndsClean
    NeverRefused
    AllOrNothing
PROPERTIES
    FailureEndsIt
