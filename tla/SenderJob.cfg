SPECIFICATION Spec
CONSTANTS
    Pages = 2
    RollCheck = TRUE
    BusyRetries = 1
    OldLabels = 1
    OldErrors = FALSE
    Leftovers <- MCLeftovers
    MaxTroubles = 2
INVARIANTS
    TypeOK
    CompletedCameOut
    NothingLeftToPrint
PROPERTIES
    Delivers
    SendEnds
CHECK_DEADLOCK FALSE
