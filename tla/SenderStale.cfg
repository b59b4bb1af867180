SPECIFICATION Spec
CONSTANTS
    Pages = 2
    RollCheck = TRUE
    BusyRetries = 1
    OldLabels = 1
    OldErrors = TRUE
    Leftovers <- MCLeftovers
    MaxTroubles = 2
INVARIANTS
    CompletedCameOut
CHECK_DEADLOCK FALSE
