SPECIFICATION Spec
CONSTANTS
    r1 = r1
    r2 = r2
    Jobs = {r1, r2}
    Tests = {}
    Labels = 2
    NoJob = NoJob
    Faults = {"cups", "cable"}
INVARIANTS
    TypeOK
    PrintedIsTrue
PROPERTIES
    FailedIsFinal
SYMMETRY Alike
CHECK_DEADLOCK FALSE
