SPECIFICATION Spec
CONSTANTS
    r1 = r1
    r2 = r2
    Jobs = {r1, r2}
    Tests = {}
    Labels = 2
    NoJob = NoJob
    Faults = {}
PROPERTIES
    CanceledIsNotDone
CHECK_DEADLOCK FALSE
