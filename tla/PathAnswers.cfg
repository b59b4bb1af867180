SPECIFICATION Spec
CONSTANTS
    r1 = r1
    r2 = r2
    Jobs = {r1, r2}
    Tests = {r1, r2}
    Labels = 1
    NoJob = NoJob
    Faults = {"keep", "opener"}
PROPERTIES
    EveryRequestAnswered
    JobsLeave
CHECK_DEADLOCK FALSE
