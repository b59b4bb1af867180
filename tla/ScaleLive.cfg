SPECIFICATION FairSpec
CONSTANTS
    h1 = h1
    h2 = h2
    r1 = r1
    r2 = r2
    w1 = w1
    w2 = w2
    Loop = Loop
    NoPort = NoPort
    Free = Free
    Http = {r1}
    Ws = {w2}
    Op <- MCOp
    Handles = {h1, h2}
    MaxRetries = 2
    TTL = 0
    Exclusive = TRUE
    Unplugs = TRUE
    Settles = TRUE
INVARIANTS
    NoUseAfterClose
PROPERTIES
    RequestsAnswered
    Reconnects
CHECK_DEADLOCK FALSE
