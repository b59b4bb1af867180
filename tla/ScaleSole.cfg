SPECIFICATION Spec
CONSTANTS
    h1 = h1
    h2 = h2
    r1 = r1
    r2 = r2
    w1 = w1
    w2 = w2
    Loop = Loop
    NoPort = NoPort
    Free = Free
    Http = {r1, r2}
    Ws = {w1, w2}
    Op <- MCOp
    Handles = {h1, h2}
    MaxRetries = 2
    TTL = 2
    Exclusive = TRUE
    Unplugs = FALSE
    Settles = FALSE
SYMMETRY Symmetry
INVARIANTS
    TypeOK
    SerialExclusion
    ConnectedHasPort
    NoLeak
    UpReported
    CacheForgetsTare
    StopIsFinal
