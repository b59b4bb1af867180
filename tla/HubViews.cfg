SPECIFICATION PeersSpec
CONSTANTS
    c1 = c1
    c2 = c2
    d1 = d1
    Clients = {c1, c2}
    Dialers = {d1}
    MaxClients = 2
    QueueSize = 2
    MaxEvents = 1
INVARIANTS
    TypeOK
    RegistryTrue
PROPERTIES
    IterationStable
    ScaleShown
    LostLeave
    StopEmpties
CHECK_DEADLOCK FALSE
