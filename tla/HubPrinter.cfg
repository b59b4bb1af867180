SPECIFICATION Spec
CONSTANTS
    c1 = c1
    c2 = c2
    d1 = d1
    Clients = {c1, c2}
    Dialers = {d1}
    MaxClients = 1
    QueueSize = 3
    MaxEvents = 1
SYMMETRY Alike
INVARIANTS
    PrinterShown
CHECK_DEADLOCK FALSE
