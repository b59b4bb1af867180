SPECIFICATION StationSpec
CONSTANTS
    Jobs = {j1}
    Shows = {w1, w2}
    Acts = {a1}
    Patience = 1
    Recent = 1
    ql = ql
    pinned = pinned
    laser = laser
    Queues = {ql, pinned, laser}
    Score <- QueueScores
    Configs <- SiteConfigs
    NoQueue = NoQueue
    MaxChanges = 2
    Loads = {l1, l2}
    None = None
    Program <- TypedScan
    MaxScans = 2
    Pollers = {p1}
    RowData = {0, 26, 27}
    RowBytes = 2
    Heights = {1}
    MaxPages = 2
    Invalidates = 1
    Head1 = 1
    Head2 = 2
    Payload = {3}
    FrameSize = 3
    StreamLength = 7
    DaysPerMonth = 2
    Year = 2
    MaxDay = 7
    Colon = "colon"
    Backslash = "backslash"
    Letters = {"a"}
    MaxName = 2
    Holdings <- TwoProfiles
INVARIANTS
    StationTypeOK
    PinnedWins
    LabelPrinterOnly
    OneBehind
    AnswersBelong
    WholeScans
    LabelsCounted
    FramesFound
    LinesKept
    SavedOnly
PROPERTIES
    StallNoticed
    LedgerForgets
    NewestOnce
    ScansArrive
CHECK_DEADLOCK FALSE
