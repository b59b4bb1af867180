SPECIFICATION SelectSpec
CONSTANTS
    ql = ql
    pinned = pinned
    laser = laser
    Queues = {ql, pinned, laser}
    Score <- QueueScores
    Configs <- DefaultConfigs
    NoQueue = NoQueue
    MaxChanges = 2
INVARIANT LabelPrinterOnly
CHECK_DEADLOCK FALSE
