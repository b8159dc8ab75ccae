SPECIFICATION IndexSpec
CONSTANTS
    MaxHeight = 4
    MaxForks = 1
    MaxReorgHeight = 4
    StartHeight = 3
    LogBlocks <- MCLogBlocks
    Workers = {"live", "history"}
    LiveChunk = 2
    HistoryChunk = 2
    Lookback = 2
    MaxLag = 0
    MaxCrashes = 0
INVARIANT CoverageComplete
CHECK_DEADLOCK FALSE
