SPECIFICATION IndexFairSpec
CONSTANTS
    MaxHeight = 4
    MaxForks = 1
    MaxReorgHeight = 2
    StartHeight = 2
    LogBlocks <- MCLogBlocks
    Workers = {"live", "history"}
    LiveChunk = 2
    HistoryChunk = 2
    Lookback = 2
    MaxLag = 0
    MaxCrashes = 0
PROPERTY LiveCatchesUp
CHECK_DEADLOCK FALSE
