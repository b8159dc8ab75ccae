SPECIFICATION IndexSpec
CONSTANTS
    MaxHeight = 3
    MaxForks = 1
    MaxReorgHeight = 3
    StartHeight = 2
    LogBlocks <- MCLogBlocks
    Workers = {"live", "enrich"}
    LiveChunk = 2
    HistoryChunk = 2
    Lookback = 2
    MaxLag = 0
    MaxCrashes = 0
PROPERTY NoSkip
CHECK_DEADLOCK FALSE
