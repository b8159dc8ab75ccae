SPECIFICATION SteadySpec
CONSTANTS
    MaxHeight = 5
    MaxForks = 1
    MaxReorgHeight = 3
    StartHeight = 2
    LogBlocks <- MCLogBlocks
    Workers = {"live", "enrich"}
    LiveChunk = 2
    HistoryChunk = 2
    Lookback = 0
    MaxLag = 1
    MaxCrashes = 0
PROPERTY LiveCatchesUp
CHECK_DEADLOCK FALSE
