SPECIFICATION MarketSpec
CONSTANTS
    NULL = NULL
    MaxUpsets = 2
    MaxHeight = 3
    MaxForks = 2
    MaxReorgHeight = 3
    StartHeight = 2
    LogBlocks <- MCLogBlocks
    Workers = {"live", "history"}
    LiveChunk = 2
    HistoryChunk = 2
    Lookback = 2
    MaxLag = 1
    MaxCrashes = 1
    PoolAt <- MCPools
    Sources = {1, 2, 3, 4}
    MaxAge = 2
    MaxDelivery = 2
    MaxRollback = 1
    MinuteOf <- MCMinutes
    MinutesPerHour = 2
    HoursPerDay = 2
    MaxGeneration = 2
    MaxReorgs = 1
    PricePools = {1, 2}
    MaxSampleHeight = 4
    BatchRows = 1
    Episodes = {"e1", "e2"}
    Versions <- MCVersions
    MaxSeq = 3
    MaxFaults = 1
INVARIANTS
    
    CompleteExact
    MarksSettled
    TotalsExact
    SamplesExact
    RollupExact
CHECK_DEADLOCK FALSE
