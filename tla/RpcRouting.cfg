SPECIFICATION FairSpec
CONSTANTS
    Caller = {"batch", "call"}
    Size <- MCSize
    Sources <- MCSources
    Limit <- MCLimit
    Local = {"near"}
    Foreign = {"fork"}
    Explorer = "explorer"
    LogCaller = {"call"}
INVARIANTS
    NullIsKnown
    ChainVerified
    SessionsOutliveRequests
PROPERTIES
    EveryBatchReturns
    CloseReturns
CHECK_DEADLOCK FALSE
