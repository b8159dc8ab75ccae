SPECIFICATION QueuesSpec
CONSTANTS
    vPool = vPool  fPool = fPool  gPool = gPool
    NULL = NULL
    Tx = {1, 2}
    Pool = {vPool, fPool, gPool}
    V4 = {vPool}
    Real = {vPool, fPool}
    Touch <- MCTouchFake
    Lp <- MCLpFirst
    Undecodable = {}
    DecodeLimit = 1
    MaxAttempts = 2
    MaxForks = 0
    MaxFaults = 1
    MaxGen = 7
    Overflow = {1}
    Seeding = {1}
    Keys = {"k1", "k2"}
    Holders = {"A", "B"}
    Ids = {1, 2}
    Txs = {1, 2}
    TxOf <- MCTxOf
    MaxChanges = 1
    MaxEpoch = 0
    MaxFailures = 1
    MaxCrashes = 1
    MaxPages = 1
    Feeds <- MCFeeds
    Legacy <- MCLegacy
INVARIANTS
    EvidenceOwed
    NoLogLost
PROPERTIES
    EnrichmentDrains
    BooksDrained
CHECK_DEADLOCK FALSE
