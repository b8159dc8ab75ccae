SPECIFICATION EdgesSpec
CONSTANTS
    NULL = NULL
    vPool = vPool
    fPool = fPool
    gPool = gPool
    Tx = {1, 2}
    Pool = {vPool, fPool, gPool}
    V4 = {vPool}
    Real = {fPool}
    Touch <- MCTouchEach
    Lp <- MCTouchEach
    Undecodable = {}
    DecodeLimit = 1
    MaxAttempts = 2
    MaxForks = 1
    MaxFaults = 0
    MaxGen = 3
    Overflow = {}
    Seeding = {}
    Owners = {A, B}
    Protocols = {"v3", "v4"}
    MaxTx = 3
    MaxBlock = 2
    MaxLiq = 1
    MaxRich = 1
    MaxRollbacks = 1
    Keys = {"k1", "k2"}
    Holders = {"A", "B"}
    Ids = {1, 2}
    Txs = {1, 2}
    TxOf <- MCTxOf
    Feeds <- MCFeeds
    Legacy <- MCLegacy
    MaxChanges = 1
    MaxEpoch = 1
    MaxFailures = 0
    MaxCrashes = 0
    MaxPages = 0
    MaxObserved = 2
    MaxDesk = 4
    FeedCap = 2
    ReplayLimit = 1
    SuffixCap = 2
    MaxFeedHeight = 2
    MaxSwitches = 1
    MaxFeedSeq = 3
    MaxRestarts = 1
    Books <- MCBooks
    BridgePools <- MCBridges
    Orders <- MCOrders
    Levels = {2, 3}
    PoolDepth = 12
    FeeBps = 1000
    SplitSteps = 3
    SplitGas = 0
    MaxImpact = 9000
    MaxMoves = 2
    Wallets = {w1, w2}
    QuoteTtl = 1
    CacheSeconds = 1
    WalletQuotes = 1
    MaxTime = 1
    MaxBlocks = 2
    MaxDeskForks = 1
    MaxQuotes = 2
    Wrap = 4
    LowerTick = 1
    UpperTick = 2
    MaxPoolTick = 2
    MaxLiquidity = 1
    MaxEarned = 2
    SimTtl = 1
    MaxSims = 1
    MaxSimulated = 1
    MaxClock = 1
    tA = tA
    tB = tB
    GateTokens = {tA, tB}
    Policies <- MCPolicies
    StoredPolicies <- MCStored
    GateCalls = {c1, c2}
    MaxBalance = 1
    GateTtl = 1
    GateGrace = 1
    WriteStep = 1
    PolicyEvery = 1
    MaxGateTime = 1
    MaxEvaluations = 2
    MaxTransfers = 1
    Nonces = {n1}
    SignIns = {h1, h2}
    Readers = {r1, r2, r3}
    FlowKeys = {k1, k2}
    BreakAfter = 2
    MaxPending = 2
    MaxAsks = 4
    Threshold = 2
    Cooldown = 1
    Window = 2
    MaxRecoveries = 1
    StallTime = 2
    MaxWdTime = 2
    WorkCounters = {1}
    Jobs = {j1, j2}
    DbPages = {p1, p2}
    Bad = Bad
    MaxCommits = 1
    MaxBackupFaults = 1
    MaxJobs = 3
INVARIANTS
    EvidenceOfStoredBlock
    AccountingExact
    TradeKept
    FeesExact
    AccessBacked
    RestartsBounded
    RestoredCommitted
    FlightsLed
    CursorHonest
    SuffixContinuous

    
    
CHECK_DEADLOCK FALSE
