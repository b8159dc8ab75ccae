SPECIFICATION Spec
CONSTANTS
    vPool = vPool  fPool = fPool  gPool = gPool
    Tx = {1, 2}
    Pool = {vPool, fPool, gPool}
    V4 = {vPool}
    Real = {vPool, fPool}
    Touch <- MCTouchLate
    Lp <- MCTouchLate
    Undecodable = {}
    DecodeLimit = 1
    MaxAttempts = 2
    MaxForks = 1
    MaxFaults = 0
    MaxGen = 3
    Overflow = {1, 2}
    Seeding = {}
INVARIANTS EvidenceOwed
CHECK_DEADLOCK FALSE
