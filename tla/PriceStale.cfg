SPECIFICATION PriceSpec
CONSTANTS
    NULL = NULL
    PoolAt <- MCPools
    Sources = {1, 2, 3, 4}
    MaxAge = 2
    MaxDelivery = 2
    MaxRollback = 1
INVARIANT PricesSettled
CHECK_DEADLOCK FALSE
