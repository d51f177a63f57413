SPECIFICATION AskingSpec
CONSTANTS
    SEC_PER_DAY = 3
    ANNOUNCEMENT_INTERVAL = 1
    GenesisTimes <- MCGenesisTimes
    MaxTime = 16
    NoAccount = NoAccount
    Users = {u1}
    Nonces = {n1}
    WinningNonces = {n1}
    MINING_AMOUNT = 1
    MAX_PERMITTED_DATA_INCREASE = 1
    MaxCapacity = 1
    MaxMined = 2
    COMPTOKEN_DISTRIBUTION_MULTIPLIER = 2
    MIN_SUPPLY_LIMIT_AMT = 3
    FUTURE_UBI_VERIFIED_HUMANS = 2
    HISTORY_SIZE = 1
    GrowthLimits <- MCGrowthLimits
PROPERTIES
    LockoutEnds
CHECK_DEADLOCK FALSE
