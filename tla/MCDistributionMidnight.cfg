SPECIFICATION DDSpec
CONSTANTS
    SEC_PER_DAY = 3
    ANNOUNCEMENT_INTERVAL = 1
    GenesisTimes <- MCGenesisTimes
    MaxTime = 14
    COMPTOKEN_DISTRIBUTION_MULTIPLIER = 2
    MIN_SUPPLY_LIMIT_AMT = 3
    FUTURE_UBI_VERIFIED_HUMANS = 2
    HISTORY_SIZE = 2
    GrowthLimits <- MCGrowthLimits
    MINING_AMOUNT = 1
    TestAmounts = {}
    MaxMined = 4
PROPERTIES
    DistributionDatesBlockhash
CHECK_DEADLOCK FALSE
