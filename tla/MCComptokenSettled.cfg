SPECIFICATION SettledSpec
CONSTANTS
    SEC_PER_DAY = 2
    ANNOUNCEMENT_INTERVAL = 1
    GenesisTimes <- MCGenesisTimes
    MaxTime = 9
    NoAccount = NoAccount
    Users = {u1, u2, u3}
    Nonces = {n1}
    WinningNonces = {n1}
    MINING_AMOUNT = 1
    MAX_PERMITTED_DATA_INCREASE = 0
    MaxCapacity = 1
    MaxMined = 4
    COMPTOKEN_DISTRIBUTION_MULTIPLIER = 2
    MIN_SUPPLY_LIMIT_AMT = 3
    FUTURE_UBI_VERIFIED_HUMANS = 2
    HISTORY_SIZE = 2
    GrowthLimits <- MCGrowthLimits
INVARIANTS
    InterestIsFunded
SYMMETRY Symmetry
CHECK_DEADLOCK FALSE
