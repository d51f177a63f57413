SPECIFICATION DeploymentSpec
CONSTANTS
    SEC_PER_DAY = 2
    ANNOUNCEMENT_INTERVAL = 1
    GenesisTimes <- MCGenesisTimes
    MaxTime = 10
    NoAccount = NoAccount
    Users = {u1, u2}
    Nonces = {n1}
    WinningNonces = {n1}
    MINING_AMOUNT = 1
    MAX_PERMITTED_DATA_INCREASE = 1
    MaxCapacity = 2
    MaxMined = 2
    COMPTOKEN_DISTRIBUTION_MULTIPLIER = 2
    MIN_SUPPLY_LIMIT_AMT = 3
    FUTURE_UBI_VERIFIED_HUMANS = 2
    HISTORY_SIZE = 2
    GrowthLimits <- MCGrowthLimits
INVARIANTS
    EarlyDatesAreBehind
PROPERTIES
    EarlyHoldersCatchUp
    DeploymentPaysWorkOnce
    EarlyHoldersForfeit
SYMMETRY Symmetry
CHECK_DEADLOCK FALSE
