SPECIFICATION Spec
CONSTANTS
    SEC_PER_DAY = 3
    ANNOUNCEMENT_INTERVAL = 1
    GenesisTimes <- MCGenesisTimes
    MaxTime = 8
    NoAccount = NoAccount
    Wallets = {w1, w2}
    Users = {u1, u2}
    ForeignAccounts = {f1}
    Nonces = {n1}
    WinningNonces = {n1}
    MINING_AMOUNT = 1
    MaxMined = 2
    USER_DATA_MIN_SIZE = 3
    HASH_BYTES = 2
    MAX_PERMITTED_DATA_INCREASE = 2
    MaxSize = 5
    AccountLists <- MCAccountLists
    COMPTOKEN_DISTRIBUTION_MULTIPLIER = 2
    MIN_SUPPLY_LIMIT_AMT = 3
    FUTURE_UBI_VERIFIED_HUMANS = 2
    HISTORY_SIZE = 2
    GrowthLimits <- MCGrowthLimits
INVARIANTS
    InstructionsTypeOK
    DataOpens
    
    HookFindsItsAccounts
PROPERTIES
    OwnersSign
    ImplementsProgram
SYMMETRY Symmetry
CHECK_DEADLOCK FALSE
