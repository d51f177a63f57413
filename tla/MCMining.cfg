SPECIFICATION MiningSpec
CONSTANTS
    SEC_PER_DAY = 3
    ANNOUNCEMENT_INTERVAL = 1
    GenesisTimes <- MCGenesisTimes
    MaxTime = 10
    NoAccount = NoAccount
    Users = {u1, u2}
    Nonces = {n1, n2, n3}
    WinningNonces = {n1, n2}
    MINING_AMOUNT = 5
    MAX_PERMITTED_DATA_INCREASE = 1
    MaxCapacity = 2
INVARIANTS
    MiningTypeOK
    AccountsOpen
    ListIsHistory
    ListsAreUpToDate
    SupplyIsWork
PROPERTIES
    PaysWorkOnce
SYMMETRY Symmetry
CHECK_DEADLOCK FALSE
