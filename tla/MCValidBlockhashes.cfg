SPECIFICATION VBFairSpec
CONSTANTS
    SEC_PER_DAY = 6
    ANNOUNCEMENT_INTERVAL = 2
    GenesisTimes <- MCGenesisTimes
    MaxTime = 48
INVARIANTS
    VBTypeOK
    DatesAligned
    NotMinedAhead
    AnnouncedFirst
PROPERTIES
    ValidHashMovesForward
    MiningReopens
CHECK_DEADLOCK FALSE
