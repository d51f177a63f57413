SPECIFICATION VBSpec
CONSTANTS
    SEC_PER_DAY = 6
    ANNOUNCEMENT_INTERVAL = 2
    GenesisTimes <- MCGenesisTimes
    MaxTime = 32
PROPERTIES
    ValidHashChangesEachDay
CHECK_DEADLOCK FALSE
