SPECIFICATION LeavingSpec
CONSTANTS
    Conns = {k1, k2}
    None = none
INVARIANTS TypeOK Tracked ReleasedOnExit CloseWaits AuthFirst
PROPERTIES ShutdownCompletes
CHECK_DEADLOCK FALSE
