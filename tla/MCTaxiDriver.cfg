SPECIFICATION FairSpec
CONSTANTS
    Driver = {d1}
    MAX_DRIVERS = 1
    Timer <- AllTimers
    QCAP = 2
    MaxRestarts = 1
INVARIANTS Coherent TimerMatchesTask
PROPERTIES TimerFrees TypingDrains
CHECK_DEADLOCK FALSE
