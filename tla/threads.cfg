SPECIFICATION FairSpec
CONSTANTS
    AppThreads = {a1, a2}
    Reader = reader
    Callbacks = callbacks
    NoThread = none
    ReplacesHandler = FALSE
    MaxCalls = 2
    MaxEvents = 2
INVARIANTS
    TypeOK
    OwnedByItsGuards
    SleepersAreWoken
    NoWaitCycle
PROPERTY CallsReturn
CHECK_DEADLOCK FALSE
