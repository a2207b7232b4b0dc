SPECIFICATION Spec
CONSTANTS
    AppThreads = {a1, a2}
    Reader = reader
    Callbacks = callbacks
    NoThread = none
    ReplacesHandler = TRUE
    MaxCalls = 3
    MaxEvents = 2
INVARIANT NoWaitCycle
CHECK_DEADLOCK FALSE
