SPECIFICATION Spec
CONSTANTS
    Clients = {c0, c1}
    First = c0
    Attentive = {}
    Scorers = {}
    ErrorProne = {}
    FramesInFlight = 1
    TabsCloseEarly = TRUE
INVARIANTS
    TabsDoNotStopTheGame
CHECK_DEADLOCK FALSE
