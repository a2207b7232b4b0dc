SPECIFICATION FairSpec
CONSTANTS
    Clients = {c0, c1, c2}
    First = c0
    Attentive = {c1}
    Scorers = {c1}
    ErrorProne = {c2}
    FramesInFlight = 1
    TabsCloseEarly = FALSE
INVARIANTS
    TypeOK
    WorldsMirrorScene
    QueuesBelongToWorlds
PROPERTIES
    SlowTabsDelayNobody
