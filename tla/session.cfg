SPECIFICATION FairSpec
CONSTANTS
    Buffers = {b1}
    Textures = {t1}
    Frames = {f1}
    NoObject = none
    MaxGpus = 2
    Losable = {2}
    Devices = {1}
    NoDevice = 0
    MaxRequests = 2
    MaxCalls = 5
    MaxDown = 2
INVARIANTS
    TypeOK
    NamesResolve
    NoOrphans
    MapAgrees
    RequestTracked
    FramesCounted
PROPERTY Answered
CHECK_DEADLOCK FALSE
