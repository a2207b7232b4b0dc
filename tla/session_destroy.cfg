SPECIFICATION Spec
CONSTANTS
    Buffers = {b1}
    Textures = {t1}
    Frames = {f1}
    NoObject = none
    MaxGpus = 2
    Losable = {1, 2}
    Devices = {1, 2}
    NoDevice = 0
    MaxRequests = 2
    MaxCalls = 5
    MaxDown = 2
INVARIANT DestroyedDeviceIsLost
CHECK_DEADLOCK FALSE
