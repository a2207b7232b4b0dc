SPECIFICATION Spec
CONSTANTS
    Buffers = {b1}
    Textures = {t1}
    Frames = {f1}
    NoObject = none
    MaxGpus = 1
    Losable = {1}
    Devices = {1}
    NoDevice = 0
    MaxRequests = 2
    MaxCalls = 5
    MaxDown = 2
PROPERTY UnmapUnmaps
CHECK_DEADLOCK FALSE
