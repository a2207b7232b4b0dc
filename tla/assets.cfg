SPECIFICATION Spec
CONSTANTS
    Paths = {p1, p2}
    Loaders = {image, shader}
    Preregistered = {image}
    MaxIndex = 2
    MaxGeneration = 1
    MaxJoins = 2
    MaxDrops = 2
INVARIANTS
    TypeOK
    HandlesNameTheirAsset
    DroppedAssetsGo
    OneSlotPerLoader
CHECK_DEADLOCK FALSE
