SPECIFICATION Spec
CONSTANTS
    Worlds = {w0, w1, w2}
    First = w0
    Assets = {a1}
    MaxVersion = 2
INVARIANTS
    TypeOK
    AssetsReachWorlds
    UnusedAssetsGo
PROPERTIES
    NeverOlder
