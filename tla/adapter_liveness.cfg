CONSTANTS
  None = None
  Buffers = {b1}
  Textures = {t1}
  PlainTypes = {"WORK_DONE"}
  MaxFuture = 2
  MaxPresents = 2
  MaxDepth = 2
  MaxRefs = 1
SPECIFICATION FairSpec
CHECK_DEADLOCK FALSE
PROPERTIES KeepsPromise AwaitedVsyncFires
