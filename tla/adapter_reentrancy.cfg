CONSTANTS
  None = None
  Buffers = {b1}
  Textures = {t1}
  PlainTypes = {}
  MaxFuture = 3
  MaxPresents = 2
  MaxDepth = 3
  MaxRefs = 2
SPECIFICATION Spec
CHECK_DEADLOCK FALSE
INVARIANTS TypeOK ExactlyOnce QuietWhenSevered VsyncInOrder NoOverdueWait PendingIffOutstanding RefcountExact
