CONSTANTS
  NoOne = NoOne
  Ids = {1, 2}
  Apps = {a1, a2}
  MAX_CONNECTIONS = 1
  MAX_PENDING_EVENTS = 1
  MaxEvents = 2
  MaxPresents = 1
  MaxHandles = 1
SPECIFICATION FairSpec
CHECK_DEADLOCK FALSE
INVARIANTS TypeOK LiveExact SafeToFree VsyncExact DisconnectedKept
PROPERTY Released
