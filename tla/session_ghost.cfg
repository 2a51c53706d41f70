\* A player leaves while a snapshot about it is on its way.
SPECIFICATION SessionSpec
CONSTANTS
  MAX_PLAYERS = 2
  HEARTBEAT_TIMEOUT = 0
  Cells = {1}
  SnapshotSeqs = {0}
  MaxEntityId = 2
  MaxQueue = 1
  MaxInFlight = 1
  Me = 1
  MaxInbox = 2
  MaxUplink = 1
  MaxRefs = 1
INVARIANTS
  DepartedAreDespawned
CHECK_DEADLOCK FALSE
