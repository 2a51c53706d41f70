\* Two remote players, whose spawns and disconnects meet in one frame.
SPECIFICATION Spec
CONSTANTS
  MAX_PLAYERS = 3
  HEARTBEAT_TIMEOUT = 1
  Cells = {1, 2}
  SnapshotSeqs = {0}
  MaxInbox = 1
  MaxUplink = 1
  MaxRefs = 2
  Remote = {2, 3}
INVARIANTS
  NoOrphans
  AvatarsComplete
  FramesComplete
  SessionConsistent
  ExitIsClean
CHECK_DEADLOCK FALSE
