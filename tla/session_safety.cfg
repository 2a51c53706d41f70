\* One player of the game and the server, with a second player of whom only the messages are modelled.
SPECIFICATION SessionSpec
CONSTANTS
  MAX_PLAYERS = 2
  HEARTBEAT_TIMEOUT = 0
  Cells = {1}
  SnapshotSeqs = {0}
  MaxEntityId = 2
  MaxQueue = 1
  MaxInFlight = 1
  Me = 1
  MaxInbox = 2
  MaxUplink = 1
  MaxRefs = 1
INVARIANTS
  NoSelfAvatar
  IdentityAgreed
  AvatarsAccounted
  NoFireAfterDeparture
CHECK_DEADLOCK FALSE
