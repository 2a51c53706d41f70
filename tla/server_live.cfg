\* Datagrams in flight, and every event is handled in the end.
SPECIFICATION FairSpec
CONSTANTS
  MAX_PLAYERS = 2
  HEARTBEAT_TIMEOUT = 1
  Cells = {1}
  SnapshotSeqs = {0}
  MaxEntityId = 3
  MaxQueue = 0
  MaxInFlight = 1
INVARIANTS
  NeverAboutRecipient
PROPERTIES
  SilentPlayersLeave
  SnapshotsRelayed
