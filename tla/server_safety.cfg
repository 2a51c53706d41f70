\* Three slots and three connections: departures have two witnesses, two players
\* can time out in one pass, and slots are used again.
SPECIFICATION Spec
CONSTANTS
  MAX_PLAYERS = 3
  HEARTBEAT_TIMEOUT = 0
  Cells = {1}
  SnapshotSeqs = {0}
  MaxEntityId = 3
  MaxQueue = 1
  MaxInFlight = 0
INVARIANTS
  PlayersMatchPeers
  AckMatchesPlayer
  DisconnectIsFinal
PROPERTIES
  DeparturesAnnounced
  RosterSpec
