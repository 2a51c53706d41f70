\* Two peers and three connections: a client can find the server full, and a peer is
\* given to a second connection, the same one or another.
SPECIFICATION FairSpec
CONSTANTS
  MAX_PLAYERS = 2
  SESSIONS = 4
  MaxConnects = 3
  MaxUses = 2
INVARIANTS
  PeersGenuine
PROPERTIES
  PeerLifecycle
  PlayersFreed
  ClientLearns
CHECK_DEADLOCK FALSE
