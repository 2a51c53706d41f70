\* Four players, half of what the server is made for; no heartbeat is due yet.
SPECIFICATION Spec
CONSTANTS
  Players = {p1, p2, p3, p4}
  INTERVAL = 7
  WAIT = 2
  Jitter = 0
  HEARTBEAT_INTERVAL = 100
  HEARTBEAT_TIMEOUT = 100
  Frames = {50}
  MaxDelay = 0
  MaxAccum = 50
  MaxDebt = 40
INVARIANTS
  RateKept
CHECK_DEADLOCK FALSE
