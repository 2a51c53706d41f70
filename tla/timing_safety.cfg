\* Two players with jitter, and a client with frames longer than its heartbeats' interval.
SPECIFICATION Spec
CONSTANTS
  Players = {p1, p2}
  INTERVAL = 7
  WAIT = 2
  Jitter = 1
  HEARTBEAT_INTERVAL = 9
  HEARTBEAT_TIMEOUT = 21
  Frames = {3, 11}
  MaxDelay = 1
  MaxAccum = 19
  MaxDebt = 40
INVARIANTS
  NoDrift
  RateKept
  LiveIsKept
  DroppedInTime
CHECK_DEADLOCK FALSE
