\* A buffer of three wraps twice; the delay spans two frames and the longest gap
\* passes the timeout.
SPECIFICATION Spec
CONSTANTS
  BUFFER_SIZE = 3
  INTERP_DELAY = 2
  EXTRAP_TIMEOUT = 3
  PI = 4
  Poses <- SomePoses
  FrameTimes = {1, 3}
  MaxTime = 9
INVARIANTS
  WindowIsRecent
  BracketExists
  VelocityIsCurrent
  DrawnOnPath
CHECK_DEADLOCK FALSE
