\* Every facing in units of a sixteenth of a turn; an equip, semi-automatic
\* fire (2, 4, 2) and a follow-through (2, 3); long frames.
SPECIFICATION Spec
CONSTANTS
  UNITS = 16
  INTERVAL = 2
  IDLE_THRESHOLD = 3
  Speed = 2
  Frames = {1, 3}
  Headings <- SomeHeadings
  Turns <- SmallTurns
  Actions <- SomeActions
  WeaponStates = {TRUE, FALSE}
  MaxBacklog = 4
INVARIANTS
  AttacksAnnounced
PROPERTIES
  Directions
CHECK_DEADLOCK FALSE
