\* A window of two frames is polled twice before it times out.
SPECIFICATION FairSpec
CONSTANTS
  UNRESTRAIN_TIMEOUT = 2
  ATTACK_DURATION = 1
  Wants <- Soldier
  WeaponTypes = {"ranged", "melee"}
INVARIANTS
  WindowMatchesPending
  SneakSettled
  PoseFollows
PROPERTIES
  WindowLimited
  WeaponTypeKnown
  WeaponFollows
CHECK_DEADLOCK FALSE
