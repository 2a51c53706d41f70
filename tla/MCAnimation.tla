---------------------------- MODULE MCAnimation ----------------------------
\* Animation for TLC: the poses a run lets the player change between.
EXTENDS Animation

PoseOf(move, running, weaponOut, action, sneaking) ==
  [move |-> move, running |-> running, weaponOut |-> weaponOut,
   action |-> action, sneaking |-> sneaking]

\* Standing, walking and running; drawing, aiming and reloading; crouching.
Soldier ==
  {PoseOf("None", FALSE, FALSE, {}, FALSE),
   PoseOf("Forward", FALSE, TRUE, {"AimingIS"}, FALSE),
   PoseOf("Forward", TRUE, TRUE, {"Reloading", "AimingIS"}, FALSE),
   PoseOf("None", FALSE, TRUE, {"AimingIS"}, TRUE)}
=============================================================================
