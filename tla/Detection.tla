----------------------------- MODULE Detection -----------------------------
(***************************************************************************)
(* What a client finds out about its own player and tells the server: the  *)
(* last part of MessageHandler in main.cpp, from GetAnimAction on.         *)
(*                                                                         *)
(* Angles are bearings, counted in units, UNITS to a full turn, clockwise  *)
(* from north: so grow atan2f(dx, dy), +X being east, and the engine's     *)
(* angle Z (geck_wiki_resource/GECK-20260301214412.xml:6816; the note at   *)
(* main.cpp:119 has it the other way).  Distances and times are whole      *)
(* numbers: what matters is on which side of a threshold they are.         *)
(* Between two samples the player keeps one heading, and the engine's      *)
(* action changes no more than once in a frame.                            *)
(***************************************************************************)
EXTENDS Integers

CONSTANTS
  UNITS,           \* angle units per turn, a multiple of 16
  INTERVAL,        \* SNAPSHOT_SEND_INTERVAL, in ticks
  IDLE_THRESHOLD,  \* in distance units
  Speed,           \* of a walking player, in distance units per tick
  Frames,          \* durations of a frame, in ticks
  Headings,        \* where the player walks
  Turns,           \* by how much he turns in a frame
  Actions,         \* values of GetAnimAction
  WeaponStates,    \* values of IsWeaponOut
  MaxBacklog       \* bound: of g_snapshotAccum

ASSUME UnitsAssumption == UNITS \in Nat \ {0} /\ UNITS % 16 = 0
ASSUME IntervalAssumption == INTERVAL \in Nat \ {0} /\ MaxBacklog \in Nat
ASSUME MovementAssumption ==
  /\ IDLE_THRESHOLD \in Nat \ {0} /\ Speed \in Nat /\ Frames \subseteq Nat \ {0}
  /\ Headings \subseteq 1 - UNITS \div 2 .. UNITS \div 2 /\ Turns \subseteq Int
ASSUME EngineAssumption ==
  -1 \in Actions /\ Actions \subseteq Nat \cup {-1} /\ WeaponStates \subseteq BOOLEAN

VARIABLES
  \* The player, as the engine has him.
  heading,         \* of his walk since the last sample
  moved,           \* its length, cut at IDLE_THRESHOLD
  rotZ, animAction, weaponOut, connected,
  dt,              \* duration of the frame to be handled, 0 if none is
  \* main.cpp
  g_snapshotAccum, g_prevPosValid, g_prevRotZ, g_isWeaponOut, g_prevAnimAction,
  snapshot,        \* the one sent in this frame
  \* History.
  unannounced      \* attacks begun, less the fire events sent

engineVars == <<heading, moved, rotZ, animAction, weaponOut, connected>>
pluginVars == <<g_snapshotAccum, g_prevPosValid, g_prevRotZ, g_isWeaponOut,
                g_prevAnimAction>>
vars == <<engineVars, dt, pluginVars, snapshot, unannounced>>

Rotations == 0 .. UNITS - 1

\* MoveDirection
Leftward == {"ForwardLeft", "Left", "BackwardLeft"}
Rightward == {"ForwardRight", "Right", "BackwardRight"}
Steps == {"Forward", "Backward"} \cup Leftward \cup Rightward
MoveDirection == {"None", "TurnLeft", "TurnRight"} \cup Steps

\* What atan2f can return.
Angles == 1 - UNITS \div 2 .. UNITS \div 2

NoSnapshot == [moveDirection |-> "None", weaponOut |-> FALSE, reloading |-> FALSE]

Least(a, b) == IF a < b THEN a ELSE b

TypeOK ==
  /\ heading \in Headings /\ Headings \subseteq Angles
  /\ moved \in 0 .. IDLE_THRESHOLD
  /\ rotZ \in Rotations
  /\ animAction \in Actions
  /\ weaponOut \in WeaponStates /\ connected \in BOOLEAN
  /\ dt \in Frames \cup {0}
  /\ g_snapshotAccum \in 0 .. MaxBacklog
  /\ g_prevPosValid \in BOOLEAN
  /\ g_prevRotZ \in Rotations
  /\ g_isWeaponOut \in BOOLEAN
  /\ g_prevAnimAction \in Actions \cup {-1}
  /\ snapshot \in [moveDirection : MoveDirection, weaponOut : BOOLEAN, reloading : BOOLEAN]
  /\ unannounced \in -1 .. 1

Init ==
  /\ heading \in Headings /\ rotZ = 0
  /\ moved = 0
  /\ animAction = -1 /\ weaponOut \in WeaponStates /\ connected = FALSE
  /\ dt = 0
  /\ g_snapshotAccum = 0
  /\ g_prevPosValid = FALSE /\ g_prevRotZ = 0
  /\ g_isWeaponOut = FALSE /\ g_prevAnimAction = -1
  /\ snapshot = NoSnapshot
  /\ unannounced = 0

---------------------------------------------------------------------------
(* ComputeMoveDirection                                                    *)

\* Fault: the difference is taken as it is.
NormalizeNot(angle) == angle

\* Into -pi .. pi, with one turn at most.
Normalize(angle) ==
  CASE angle > UNITS \div 2 -> angle - UNITS
    [] angle < -(UNITS \div 2) -> angle + UNITS
    [] OTHER -> angle

PI_8 == UNITS \div 16

\* The tests of the eight sectors, by their lower edges; what is left is behind.
Sector(relAngle) ==
  CASE relAngle >= -PI_8     /\ relAngle < PI_8      -> "Forward"
    [] relAngle >= PI_8      /\ relAngle < 3 * PI_8  -> "ForwardLeft"
    [] relAngle >= 3 * PI_8  /\ relAngle < 5 * PI_8  -> "Left"
    [] relAngle >= 5 * PI_8  /\ relAngle < 7 * PI_8  -> "BackwardLeft"
    [] relAngle >= -3 * PI_8 /\ relAngle < -PI_8     -> "ForwardRight"
    [] relAngle >= -5 * PI_8 /\ relAngle < -3 * PI_8 -> "Right"
    [] relAngle >= -7 * PI_8 /\ relAngle < -5 * PI_8 -> "BackwardRight"
    [] OTHER -> "Backward"

\* A turn on the spot; any turn is above TURN_THRESHOLD.
Turn(rotDelta) ==
  CASE rotDelta > 0 -> "TurnLeft"
    [] rotDelta < 0 -> "TurnRight"
    [] OTHER -> "None"

ComputeMoveDirection ==
  CASE ~g_prevPosValid -> "None"
    [] moved < IDLE_THRESHOLD -> Turn(Normalize(rotZ - g_prevRotZ))
    [] OTHER -> Sector(Normalize(heading - rotZ))

---------------------------------------------------------------------------
(* The engine, between two frames.                                         *)

\* The attack actions: Attack, FollowThrough, ThrowAttach, ThrowRelease.
Attacks == {2, 3, 5, 6}

\* A frame of the game: the player walks or stands, turns, does something else.  He
\* starts on another heading only where a sample was taken.
Play(t) ==
  /\ dt = 0 /\ g_snapshotAccum + t <= MaxBacklog
  /\ dt' = t
  /\ \/ /\ moved' = Least(IDLE_THRESHOLD, moved + Speed * t)
        /\ heading' \in IF moved = 0 THEN Headings ELSE {heading}
     \/ UNCHANGED <<moved, heading>>
  /\ \E turn \in Turns : rotZ' = (rotZ + turn) % UNITS
  /\ animAction' \in Actions /\ weaponOut' \in WeaponStates /\ connected' \in BOOLEAN
  /\ unannounced' = unannounced +
       IF animAction' \in Attacks /\ animAction \notin Attacks /\ connected' THEN 1 ELSE 0
  /\ snapshot' = NoSnapshot
  /\ UNCHANGED pluginVars

---------------------------------------------------------------------------
(* The plug-in.                                                            *)

IsAttackAction(action) == action \in 2 .. 6 /\ action # 4

\* Equip and unequip are starting.
TrackedWeaponOut ==
  CASE animAction = 0 /\ g_prevAnimAction # 0 -> TRUE
    [] animAction = 1 /\ g_prevAnimAction # 1 -> FALSE
    [] OTHER -> g_isWeaponOut

\* Fault: every frame of an attack sends one.
FireEventsOfEveryFrame == IF IsAttackAction(animAction) /\ connected THEN 1 ELSE 0

\* Calls of SendFireEvent in this frame: one on the edge into an attack.
FireEvents ==
  IF IsAttackAction(animAction) /\ ~IsAttackAction(g_prevAnimAction) /\ connected
  THEN 1 ELSE 0

\* The fallback: IsWeaponOut corrects what was tracked, with every snapshot.
ActualWeaponOut(tracked) == weaponOut

SampleDue(accum) == connected /\ accum >= INTERVAL

\* MessageHandler from GetAnimAction on: the edge detection, and a snapshot if one is
\* due.  One interval is taken off then, however many have passed.
Handle ==
  /\ dt # 0
  /\ dt' = 0
  /\ g_prevAnimAction' = animAction
  /\ unannounced' = unannounced - FireEvents
  /\ LET accum == g_snapshotAccum + IF connected THEN dt ELSE 0
     IN  IF SampleDue(accum)
         THEN /\ g_snapshotAccum' = accum - INTERVAL
              /\ g_isWeaponOut' = ActualWeaponOut(TrackedWeaponOut)
              /\ snapshot' = [moveDirection |-> ComputeMoveDirection,
                              weaponOut |-> g_isWeaponOut', reloading |-> animAction = 9]
              /\ g_prevPosValid' = TRUE /\ g_prevRotZ' = rotZ
              /\ moved' = 0
         ELSE /\ g_snapshotAccum' = accum
              /\ g_isWeaponOut' = TrackedWeaponOut
              /\ UNCHANGED <<snapshot, g_prevPosValid, g_prevRotZ, moved>>
  /\ UNCHANGED <<heading, rotZ, animAction, weaponOut, connected>>

Next == (\E t \in Frames : Play(t)) \/ Handle

Spec == Init /\ [][Next]_vars

---------------------------------------------------------------------------
\* The handler sends a snapshot.
Samples == dt # 0 /\ connected /\ g_snapshotAccum + dt >= INTERVAL

\* How far he walks from straight ahead, whatever the side.
Aside == LET d == (heading - rotZ) % UNITS IN Least(d, UNITS - d)

\* The same by the name of the direction, in eighths of a turn (technical_spec.md:572).
NamedAside ==
  [step \in Steps |->
     CASE step = "Forward" -> 0
       [] step \in {"ForwardRight", "ForwardLeft"} -> 1
       [] step \in {"Right", "Left"} -> 2
       [] step \in {"BackwardRight", "BackwardLeft"} -> 3
       [] step = "Backward" -> 4]

\* A moving player is told to walk as far from straight ahead as he does, to a sixteenth
\* of a turn, wherever he faces and walks (main.cpp:115-146, technical_spec.md:572).
AsideTold ==
  [][Samples /\ snapshot'.moveDirection \in Steps =>
       Aside - NamedAside[snapshot'.moveDirection] * 2 * PI_8 \in -PI_8 .. PI_8]_vars

\* The two sides are never confused, also when facing and walk lie on both sides of
\* north or south: to one side of the facing all names are of the left, to the other
\* all are of the right (main.cpp:124-144).  They are told on the wrong sides, though:
\* technical_spec.md:572 has Right at 90 degrees, where the code has Left.
SidesKept ==
  [][Samples =>
       LET d == (heading - rotZ) % UNITS
       IN  /\ snapshot'.moveDirection \in Leftward => 0 < d /\ d < UNITS \div 2
           /\ snapshot'.moveDirection \in Rightward => d > UNITS \div 2]_vars

\* On the spot, a turn is told by the shorter way, also across north, and one way round
\* never has the name of the other; clockwise is TurnLeft (main.cpp:103-113).
ShorterTurn ==
  [][Samples /\ g_prevPosValid /\ moved = 0 =>
       LET d == (rotZ - g_prevRotZ) % UNITS
       IN  /\ snapshot'.moveDirection = "TurnLeft" => d \in 1 .. UNITS \div 2
           /\ snapshot'.moveDirection = "TurnRight" => d >= UNITS \div 2
           /\ snapshot'.moveDirection = "None" <=> d = 0]_vars

\* From what the others are told of the player's movement they can tell where he walks
\* and turns, if they know which side is called left (main.cpp:81-147).
Directions == AsideTold /\ SidesKept /\ ShorterTurn

\* Every attack that a frame sees begin while the client is connected is announced in
\* this frame, and announced once: neither the frames it goes on nor its follow-through
\* count again, each shot of a semi-automatic weapon does (main.cpp:277-288).
AttacksAnnounced == TypeOK /\ (dt = 0 => unannounced = 0)
=============================================================================
