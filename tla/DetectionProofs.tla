--------------------------- MODULE DetectionProofs ---------------------------
(***************************************************************************)
(* Proofs about Detection, for every resolution of the angles, so that     *)
(* nothing depends on where the units lie, every frame rate and every      *)
(* sequence of actions the engine reports.                                 *)
(***************************************************************************)
EXTENDS Detection, TLAPS

\* The units of a turn: a sixteenth of it is what the code calls pi/8.
LEMMA Units ==
  /\ PI_8 \in Nat \ {0}
  /\ UNITS = 16 * PI_8 /\ UNITS \div 2 = 8 * PI_8
<1>1. \A n \in Nat \ {0} : n % 16 = 0 =>
        n \div 16 \in Nat \ {0} /\ n = 16 * (n \div 16) /\ n \div 2 = 8 * (n \div 16)
  BY Z3
<1> QED BY <1>1, UnitsAssumption DEF PI_8

\* A remainder is found by adding or taking off whole turns.
LEMMA Remainder ==
  ASSUME NEW n \in Nat \ {0}, NEW x \in Int
  PROVE  /\ x % n \in 0 .. n - 1
         /\ x \in 0 .. n - 1 => x % n = x
         /\ x \in -n .. -1 => x % n = x + n
         /\ x \in -2 * n .. -n - 1 => x % n = x + 2 * n
<1> DEFINE q == x \div n
           r == x % n
<1>1. q \in Int /\ r \in 0 .. n - 1 /\ x = q * n + r BY Z3
<1> HIDE DEF q, r
<1>2. \A i \in Int : x - i * n \in 0 .. n - 1 => q = i
  <2> SUFFICES ASSUME NEW i \in Int, x - i * n \in 0 .. n - 1 PROVE q = i OBVIOUS
  <2> DEFINE e == q - i
  <2>1. e \in Int /\ e * n = q * n - i * n BY <1>1
  <2>2. e * n < n /\ e * n > -n BY <1>1, <2>1
  <2> HIDE DEF e
  <2>3. ~(e >= 1)
    <3> SUFFICES ASSUME e >= 1 PROVE FALSE OBVIOUS
    <3>1. e * n >= n BY <2>1
    <3>   QED BY <3>1, <2>1, <2>2
  <2>4. ~(e <= -1)
    <3> SUFFICES ASSUME e <= -1 PROVE FALSE OBVIOUS
    <3>1. e * n <= -n BY <2>1
    <3>   QED BY <3>1, <2>1, <2>2
  <2>5. e = 0 BY <2>1, <2>3, <2>4
  <2>   QED BY <2>5, <1>1 DEF e
<1>3. x \in 0 .. n - 1 => q = 0 BY <1>2
<1>4. x \in -n .. -1 => q = -1 BY <1>2
<1>5. x \in -2 * n .. -n - 1 => q = -2 BY <1>2
<1>6. /\ q = 0 => r = x
      /\ q = -1 => r = x + n
      /\ q = -2 => r = x + 2 * n
  BY <1>1
<1> QED BY <1>1, <1>3, <1>4, <1>5, <1>6 DEF r

\* The single turn Normalize adds or takes off is enough for the difference of a
\* heading and a facing, and of two facings.
LEMMA NormalizeRange ==
  ASSUME NEW x \in Int, x \in -(24 * PI_8) .. 24 * PI_8
  PROVE  /\ Normalize(x) \in -(8 * PI_8) .. 8 * PI_8
         /\ x > 8 * PI_8 => Normalize(x) = x - UNITS
         /\ x < -(8 * PI_8) => Normalize(x) = x + UNITS
         /\ x \in -(8 * PI_8) .. 8 * PI_8 => Normalize(x) = x
<1>1. PI_8 \in Nat \ {0} /\ UNITS = 16 * PI_8 /\ UNITS \div 2 = 8 * PI_8 BY Units
<1>2. /\ x > 8 * PI_8 => Normalize(x) = x - UNITS
      /\ x < -(8 * PI_8) => Normalize(x) = x + UNITS
      /\ x \in -(8 * PI_8) .. 8 * PI_8 => Normalize(x) = x
  BY <1>1 DEF Normalize
<1> QED BY <1>1, <1>2

\* What a direction's name says, one by one.
LEMMA Names ==
  /\ NamedAside["Forward"] = 0 /\ NamedAside["Backward"] = 4
  /\ NamedAside["ForwardLeft"] = 1 /\ NamedAside["ForwardRight"] = 1
  /\ NamedAside["Left"] = 2 /\ NamedAside["Right"] = 2
  /\ NamedAside["BackwardLeft"] = 3 /\ NamedAside["BackwardRight"] = 3
  BY DEF NamedAside, Steps, Leftward, Rightward

\* The tests of the sectors leave no gap: each finds the name that is as far from
\* straight ahead, and every name of a side lies on that side.
LEMMA SectorRight ==
  ASSUME NEW r \in -(8 * PI_8) .. 8 * PI_8
  PROVE  /\ Sector(r) \in Steps
         /\ (IF r >= 0 THEN r ELSE -r) - NamedAside[Sector(r)] * 2 * PI_8 \in -PI_8 .. PI_8
         /\ Sector(r) \in Leftward => 0 < r /\ r < 8 * PI_8
         /\ Sector(r) \in Rightward => -(8 * PI_8) < r /\ r < 0
<1> USE DEF Steps, Leftward, Rightward
<1>1. PI_8 \in Nat \ {0} /\ r \in Int BY Units
<1>2. CASE r >= -PI_8 /\ r < PI_8
  <2>1. Sector(r) = "Forward" BY <1>1, <1>2 DEF Sector
  <2>   QED BY <1>1, <1>2, <2>1, Names
<1>3. CASE r >= PI_8 /\ r < 3 * PI_8
  <2>1. Sector(r) = "ForwardLeft" BY <1>1, <1>3 DEF Sector
  <2>   QED BY <1>1, <1>3, <2>1, Names
<1>4. CASE r >= 3 * PI_8 /\ r < 5 * PI_8
  <2>1. Sector(r) = "Left" BY <1>1, <1>4 DEF Sector
  <2>   QED BY <1>1, <1>4, <2>1, Names
<1>5. CASE r >= 5 * PI_8 /\ r < 7 * PI_8
  <2>1. Sector(r) = "BackwardLeft" BY <1>1, <1>5 DEF Sector
  <2>   QED BY <1>1, <1>5, <2>1, Names
<1>6. CASE r >= -(3 * PI_8) /\ r < -PI_8
  <2>1. Sector(r) = "ForwardRight" BY <1>1, <1>6 DEF Sector
  <2>   QED BY <1>1, <1>6, <2>1, Names
<1>7. CASE r >= -(5 * PI_8) /\ r < -(3 * PI_8)
  <2>1. Sector(r) = "Right" BY <1>1, <1>7 DEF Sector
  <2>   QED BY <1>1, <1>7, <2>1, Names
<1>8. CASE r >= -(7 * PI_8) /\ r < -(5 * PI_8)
  <2>1. Sector(r) = "BackwardRight" BY <1>1, <1>8 DEF Sector
  <2>   QED BY <1>1, <1>8, <2>1, Names
<1>9. CASE r >= 7 * PI_8 \/ r < -(7 * PI_8)
  <2>1. Sector(r) = "Backward" BY <1>1, <1>9 DEF Sector
  <2>   QED BY <1>1, <1>9, <2>1, Names
<1> QED BY <1>1, <1>2, <1>3, <1>4, <1>5, <1>6, <1>7, <1>8, <1>9

\* Going on clockwise from the facing, a walk to the one side is met in the first half of
\* the turn, a walk to the other in the second.
LEMMA Clockwise ==
  ASSUME NEW x \in Int, x \in -(24 * PI_8) .. 8 * PI_8
  PROVE  /\ Normalize(x) >= 0 => x % UNITS = Normalize(x)
         /\ Normalize(x) < 0 => x % UNITS = Normalize(x) + UNITS
<1>1. PI_8 \in Nat \ {0} /\ UNITS \in Nat \ {0} /\ UNITS = 16 * PI_8
  BY Units, UnitsAssumption
<1> DEFINE r == Normalize(x)
           d == x % UNITS
<1>2. r \in -(8 * PI_8) .. 8 * PI_8 /\ (r = x \/ r = x + UNITS)
  <2>1. x \in -(24 * PI_8) .. 24 * PI_8 BY <1>1
  <2>   QED BY <1>1, <2>1, NormalizeRange
<1>3. /\ x \in 0 .. UNITS - 1 => d = x
      /\ x \in -UNITS .. -1 => d = x + UNITS
      /\ x \in -2 * UNITS .. -UNITS - 1 => d = x + 2 * UNITS
  <2>1. UNITS \in Nat \ {0} /\ x \in Int BY <1>1
  <2>   QED BY ONLY <2>1, Remainder, Zenon
<1> HIDE DEF r, d
<1>4. (r >= 0 => d = r) /\ (r < 0 => d = r + UNITS)
  <2>1. CASE r = x
    <3>1. x \in 0 .. UNITS - 1 \/ x \in -UNITS .. -1 BY <1>1, <1>2, <2>1
    <3>   QED BY <1>1, <1>3, <2>1, <3>1
  <2>2. CASE r = x + UNITS
    <3>1. x \in -UNITS .. -1 \/ x \in -2 * UNITS .. -UNITS - 1 BY <1>1, <1>2, <2>2
    <3>   QED BY <1>1, <1>3, <2>2, <3>1
  <2>   QED BY <1>2, <2>1, <2>2
<1> QED BY <1>4 DEF r, d

---------------------------------------------------------------------------
\* Between two frames the plug-in has seen every action; an attack that is still to be
\* announced is the edge the coming call will see.
Edges ==
  /\ dt = 0 => g_prevAnimAction = animAction /\ unannounced = 0
  /\ dt # 0 => unannounced = IF /\ animAction \in Attacks
                                 /\ g_prevAnimAction \notin Attacks /\ connected
                              THEN 1 ELSE 0

IInv == TypeOK /\ Edges /\ g_snapshotAccum + dt <= MaxBacklog

LEMMA InitIInv == Init => IInv
<1> SUFFICES ASSUME Init PROVE IInv OBVIOUS
<1>1. 0 \in Rotations BY Units, UnitsAssumption DEF Rotations
<1>2. snapshot \in [moveDirection : MoveDirection, weaponOut : BOOLEAN, reloading : BOOLEAN]
  BY DEF Init, NoSnapshot, MoveDirection
<1>3. /\ heading \in Headings /\ Headings \subseteq Angles
      /\ moved \in 0 .. IDLE_THRESHOLD /\ g_snapshotAccum \in 0 .. MaxBacklog
      /\ g_snapshotAccum + dt <= MaxBacklog
  BY IntervalAssumption, MovementAssumption DEF Init, Angles
<1>4. /\ animAction \in Actions /\ weaponOut \in WeaponStates
      /\ g_prevAnimAction \in Actions \cup {-1}
  BY EngineAssumption DEF Init
<1>5. /\ rotZ \in Rotations /\ g_prevRotZ \in Rotations
      /\ dt \in Frames \cup {0} /\ unannounced \in -1 .. 1
  BY <1>1 DEF Init
<1>6. connected \in BOOLEAN /\ g_prevPosValid \in BOOLEAN /\ g_isWeaponOut \in BOOLEAN
  BY Zenon DEF Init
<1>7. TypeOK BY <1>2, <1>3, <1>4, <1>5, <1>6 DEF TypeOK
<1> QED BY <1>3, <1>7 DEF IInv, Edges, Init

LEMMA RotationType ==
  ASSUME NEW x \in Int
  PROVE  x % UNITS \in Rotations
<1>1. UNITS \in Nat \ {0} BY UnitsAssumption
<1>2. x % UNITS \in 0 .. UNITS - 1 BY ONLY <1>1, x \in Int, Remainder, Zenon
<1> QED BY <1>2 DEF Rotations

LEMMA DirectionType ==
  ASSUME TypeOK
  PROVE  ComputeMoveDirection \in MoveDirection
<1>1. PI_8 \in Nat \ {0} /\ UNITS = 16 * PI_8 /\ UNITS \div 2 = 8 * PI_8 BY Units
<1>2. /\ heading \in Int /\ heading \in 1 - 8 * PI_8 .. 8 * PI_8
      /\ rotZ \in 0 .. 16 * PI_8 - 1 /\ g_prevRotZ \in 0 .. 16 * PI_8 - 1
  BY <1>1 DEF TypeOK, Angles, Rotations
<1> DEFINE r == Normalize(heading - rotZ)
<1>3. r \in -(8 * PI_8) .. 8 * PI_8
  <2>1. heading - rotZ \in Int /\ heading - rotZ \in -(24 * PI_8) .. 24 * PI_8 BY <1>1, <1>2
  <2>   QED BY <2>1, NormalizeRange
<1>4. Sector(r) \in Steps
  <2>   HIDE DEF r
  <2>   QED BY <1>3, SectorRight
<1>5. Turn(Normalize(rotZ - g_prevRotZ)) \in {"TurnLeft", "TurnRight", "None"}
  BY DEF Turn
<1> HIDE DEF r
<1>6. ComputeMoveDirection \in {"None", Turn(Normalize(rotZ - g_prevRotZ)), Sector(r)}
  BY DEF ComputeMoveDirection, r
<1> QED BY <1>4, <1>5, <1>6 DEF MoveDirection

LEMMA PlayIInv ==
  ASSUME IInv, NEW t \in Frames, Play(t)
  PROVE  IInv'
<1>0. TypeOK /\ Edges BY DEF IInv
<1>1. t \in Nat \ {0} BY MovementAssumption
<1>2. heading' \in Headings /\ moved' \in 0 .. IDLE_THRESHOLD
  <2>1. CASE UNCHANGED <<moved, heading>> BY <2>1, <1>0 DEF TypeOK
  <2>2. CASE /\ moved' = Least(IDLE_THRESHOLD, moved + Speed * t)
             /\ heading' \in IF moved = 0 THEN Headings ELSE {heading}
    <3>1. heading' \in Headings BY <2>2, <1>0 DEF TypeOK
    <3> DEFINE way == Speed * t
    <3>2. way \in Nat BY <1>1, MovementAssumption
    <3> HIDE DEF way
    <3>3. Least(IDLE_THRESHOLD, moved + way) \in 0 .. IDLE_THRESHOLD
      BY <3>2, <1>0, MovementAssumption DEF Least, TypeOK
    <3>   QED BY <2>2, <3>1, <3>3 DEF way
  <2>   QED BY <2>1, <2>2 DEF Play
<1>3. rotZ' \in Rotations
  <2>1. PICK turn \in Turns : rotZ' = (rotZ + turn) % UNITS BY DEF Play
  <2>2. rotZ + turn \in Int BY <1>0, MovementAssumption, UnitsAssumption DEF TypeOK, Rotations
  <2>   QED BY <2>1, <2>2, RotationType
<1>4. /\ dt' = t /\ animAction' \in Actions /\ weaponOut' \in WeaponStates
      /\ connected' \in BOOLEAN /\ UNCHANGED pluginVars /\ snapshot' = NoSnapshot
      /\ unannounced' = unannounced +
           IF animAction' \in Attacks /\ animAction \notin Attacks /\ connected' THEN 1 ELSE 0
  BY DEF Play
<1>5. TypeOK'
  <2>1. snapshot' \in [moveDirection : MoveDirection, weaponOut : BOOLEAN, reloading : BOOLEAN]
    BY <1>4 DEF NoSnapshot, MoveDirection
  <2>2. unannounced' \in {0, 1} BY <1>0, <1>4 DEF Edges, Play
  <2>3. unannounced' \in -1 .. 1 BY <2>2
  <2>   QED BY <1>0, <1>2, <1>3, <1>4, <2>1, <2>3 DEF TypeOK, pluginVars
<1>6. Edges' BY <1>0, <1>1, <1>4 DEF Edges, Play, pluginVars
<1>7. g_snapshotAccum' + dt' <= MaxBacklog BY <1>4 DEF Play, pluginVars
<1> QED BY <1>5, <1>6, <1>7 DEF IInv

\* What the handler does when a snapshot is due, and what when none is.
LEMMA HandleCases ==
  ASSUME IInv, Handle
  PROVE  /\ Samples =>
              /\ g_snapshotAccum' = (g_snapshotAccum + dt) - INTERVAL
              /\ g_isWeaponOut' = weaponOut
              /\ snapshot' = [moveDirection |-> ComputeMoveDirection,
                              weaponOut |-> weaponOut, reloading |-> animAction = 9]
              /\ g_prevPosValid' = TRUE /\ g_prevRotZ' = rotZ /\ moved' = 0
         /\ ~Samples =>
              /\ g_snapshotAccum' = g_snapshotAccum + IF connected THEN dt ELSE 0
              /\ g_isWeaponOut' = TrackedWeaponOut
              /\ UNCHANGED <<snapshot, g_prevPosValid, g_prevRotZ, moved>>
<1> DEFINE accum == g_snapshotAccum + IF connected THEN dt ELSE 0
<1>1. SampleDue(accum) <=> Samples
  BY DEF Handle, Samples, SampleDue, IInv, TypeOK
<1>2. IF SampleDue(accum)
      THEN /\ g_snapshotAccum' = accum - INTERVAL
           /\ g_isWeaponOut' = ActualWeaponOut(TrackedWeaponOut)
           /\ snapshot' = [moveDirection |-> ComputeMoveDirection,
                           weaponOut |-> g_isWeaponOut', reloading |-> animAction = 9]
           /\ g_prevPosValid' = TRUE /\ g_prevRotZ' = rotZ
           /\ moved' = 0
      ELSE /\ g_snapshotAccum' = accum
           /\ g_isWeaponOut' = TrackedWeaponOut
           /\ UNCHANGED <<snapshot, g_prevPosValid, g_prevRotZ, moved>>
  BY DEF Handle
<1>3. Samples => accum = g_snapshotAccum + dt BY DEF Samples
<1> HIDE DEF accum
<1>4. CASE Samples
  <2>1. /\ g_snapshotAccum' = accum - INTERVAL
        /\ g_isWeaponOut' = ActualWeaponOut(TrackedWeaponOut)
        /\ snapshot' = [moveDirection |-> ComputeMoveDirection,
                        weaponOut |-> g_isWeaponOut', reloading |-> animAction = 9]
        /\ g_prevPosValid' = TRUE /\ g_prevRotZ' = rotZ
        /\ moved' = 0
    BY <1>1, <1>2, <1>4, Zenon
  <2>2. accum = g_snapshotAccum + dt /\ ActualWeaponOut(TrackedWeaponOut) = weaponOut
    BY <1>3, <1>4, Zenon DEF ActualWeaponOut
  <2>3. g_isWeaponOut' = weaponOut BY ONLY <2>1, <2>2, Zenon
  <2>4. snapshot' = [moveDirection |-> ComputeMoveDirection,
                     weaponOut |-> weaponOut, reloading |-> animAction = 9]
    BY ONLY <2>1, <2>3
  <2>5. g_snapshotAccum' = (g_snapshotAccum + dt) - INTERVAL BY ONLY <2>1, <2>2, Zenon
  <2>   QED BY ONLY <1>4, <2>1, <2>3, <2>4, <2>5, Zenon
<1>5. CASE ~Samples BY <1>1, <1>2, <1>5 DEF accum
<1> QED BY <1>4, <1>5

LEMMA HandleIInv == IInv /\ Handle => IInv'
<1> SUFFICES ASSUME IInv, Handle PROVE IInv' OBVIOUS
<1>0. TypeOK /\ Edges /\ g_snapshotAccum + dt <= MaxBacklog BY DEF IInv
<1>1. /\ dt # 0 /\ dt' = 0 /\ g_prevAnimAction' = animAction /\ unannounced' = unannounced - FireEvents
      /\ UNCHANGED <<heading, rotZ, animAction, weaponOut, connected>>
  BY DEF Handle
<1>2. unannounced' = 0
  <2>1. \A action \in Int : IsAttackAction(action) <=> action \in Attacks
    BY DEF IsAttackAction, Attacks
  <2>2. animAction \in Int /\ g_prevAnimAction \in Int
    BY <1>0, EngineAssumption DEF TypeOK
  <2>3. FireEvents = unannounced /\ FireEvents \in {0, 1}
    BY <1>0, <1>1, <2>1, <2>2 DEF FireEvents, Edges
  <2>   QED BY <1>1, <2>3
<1>3. dt \in Nat \ {0} /\ g_snapshotAccum \in 0 .. MaxBacklog
  BY <1>0, <1>1, MovementAssumption DEF TypeOK
<1>4. /\ g_snapshotAccum' \in 0 .. MaxBacklog /\ moved' \in 0 .. IDLE_THRESHOLD
      /\ g_isWeaponOut' \in BOOLEAN /\ g_prevPosValid' \in BOOLEAN
      /\ g_prevRotZ' \in Rotations
      /\ snapshot' \in [moveDirection : MoveDirection, weaponOut : BOOLEAN,
                        reloading : BOOLEAN]
  <2>1. CASE Samples
    <3>1. g_snapshotAccum' \in 0 .. MaxBacklog
      BY <2>1, <1>0, <1>3, HandleCases, IntervalAssumption DEF Samples
    <3>2. weaponOut \in BOOLEAN BY <1>0, EngineAssumption DEF TypeOK
    <3>3. ComputeMoveDirection \in MoveDirection BY <1>0, DirectionType
    <3>4. /\ g_isWeaponOut' = weaponOut /\ g_prevPosValid' = TRUE
          /\ g_prevRotZ' = rotZ /\ moved' = 0
          /\ snapshot' = [moveDirection |-> ComputeMoveDirection,
                          weaponOut |-> weaponOut, reloading |-> animAction = 9]
      BY <2>1, HandleCases, Zenon
    <3>5. (animAction = 9) \in BOOLEAN OBVIOUS
    <3>6. snapshot' \in [moveDirection : MoveDirection, weaponOut : BOOLEAN,
                         reloading : BOOLEAN]
      BY <3>2, <3>3, <3>4, <3>5, Zenon
    <3>7. /\ moved' \in 0 .. IDLE_THRESHOLD /\ g_isWeaponOut' \in BOOLEAN
          /\ g_prevPosValid' \in BOOLEAN /\ g_prevRotZ' \in Rotations
      BY <1>0, <3>2, <3>4, MovementAssumption DEF TypeOK
    <3>   QED BY <3>1, <3>6, <3>7
  <2>2. CASE ~Samples
    <3>1. TrackedWeaponOut \in BOOLEAN BY <1>0 DEF TrackedWeaponOut, TypeOK
    <3>2. g_snapshotAccum + (IF connected THEN dt ELSE 0) \in 0 .. MaxBacklog
      BY <1>0, <1>3, IntervalAssumption
    <3>   QED BY <2>2, <1>0, <3>1, <3>2, HandleCases DEF TypeOK
  <2>   QED BY <2>1, <2>2
<1>5. TypeOK' BY <1>0, <1>1, <1>2, <1>4 DEF TypeOK
<1>6. Edges' BY <1>1, <1>2 DEF Edges
<1>7. g_snapshotAccum' + dt' <= MaxBacklog
  <2>1. g_snapshotAccum' \in 0 .. MaxBacklog /\ dt' = 0 BY <1>1, <1>4, Zenon
  <2>2. \A a \in 0 .. MaxBacklog, b \in {0} : a + b <= MaxBacklog BY IntervalAssumption
  <2>   QED BY <2>1, <2>2, Zenon
<1> QED BY <1>5, <1>6, <1>7 DEF IInv

LEMMA NextIInv == IInv /\ [Next]_vars => IInv'
<1> SUFFICES ASSUME IInv, [Next]_vars PROVE IInv' OBVIOUS
<1>1. CASE UNCHANGED vars
  BY <1>1 DEF IInv, TypeOK, Edges, vars, engineVars, pluginVars
<1>2. CASE Next BY <1>2, PlayIInv, HandleIInv DEF Next
<1> QED BY <1>1, <1>2

THEOREM DetectionInductive == Spec => []IInv
<1> QED BY InitIInv, NextIInv, PTL DEF Spec

\* Every attack that starts while the client is connected is announced in the frame
\* that sees it, and no frame announces another one, whatever actions the engine
\* reports (main.cpp:277-288).
THEOREM DetectionAttacksAnnounced == Spec => []AttacksAnnounced
<1>1. IInv => AttacksAnnounced BY DEF IInv, Edges, AttacksAnnounced
<1> QED BY <1>1, DetectionInductive, PTL

---------------------------------------------------------------------------
\* A sample is taken by the handler.
LEMMA SamplesHandle ==
  ASSUME IInv, Next, Samples
  PROVE  Handle /\ snapshot'.moveDirection = ComputeMoveDirection
<1>1. Handle BY DEF Next, Play, Samples
<1> QED BY <1>1, HandleCases

\* The angle from the facing to the walk, and the direction told of it.
LEMMA StepSides ==
  ASSUME IInv, Next, Samples
  PROVE  LET d == (heading - rotZ) % UNITS
             dir == snapshot'.moveDirection
         IN  /\ dir \in Steps =>
                  Aside - NamedAside[dir] * 2 * PI_8 \in -PI_8 .. PI_8
             /\ dir \in Leftward => 0 < d /\ d < UNITS \div 2
             /\ dir \in Rightward => d > UNITS \div 2
<1> DEFINE x == heading - rotZ
           r == Normalize(x)
           d == x % UNITS
           dir == snapshot'.moveDirection
<1>0. TypeOK /\ dir = ComputeMoveDirection BY SamplesHandle DEF IInv
<1>1. PI_8 \in Nat \ {0} /\ UNITS = 16 * PI_8 /\ UNITS \div 2 = 8 * PI_8 BY Units
<1>2. x \in Int /\ x \in -(24 * PI_8) .. 8 * PI_8
  <2>1. heading \in 1 - 8 * PI_8 .. 8 * PI_8 /\ rotZ \in 0 .. 16 * PI_8 - 1
    BY <1>0, <1>1 DEF TypeOK, Angles, Rotations
  <2>   QED BY <1>1, <2>1
<1>3. /\ r \in -(8 * PI_8) .. 8 * PI_8
      /\ r >= 0 => d = r
      /\ r < 0 => d = r + UNITS
  <2>   HIDE DEF x
  <2>1. x \in -(24 * PI_8) .. 24 * PI_8 BY <1>1, <1>2
  <2>   QED BY <1>2, <2>1, NormalizeRange, Clockwise
<1>4. Aside = IF r >= 0 THEN r ELSE -r
  <2>1. Aside = Least(d, UNITS - d) BY DEF Aside
  <2>   HIDE DEF x, r, d
  <2>   QED BY <1>1, <1>3, <2>1 DEF Least
<1>5. dir \in Steps => dir = Sector(r)
  <2>1. Turn(Normalize(rotZ - g_prevRotZ)) \in {"TurnLeft", "TurnRight", "None"} BY DEF Turn
  <2>2. ComputeMoveDirection \in {"None", Turn(Normalize(rotZ - g_prevRotZ)), Sector(r)}
    BY DEF ComputeMoveDirection
  <2>3. \A turn \in {"TurnLeft", "TurnRight", "None"} : turn \notin Steps
    BY DEF Steps, Leftward, Rightward
  <2>   HIDE DEF r
  <2>   QED BY <1>0, <2>1, <2>2, <2>3
<1> HIDE DEF x, r, d, dir
<1>6. /\ (IF r >= 0 THEN r ELSE -r) - NamedAside[Sector(r)] * 2 * PI_8 \in -PI_8 .. PI_8
      /\ Sector(r) \in Leftward => 0 < r /\ r < 8 * PI_8
      /\ Sector(r) \in Rightward => -(8 * PI_8) < r /\ r < 0
  BY <1>3, SectorRight
<1>7. dir \in Steps => Aside - NamedAside[dir] * 2 * PI_8 \in -PI_8 .. PI_8
  BY <1>4, <1>5, <1>6
<1>8. Leftward \subseteq Steps /\ Rightward \subseteq Steps BY DEF Steps
<1>9. dir \in Leftward => 0 < d /\ d < 8 * PI_8
  BY <1>3, <1>5, <1>6, <1>8
<1>10. dir \in Rightward => d > 8 * PI_8
  BY <1>1, <1>3, <1>5, <1>6, <1>8
<1> QED BY <1>1, <1>7, <1>9, <1>10 DEF x, d, dir

LEMMA StepShorterTurn ==
  ASSUME IInv, Next, Samples, g_prevPosValid, moved = 0
  PROVE  LET d == (rotZ - g_prevRotZ) % UNITS
         IN  /\ snapshot'.moveDirection = "TurnLeft" => d \in 1 .. UNITS \div 2
             /\ snapshot'.moveDirection = "TurnRight" => d >= UNITS \div 2
             /\ snapshot'.moveDirection = "None" <=> d = 0
<1>0. TypeOK /\ snapshot'.moveDirection = ComputeMoveDirection BY SamplesHandle DEF IInv
<1>1. PI_8 \in Nat \ {0} /\ UNITS = 16 * PI_8 /\ UNITS \div 2 = 8 * PI_8 BY Units
<1> DEFINE x == rotZ - g_prevRotZ
           r == Normalize(x)
           d == x % UNITS
<1>2. x \in Int /\ x \in 1 - UNITS .. UNITS - 1 /\ UNITS \in Nat \ {0}
  BY <1>0, <1>1 DEF TypeOK, Rotations
<1>3. ComputeMoveDirection = Turn(r)
  BY <1>0, MovementAssumption DEF ComputeMoveDirection
<1>4. /\ r \in -(8 * PI_8) .. 8 * PI_8
      /\ x > 8 * PI_8 => r = x - UNITS
      /\ x < -(8 * PI_8) => r = x + UNITS
      /\ x \in -(8 * PI_8) .. 8 * PI_8 => r = x
  <2>1. x \in -(24 * PI_8) .. 24 * PI_8 BY <1>1, <1>2
  <2>   HIDE DEF x
  <2>   QED BY <1>2, <2>1, NormalizeRange
<1>5. (x \in 0 .. UNITS - 1 => d = x) /\ (x \in -UNITS .. -1 => d = x + UNITS)
  <2>   HIDE DEF x
  <2>   QED BY ONLY <1>2, Remainder, Zenon
<1> HIDE DEF x, r, d
<1>6. /\ r > 0 => d \in 1 .. 8 * PI_8
      /\ r < 0 => d \in Int /\ d >= 8 * PI_8
      /\ r = 0 <=> d = 0
  <2>1. x \in 0 .. UNITS - 1 \/ x \in -UNITS .. -1 BY <1>1, <1>2
  <2>   QED BY <1>1, <1>2, <1>4, <1>5, <2>1
<1>7. /\ Turn(r) = "TurnLeft" <=> r > 0
      /\ Turn(r) = "TurnRight" <=> r < 0
      /\ Turn(r) = "None" <=> r = 0
  BY <1>1, <1>4 DEF Turn
<1>8. /\ ComputeMoveDirection = "TurnLeft" => d \in 1 .. UNITS \div 2
      /\ ComputeMoveDirection = "TurnRight" => d >= UNITS \div 2
      /\ ComputeMoveDirection = "None" <=> d = 0
  BY <1>1, <1>3, <1>6, <1>7
<1> QED BY <1>0, <1>8 DEF d, x

\* What the others are told is as far from straight ahead as the player walks, and the
\* sides and turns are never confused, for every facing and heading, on all sides of north
\* and south, whatever the unit of the angles: one turn added or taken off is enough
\* (main.cpp:103-146).  The sides have the code's names, not the
\* documented ones.
THEOREM DetectionDirections == Spec => Directions
<1> DEFINE Told ==
             Samples /\ snapshot'.moveDirection \in Steps =>
               Aside - NamedAside[snapshot'.moveDirection] * 2 * PI_8 \in -PI_8 .. PI_8
           Sided ==
             Samples =>
               LET d == (heading - rotZ) % UNITS
               IN  /\ snapshot'.moveDirection \in Leftward => 0 < d /\ d < UNITS \div 2
                   /\ snapshot'.moveDirection \in Rightward => d > UNITS \div 2
           Turned ==
             Samples /\ g_prevPosValid /\ moved = 0 =>
               LET d == (rotZ - g_prevRotZ) % UNITS
               IN  /\ snapshot'.moveDirection = "TurnLeft" => d \in 1 .. UNITS \div 2
                   /\ snapshot'.moveDirection = "TurnRight" => d >= UNITS \div 2
                   /\ snapshot'.moveDirection = "None" <=> d = 0
<1>1. IInv /\ [Next]_vars => [Told]_vars BY StepSides
<1>2. IInv /\ [Next]_vars => [Sided]_vars BY StepSides
<1>3. IInv /\ [Next]_vars => [Turned]_vars BY StepShorterTurn
<1>4. Spec => AsideTold
  BY <1>1, DetectionInductive, PTL DEF Spec, AsideTold
<1>5. Spec => SidesKept
  BY <1>2, DetectionInductive, PTL DEF Spec, SidesKept
<1>6. Spec => ShorterTurn
  BY <1>3, DetectionInductive, PTL DEF Spec, ShorterTurn
<1> QED BY <1>4, <1>5, <1>6 DEF Directions
=============================================================================
