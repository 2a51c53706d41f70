-------------------------- MODULE AnimationProofs --------------------------
(***************************************************************************)
(* Proofs about Animation, for all durations, poses and kinds of weapon.   *)
(*                                                                         *)
(* A frame takes the avatar through a chain of functions.  What has to     *)
(* hold between any two of them is Sound, which speaks of the avatar and   *)
(* of what has been given up so far.                                       *)
(***************************************************************************)
EXTENDS Animation, TLAPS

Avatar == [st : EntityAnimState, npc : Actor]

SneakOp(sneaking) == IF sneaking THEN "SNEAK_ENTER" ELSE "SNEAK_EXIT"

\* WindowMatchesPending and OneWeaponOperation of an avatar.
WindowOK(a) ==
  /\ a.st.isUnrestrained <=> a.st.pendingOps # {}
  /\ a.npc.restrained <=> ~a.st.isUnrestrained

OneOK(a) == ~(WeaponOps \subseteq a.st.pendingOps)

\* While the NPC does not sneak as it should, that operation is pending, unless it was
\* given up and no other one of its kind has been begun since.
SneakOK(a, c) ==
  (c \cap SneakOps = {} \/ a.st.pendingOps \cap SneakOps # {})
    => (a.npc.sneaking # a.npc.forceSneak => SneakOp(a.npc.forceSneak) \in a.st.pendingOps)

\* Drawing is begun with a weapon that counts as holstered.
DrawOK(a) == "WEAPON_DRAW" \in a.st.pendingOps => ~a.st.npcWeaponOut

\* The type of a weapon that counts as drawn is known.
TypeKnown(a, c) ==
  (a.st.npcWeaponOut /\ a.st.pendingOps \cap WeaponOps = {} /\ "WEAPON_HOLSTER" \notin c)
    => a.st.cachedWeaponType = a.npc.weapon

Sound(a, c) ==
  WindowOK(a) /\ OneOK(a) /\ SneakOK(a, c) /\ DrawOK(a) /\ TypeKnown(a, c)

---------------------------------------------------------------------------
(***************************************************************************)
(* Types.                                                                  *)
(***************************************************************************)

LEMMA Ages == 0 \in 0 .. UNRESTRAIN_TIMEOUT + 2
BY DurationsAssumption

LEMMA AvatarFields ==
  ASSUME NEW a \in Avatar
  PROVE  /\ a.st \in EntityAnimState /\ a.npc \in Actor
         /\ a.st.pendingOps \subseteq PendingOp
         /\ a.st.isUnrestrained \in BOOLEAN /\ a.npc.restrained \in BOOLEAN
         /\ a.st.npcWeaponOut \in BOOLEAN /\ a.npc.weaponOut \in BOOLEAN
         /\ a.npc.sneaking \in BOOLEAN /\ a.npc.forceSneak \in BOOLEAN
         /\ a.npc.weapon \in WeaponTypes
BY DEF Avatar, EntityAnimState, Actor

---------------------------------------------------------------------------
(***************************************************************************)
(* PollUnrestrain.                                                         *)
(***************************************************************************)

\* What polling an operation leaves alone.
Polled(a, d) ==
  /\ d \in Avatar
  /\ d.npc = a.npc
  /\ d.st.prev = a.st.prev
  /\ d.st.attackLeft = a.st.attackLeft
  /\ d.st.isUnrestrained = a.st.isUnrestrained
  /\ d.st.windowAge = a.st.windowAge
  /\ d.st.pendingOps \subseteq a.st.pendingOps

WeaponUnchanged(a, d) ==
  /\ d.st.npcWeaponOut = a.st.npcWeaponOut
  /\ d.st.cachedWeaponType = a.st.cachedWeaponType

LEMMA PollDrawEffect ==
  ASSUME NEW a \in Avatar, NEW d, d = PollDraw(a)
  PROVE  /\ Polled(a, d)
         /\ \/ d.st.pendingOps = a.st.pendingOps /\ WeaponUnchanged(a, d)
            \/ /\ d.st.pendingOps = a.st.pendingOps \ {"WEAPON_DRAW"}
               /\ d.st.npcWeaponOut
               /\ d.st.cachedWeaponType = d.npc.weapon
<1>1. CASE d = a
  BY <1>1 DEF Polled, WeaponUnchanged
<1>2. CASE d = [a EXCEPT !.st.weaponAnimSeen = TRUE]
  <2>1. [a.st EXCEPT !.weaponAnimSeen = TRUE] \in EntityAnimState
    BY DEF Avatar, EntityAnimState
  <2>2. d \in Avatar /\ d.npc = a.npc /\ d.st = [a.st EXCEPT !.weaponAnimSeen = TRUE]
    BY <1>2, <2>1 DEF Avatar
  <2>3. QED
    BY <2>2 DEF Polled, WeaponUnchanged, Avatar, EntityAnimState
<1>3. CASE d = [a EXCEPT !.st.pendingOps = @ \ {"WEAPON_DRAW"}, !.st.weaponAnimSeen = FALSE,
                         !.st.npcWeaponOut = TRUE, !.st.cachedWeaponType = a.npc.weapon]
  <2> DEFINE s == [a.st EXCEPT !.pendingOps = @ \ {"WEAPON_DRAW"}, !.weaponAnimSeen = FALSE,
                               !.npcWeaponOut = TRUE, !.cachedWeaponType = a.npc.weapon]
  <2>1. s \in EntityAnimState
    BY AvatarFields DEF EntityAnimState
  <2>2. d \in Avatar /\ d.npc = a.npc /\ d.st = s
    BY <1>3, <2>1 DEF Avatar
  <2>3. QED
    BY <2>2 DEF Polled, Avatar, EntityAnimState
<1>4. QED
  BY <1>1, <1>2, <1>3 DEF PollDraw

LEMMA PollHolsterEffect ==
  ASSUME NEW a \in Avatar, NEW d, d = PollHolster(a)
  PROVE  /\ Polled(a, d)
         /\ \/ d.st.pendingOps = a.st.pendingOps /\ WeaponUnchanged(a, d)
            \/ /\ d.st.pendingOps = a.st.pendingOps \ {"WEAPON_HOLSTER"}
               /\ ~d.st.npcWeaponOut
<1>1. CASE d = a
  BY <1>1 DEF Polled, WeaponUnchanged
<1>2. CASE d = [a EXCEPT !.st.weaponAnimSeen = TRUE]
  <2>1. [a.st EXCEPT !.weaponAnimSeen = TRUE] \in EntityAnimState
    BY DEF Avatar, EntityAnimState
  <2>2. d \in Avatar /\ d.npc = a.npc /\ d.st = [a.st EXCEPT !.weaponAnimSeen = TRUE]
    BY <1>2, <2>1 DEF Avatar
  <2>3. QED
    BY <2>2 DEF Polled, WeaponUnchanged, Avatar, EntityAnimState
<1>3. CASE d = [a EXCEPT !.st.pendingOps = @ \ {"WEAPON_HOLSTER"},
                         !.st.weaponAnimSeen = FALSE, !.st.npcWeaponOut = FALSE]
  <2> DEFINE s == [a.st EXCEPT !.pendingOps = @ \ {"WEAPON_HOLSTER"},
                               !.weaponAnimSeen = FALSE, !.npcWeaponOut = FALSE]
  <2>1. s \in EntityAnimState
    BY AvatarFields DEF EntityAnimState
  <2>2. d \in Avatar /\ d.npc = a.npc /\ d.st = s
    BY <1>3, <2>1 DEF Avatar
  <2>3. QED
    BY <2>2 DEF Polled, Avatar, EntityAnimState
<1>4. QED
  BY <1>1, <1>2, <1>3 DEF PollHolster

LEMMA PollSneakEffect ==
  ASSUME NEW a \in Avatar, NEW d, d = PollSneak(a)
  PROVE  /\ Polled(a, d) /\ WeaponUnchanged(a, d)
         /\ d.st.pendingOps = a.st.pendingOps \ {SneakOp(a.npc.sneaking)}
<1> DEFINE s == [a.st EXCEPT !.pendingOps = @ \ {SneakOp(a.npc.sneaking)}]
<1>1. s \in EntityAnimState
  BY AvatarFields DEF EntityAnimState
<1>2. d \in Avatar /\ d.npc = a.npc /\ d.st = s
  BY <1>1 DEF Avatar, PollSneak, SneakOp
<1>3. QED
  BY <1>2 DEF Polled, WeaponUnchanged, Avatar, EntityAnimState

\* What the functions that deal with the window leave alone.
SameBody(a, d) ==
  /\ d.st.prev = a.st.prev
  /\ d.st.attackLeft = a.st.attackLeft
  /\ d.npc.sneaking = a.npc.sneaking
  /\ d.npc.weapon = a.npc.weapon
  /\ d.npc.weaponOut = a.npc.weaponOut
  /\ d.npc.legs = a.npc.legs
  /\ d.npc.upper = a.npc.upper

\* Closing the window makes it match the operations again.
LEMMA CloseEffect ==
  ASSUME NEW a \in Avatar, a.st.isUnrestrained, ~a.npc.restrained,
         NEW d, d = CloseWindow(a)
  PROVE  /\ d \in Avatar /\ SameBody(a, d) /\ WeaponUnchanged(a, d) /\ WindowOK(d)
         /\ d.npc.forceSneak = a.npc.forceSneak
         /\ d.st.pendingOps = a.st.pendingOps
         /\ d.st.windowAge = a.st.windowAge
         /\ ~d.st.isUnrestrained => d.st.forceReapplyActions
<1>1. CASE a.st.pendingOps # {}
  <2>1. d = a
    BY <1>1 DEF CloseWindow
  <2>2. QED
    BY <1>1, <2>1 DEF SameBody, WeaponUnchanged, WindowOK
<1>2. CASE a.st.pendingOps = {}
  <2> DEFINE s == [a.st EXCEPT !.isUnrestrained = FALSE, !.forceReapplyActions = TRUE]
             n == [a.npc EXCEPT !.restrained = TRUE]
  <2>1. s \in EntityAnimState /\ n \in Actor
    BY DEF Avatar, EntityAnimState, Actor
  <2>2. d = [a EXCEPT !.npc.restrained = TRUE, !.st.isUnrestrained = FALSE,
                      !.st.forceReapplyActions = TRUE]
    BY <1>2 DEF CloseWindow
  <2>3. d \in Avatar /\ d.npc = n /\ d.st = s
    BY <2>1, <2>2 DEF Avatar
  <2>4. /\ s.prev = a.st.prev /\ s.attackLeft = a.st.attackLeft
        /\ s.pendingOps = a.st.pendingOps /\ s.windowAge = a.st.windowAge
        /\ s.npcWeaponOut = a.st.npcWeaponOut
        /\ s.cachedWeaponType = a.st.cachedWeaponType
        /\ s.isUnrestrained = FALSE /\ s.forceReapplyActions = TRUE
    BY DEF Avatar, EntityAnimState
  <2>5. /\ n.restrained = TRUE /\ n.forceSneak = a.npc.forceSneak
        /\ n.sneaking = a.npc.sneaking /\ n.weapon = a.npc.weapon
        /\ n.weaponOut = a.npc.weaponOut /\ n.legs = a.npc.legs /\ n.upper = a.npc.upper
    BY DEF Avatar, Actor
  <2> HIDE DEF s, n
  <2>6. QED
    BY <1>2, <2>3, <2>4, <2>5 DEF SameBody, WeaponUnchanged, WindowOK
<1>3. QED
  BY <1>1, <1>2

\* What a timeout does.
LEMMA TimeoutEffect ==
  ASSUME NEW a \in Avatar, TimedOut(a), NEW d, d = PollUnrestrain(a)
  PROVE  /\ d \in Avatar /\ SameBody(a, d) /\ WeaponUnchanged(a, d)
         /\ d.npc.forceSneak = a.npc.forceSneak
         /\ d.st.pendingOps = {} /\ ~d.st.isUnrestrained /\ d.npc.restrained
<1> DEFINE s == [a.st EXCEPT !.isUnrestrained = FALSE, !.pendingOps = {}]
           n == [a.npc EXCEPT !.restrained = TRUE]
<1>1. s \in EntityAnimState /\ n \in Actor
  BY DEF Avatar, EntityAnimState, Actor
<1>2. d = [a EXCEPT !.npc.restrained = TRUE, !.st.isUnrestrained = FALSE,
                    !.st.pendingOps = {}]
  BY DEF PollUnrestrain, TimedOut
<1>3. d \in Avatar /\ d.npc = n /\ d.st = s
  BY <1>1, <1>2 DEF Avatar
<1>4. /\ s.prev = a.st.prev /\ s.attackLeft = a.st.attackLeft
      /\ s.npcWeaponOut = a.st.npcWeaponOut
      /\ s.cachedWeaponType = a.st.cachedWeaponType
      /\ s.isUnrestrained = FALSE /\ s.pendingOps = {}
  BY DEF Avatar, EntityAnimState
<1>5. /\ n.restrained = TRUE /\ n.forceSneak = a.npc.forceSneak
      /\ n.sneaking = a.npc.sneaking /\ n.weapon = a.npc.weapon
      /\ n.weaponOut = a.npc.weaponOut /\ n.legs = a.npc.legs /\ n.upper = a.npc.upper
  BY DEF Avatar, Actor
<1> HIDE DEF s, n
<1>6. QED
  BY <1>3, <1>4, <1>5 DEF SameBody, WeaponUnchanged

\* Polling keeps the avatar sound; what a timeout drops counts as given up.
LEMMA PollSound ==
  ASSUME NEW a \in Avatar, NEW c, Sound(a, c), NEW d, d = PollUnrestrain(a),
         NEW e, e = IF TimedOut(a) THEN c \cup a.st.pendingOps ELSE c
  PROVE  /\ d \in Avatar /\ SameBody(a, d) /\ Sound(d, e)
         /\ d.npc.forceSneak = a.npc.forceSneak
         /\ ~a.st.isUnrestrained => d = a
         /\ (a.st.isUnrestrained /\ ~TimedOut(a) /\ ~d.st.isUnrestrained)
              => d.st.forceReapplyActions
<1>a. WindowOK(a) /\ OneOK(a) /\ SneakOK(a, c) /\ DrawOK(a) /\ TypeKnown(a, c)
  BY DEF Sound
<1>1. CASE ~a.st.isUnrestrained
  <2>1. d = a /\ e = c
    BY <1>1 DEF PollUnrestrain, TimedOut
  <2>2. QED
    BY <1>1, <2>1 DEF SameBody
<1>2. CASE TimedOut(a)
  <2>1. /\ d \in Avatar /\ SameBody(a, d) /\ WeaponUnchanged(a, d)
        /\ d.npc.forceSneak = a.npc.forceSneak
        /\ d.st.pendingOps = {} /\ ~d.st.isUnrestrained /\ d.npc.restrained
    BY <1>2, TimeoutEffect
  <2>2. e = c \cup a.st.pendingOps
    BY <1>2
  <2>3. WindowOK(d) /\ OneOK(d) /\ DrawOK(d)
    BY <2>1 DEF WindowOK, OneOK, DrawOK, WeaponOps
  <2>4. SneakOK(d, e)
    BY <1>a, <2>1, <2>2, AvatarFields DEF SneakOK, SneakOps, SneakOp, SameBody
  <2>5. TypeKnown(d, e)
    BY <1>a, <2>1, <2>2 DEF TypeKnown, DrawOK, WeaponOps, SameBody, WeaponUnchanged
  <2>6. QED
    BY <1>2, <2>1, <2>3, <2>4, <2>5 DEF Sound, TimedOut
<1>3. CASE a.st.isUnrestrained /\ ~TimedOut(a)
  <2> DEFINE b1 == PollDraw(a)
             b2 == PollHolster(b1)
             b3 == PollSneak(b2)
  <2>1. d = CloseWindow(b3)
    BY <1>3 DEF PollUnrestrain
  <2>2. /\ Polled(a, b1)
        /\ \/ b1.st.pendingOps = a.st.pendingOps /\ WeaponUnchanged(a, b1)
           \/ /\ b1.st.pendingOps = a.st.pendingOps \ {"WEAPON_DRAW"}
              /\ b1.st.npcWeaponOut
              /\ b1.st.cachedWeaponType = b1.npc.weapon
    BY PollDrawEffect
  <2> HIDE DEF b1
  <2>3. /\ Polled(b1, b2)
        /\ \/ b2.st.pendingOps = b1.st.pendingOps /\ WeaponUnchanged(b1, b2)
           \/ /\ b2.st.pendingOps = b1.st.pendingOps \ {"WEAPON_HOLSTER"}
              /\ ~b2.st.npcWeaponOut
    BY <2>2, PollHolsterEffect DEF Polled
  <2> HIDE DEF b2
  <2>4. /\ Polled(b2, b3) /\ WeaponUnchanged(b2, b3)
        /\ b3.st.pendingOps = b2.st.pendingOps \ {SneakOp(b2.npc.sneaking)}
    BY <2>3, PollSneakEffect DEF Polled
  <2> HIDE DEF b3
  <2>5. /\ b3 \in Avatar /\ b3.npc = a.npc /\ b3.st.prev = a.st.prev
        /\ b3.st.attackLeft = a.st.attackLeft /\ b3.st.isUnrestrained
        /\ b3.st.pendingOps \subseteq a.st.pendingOps
    BY <1>3, <2>2, <2>3, <2>4 DEF Polled
  <2>6. /\ d \in Avatar /\ SameBody(b3, d) /\ WeaponUnchanged(b3, d) /\ WindowOK(d)
        /\ d.npc.forceSneak = b3.npc.forceSneak /\ d.st.pendingOps = b3.st.pendingOps
        /\ ~d.st.isUnrestrained => d.st.forceReapplyActions
    BY <1>3, <1>a, <2>1, <2>5, CloseEffect DEF WindowOK
  <2>7. SameBody(a, d) /\ d.npc.forceSneak = a.npc.forceSneak
    BY <2>5, <2>6 DEF SameBody
  <2>8. OneOK(d)
    BY <1>a, <2>5, <2>6 DEF OneOK
  <2>9. SneakOK(d, e)
    <3>1. e = c
      BY <1>3
    <3>2. ASSUME NEW op \in a.st.pendingOps, op \in SneakOps, op # SneakOp(a.npc.sneaking)
          PROVE  op \in d.st.pendingOps
      BY <2>2, <2>3, <2>4, <2>6, <3>2 DEF Polled, SneakOps
    <3>3. SneakOp(a.npc.forceSneak) \in SneakOps
      BY DEF SneakOps, SneakOp
    <3>4. a.npc.sneaking # a.npc.forceSneak
            => SneakOp(a.npc.forceSneak) # SneakOp(a.npc.sneaking)
      BY AvatarFields DEF SneakOp
    <3>5. d.st.pendingOps \subseteq a.st.pendingOps
      BY <2>5, <2>6
    <3>6. QED
      BY <1>a, <2>7, <3>1, <3>2, <3>3, <3>4, <3>5 DEF SneakOK, SameBody
  <2>10. DrawOK(d)
    BY <1>a, <2>2, <2>3, <2>4, <2>6 DEF DrawOK, WeaponUnchanged, Polled
  <2>11. TypeKnown(d, e)
    <3>1. \A op \in WeaponOps : op # SneakOp(b2.npc.sneaking)
      BY DEF WeaponOps, SneakOp
    <3>a. d.npc.weapon = a.npc.weapon /\ b1.npc.weapon = a.npc.weapon /\ e = c
      BY <1>3, <2>2, <2>7 DEF SameBody, Polled
    <3>2. CASE b2.st.pendingOps = b1.st.pendingOps /\ WeaponUnchanged(b1, b2)
      <4>1. WeaponUnchanged(b1, d)
        BY <2>4, <2>6, <3>2 DEF WeaponUnchanged
      <4>2. d.st.pendingOps \cap WeaponOps = b1.st.pendingOps \cap WeaponOps
        BY <2>4, <2>6, <3>1, <3>2
      <4>3. CASE b1.st.pendingOps = a.st.pendingOps /\ WeaponUnchanged(a, b1)
        BY <1>a, <3>a, <4>1, <4>2, <4>3 DEF TypeKnown, WeaponUnchanged
      <4>4. CASE b1.st.cachedWeaponType = b1.npc.weapon
        BY <3>a, <4>1, <4>4 DEF TypeKnown, WeaponUnchanged
      <4>5. QED
        BY <2>2, <4>3, <4>4
    <3>3. CASE ~b2.st.npcWeaponOut
      BY <2>4, <2>6, <3>3 DEF TypeKnown, WeaponUnchanged
    <3>4. QED
      BY <2>3, <3>2, <3>3
  <2>12. QED
    BY <1>3, <2>6, <2>7, <2>8, <2>9, <2>10, <2>11 DEF Sound
<1>4. QED
  BY <1>1, <1>2, <1>3 DEF TimedOut

---------------------------------------------------------------------------
(***************************************************************************)
(* ApplySneak and ApplyWeapon.                                             *)
(***************************************************************************)

\* What beginning an operation leaves alone.
Begun(a, d) ==
  /\ d \in Avatar
  /\ SameBody(a, d)
  /\ d.st.forceReapplyActions = a.st.forceReapplyActions
  /\ a.st.isUnrestrained => d.st.isUnrestrained

LEMMA UnrestrainEffect ==
  ASSUME NEW a \in Avatar, WindowOK(a), NEW d, d = Unrestrain(a)
  PROVE  /\ Begun(a, d) /\ WeaponUnchanged(a, d)
         /\ d.st.isUnrestrained /\ ~d.npc.restrained
         /\ d.npc.forceSneak = a.npc.forceSneak
         /\ d.st.pendingOps = a.st.pendingOps
<1>1. CASE a.st.isUnrestrained
  BY <1>1 DEF Unrestrain, Begun, SameBody, WeaponUnchanged, WindowOK
<1>2. CASE ~a.st.isUnrestrained
  <2> DEFINE s == [a.st EXCEPT !.isUnrestrained = TRUE, !.windowAge = 0]
             n == [a.npc EXCEPT !.restrained = FALSE]
  <2>1. s \in EntityAnimState /\ n \in Actor
    BY Ages DEF Avatar, EntityAnimState, Actor
  <2>2. d = [a EXCEPT !.npc.restrained = FALSE, !.st.isUnrestrained = TRUE,
                      !.st.windowAge = 0]
    BY <1>2 DEF Unrestrain
  <2>3. d \in Avatar /\ d.npc = n /\ d.st = s
    BY <2>1, <2>2 DEF Avatar
  <2>4. /\ s.prev = a.st.prev /\ s.attackLeft = a.st.attackLeft
        /\ s.pendingOps = a.st.pendingOps
        /\ s.npcWeaponOut = a.st.npcWeaponOut
        /\ s.cachedWeaponType = a.st.cachedWeaponType
        /\ s.forceReapplyActions = a.st.forceReapplyActions
        /\ s.isUnrestrained = TRUE
    BY DEF Avatar, EntityAnimState
  <2>5. /\ n.restrained = FALSE /\ n.forceSneak = a.npc.forceSneak
        /\ n.sneaking = a.npc.sneaking /\ n.weapon = a.npc.weapon
        /\ n.weaponOut = a.npc.weaponOut /\ n.legs = a.npc.legs /\ n.upper = a.npc.upper
    BY DEF Avatar, Actor
  <2> HIDE DEF s, n
  <2>6. QED
    BY <1>2, <2>3, <2>4, <2>5 DEF Begun, SameBody, WeaponUnchanged
<1>3. QED
  BY <1>1, <1>2

LEMMA PoseFields ==
  ASSUME want \in Wants
  PROVE  /\ want.move \in MoveDirections /\ want.running \in BOOLEAN
         /\ want.weaponOut \in BOOLEAN /\ want.sneaking \in BOOLEAN
         /\ want.action \in SUBSET {"Reloading", "AimingIS"}
BY PosesAssumption DEF Pose

\* Afterwards the NPC is told to sneak as the player does.
LEMMA ApplySneakSound ==
  ASSUME want \in Wants, NEW a \in Avatar, NEW c, Sound(a, c),
         a.npc.forceSneak = a.st.prev.sneaking, NEW d, d = ApplySneak(a)
  PROVE  Begun(a, d) /\ Sound(d, c) /\ d.npc.forceSneak = want.sneaking
<1>a. WindowOK(a) /\ OneOK(a) /\ SneakOK(a, c) /\ DrawOK(a) /\ TypeKnown(a, c)
  BY DEF Sound
<1>1. CASE want.sneaking = a.st.prev.sneaking
  BY <1>1 DEF ApplySneak, Begun, SameBody
<1>2. CASE want.sneaking # a.st.prev.sneaking
  <2> DEFINE u  == Unrestrain(a)
             op == SneakOp(want.sneaking)
             s  == [u.st EXCEPT !.pendingOps = @ \cup {op}]
             n  == [u.npc EXCEPT !.forceSneak = want.sneaking]
  <2>1. /\ Begun(a, u) /\ WeaponUnchanged(a, u)
        /\ u.st.isUnrestrained /\ ~u.npc.restrained
        /\ u.st.pendingOps = a.st.pendingOps
    BY <1>a, UnrestrainEffect
  <2>2. d = [u EXCEPT !.npc.forceSneak = want.sneaking, !.st.pendingOps = @ \cup {op}]
    BY <1>2 DEF ApplySneak, SneakOp
  <2> HIDE DEF u
  <2>3. op \in SneakOps /\ op \notin WeaponOps
    BY DEF SneakOp, SneakOps, WeaponOps
  <2> HIDE DEF op
  <2>4. u \in Avatar
    BY <2>1 DEF Begun
  <2>5. s \in EntityAnimState /\ n \in Actor
    <3>1. op \in PendingOp
      BY <2>3 DEF PendingOp
    <3>2. QED
      BY <2>4, <3>1, PoseFields DEF Avatar, EntityAnimState, Actor
  <2>6. d \in Avatar /\ d.npc = n /\ d.st = s
    BY <2>2, <2>4, <2>5 DEF Avatar
  <2>7. /\ s.prev = u.st.prev /\ s.attackLeft = u.st.attackLeft
        /\ s.pendingOps = u.st.pendingOps \cup {op}
        /\ s.npcWeaponOut = u.st.npcWeaponOut
        /\ s.cachedWeaponType = u.st.cachedWeaponType
        /\ s.forceReapplyActions = u.st.forceReapplyActions
        /\ s.isUnrestrained = u.st.isUnrestrained
    BY <2>4 DEF Avatar, EntityAnimState
  <2>8. /\ n.restrained = u.npc.restrained /\ n.forceSneak = want.sneaking
        /\ n.sneaking = u.npc.sneaking /\ n.weapon = u.npc.weapon
        /\ n.weaponOut = u.npc.weaponOut /\ n.legs = u.npc.legs
        /\ n.upper = u.npc.upper
    BY <2>4 DEF Avatar, Actor
  <2> HIDE DEF s, n
  <2>9. Begun(a, d)
    BY <2>1, <2>6, <2>7, <2>8 DEF Begun, SameBody
  <2>10. WindowOK(d)
    BY <2>1, <2>6, <2>7, <2>8 DEF WindowOK
  <2>11. d.st.pendingOps = a.st.pendingOps \cup {op} /\ WeaponUnchanged(a, d)
    BY <2>1, <2>6, <2>7 DEF WeaponUnchanged
  <2>12. OneOK(d) /\ DrawOK(d)
    BY <1>a, <2>3, <2>11 DEF OneOK, DrawOK, WeaponUnchanged, WeaponOps
  <2>13. SneakOK(d, c)
    BY <2>6, <2>8, <2>11 DEF SneakOK, op
  <2>14. TypeKnown(d, c)
    BY <1>a, <2>3, <2>9, <2>11 DEF TypeKnown, WeaponUnchanged, Begun, SameBody
  <2>15. d.npc.forceSneak = want.sneaking
    BY <2>6, <2>8
  <2>16. QED
    BY <2>9, <2>10, <2>12, <2>13, <2>14, <2>15 DEF Sound
<1>3. QED
  BY <1>1, <1>2

LEMMA CorrectWeaponSound ==
  ASSUME NEW a \in Avatar, NEW c, Sound(a, c), a.st.pendingOps \cap WeaponOps = {},
         NEW d, d = CorrectWeapon(a)
  PROVE  /\ Begun(a, d) /\ Sound(d, c) /\ d.npc = a.npc
         /\ d.st.npcWeaponOut = d.npc.weaponOut
         /\ d.st.pendingOps = a.st.pendingOps
<1>1. CASE a.npc.weaponOut = a.st.npcWeaponOut
  BY <1>1 DEF CorrectWeapon, Begun, SameBody
<1>2. CASE a.npc.weaponOut # a.st.npcWeaponOut
  <2> DEFINE t == IF a.npc.weaponOut THEN a.npc.weapon ELSE a.st.cachedWeaponType
             s == [a.st EXCEPT !.npcWeaponOut = a.npc.weaponOut, !.cachedWeaponType = t]
  <2>1. a.npc.weaponOut => t = a.npc.weapon
    OBVIOUS
  <2>2. t \in WeaponTypes \cup {"unknown"}
    BY DEF Avatar, EntityAnimState, Actor
  <2>3. d = [a EXCEPT !.st.npcWeaponOut = a.npc.weaponOut, !.st.cachedWeaponType = t]
    BY <1>2 DEF CorrectWeapon, Avatar, EntityAnimState
  <2> HIDE DEF t
  <2>4. s \in EntityAnimState
    BY <2>2, AvatarFields DEF EntityAnimState
  <2>5. d \in Avatar /\ d.npc = a.npc /\ d.st = s
    BY <2>3, <2>4 DEF Avatar
  <2>6. /\ s.prev = a.st.prev /\ s.attackLeft = a.st.attackLeft
        /\ s.pendingOps = a.st.pendingOps
        /\ s.npcWeaponOut = a.npc.weaponOut
        /\ s.cachedWeaponType = t
        /\ s.forceReapplyActions = a.st.forceReapplyActions
        /\ s.isUnrestrained = a.st.isUnrestrained
    BY DEF Avatar, EntityAnimState
  <2> HIDE DEF s
  <2>7. Begun(a, d)
    BY <2>5, <2>6 DEF Begun, SameBody
  <2>8. WindowOK(d) /\ OneOK(d) /\ SneakOK(d, c)
    BY <2>5, <2>6 DEF Sound, WindowOK, OneOK, SneakOK
  <2>9. DrawOK(d)
    BY <2>5, <2>6 DEF DrawOK, WeaponOps
  <2>10. TypeKnown(d, c)
    BY <2>1, <2>5, <2>6 DEF TypeKnown
  <2>11. QED
    BY <2>5, <2>6, <2>7, <2>8, <2>9, <2>10 DEF Sound
<1>3. QED
  BY <1>1, <1>2

LEMMA BeginWeaponSound ==
  ASSUME want \in Wants, NEW a \in Avatar, NEW c, Sound(a, c),
         a.st.pendingOps \cap WeaponOps = {}, a.st.npcWeaponOut = a.npc.weaponOut,
         NEW d, d = BeginWeapon(a)
  PROVE  /\ Begun(a, d) /\ Sound(d, c) /\ d.npc.forceSneak = a.npc.forceSneak
         /\ d.st.pendingOps \cap WeaponOps = {} => d.st.npcWeaponOut = d.npc.weaponOut
<1>a. WindowOK(a) /\ OneOK(a) /\ SneakOK(a, c) /\ DrawOK(a) /\ TypeKnown(a, c)
  BY DEF Sound
<1>1. CASE a.st.npcWeaponOut = want.weaponOut
  BY <1>1 DEF BeginWeapon, Begun, SameBody
<1>2. CASE a.st.npcWeaponOut # want.weaponOut
  <2> DEFINE u  == Unrestrain(a)
             op == IF want.weaponOut THEN "WEAPON_DRAW" ELSE "WEAPON_HOLSTER"
             s  == [u.st EXCEPT !.pendingOps = @ \cup {op}, !.weaponAnimSeen = FALSE,
                                !.cachedWeaponType = "unknown"]
             n  == [u.npc EXCEPT !.weaponTarget = want.weaponOut]
  <2>1. /\ Begun(a, u) /\ WeaponUnchanged(a, u)
        /\ u.st.isUnrestrained /\ ~u.npc.restrained
        /\ u.npc.forceSneak = a.npc.forceSneak
        /\ u.st.pendingOps = a.st.pendingOps
    BY <1>a, UnrestrainEffect
  <2>2. d = [u EXCEPT !.npc.weaponTarget = want.weaponOut, !.st.pendingOps = @ \cup {op},
                      !.st.weaponAnimSeen = FALSE, !.st.cachedWeaponType = "unknown"]
    BY <1>2 DEF BeginWeapon
  <2> HIDE DEF u
  <2>3. op \in WeaponOps /\ op \notin SneakOps /\ op \in PendingOp
    BY DEF SneakOps, WeaponOps, PendingOp
  <2>4. op = "WEAPON_DRAW" => ~a.st.npcWeaponOut
    BY <1>2, AvatarFields, PoseFields
  <2> HIDE DEF op
  <2>5. u \in Avatar
    BY <2>1 DEF Begun
  <2>6. s \in EntityAnimState /\ n \in Actor
    BY <2>3, <2>5, PoseFields DEF Avatar, EntityAnimState, Actor
  <2>7. d \in Avatar /\ d.npc = n /\ d.st = s
    BY <2>2, <2>5, <2>6 DEF Avatar
  <2>8. /\ s.prev = u.st.prev /\ s.attackLeft = u.st.attackLeft
        /\ s.pendingOps = u.st.pendingOps \cup {op}
        /\ s.npcWeaponOut = u.st.npcWeaponOut
        /\ s.forceReapplyActions = u.st.forceReapplyActions
        /\ s.isUnrestrained = u.st.isUnrestrained
    BY <2>5 DEF Avatar, EntityAnimState
  <2>9. /\ n.restrained = u.npc.restrained /\ n.forceSneak = u.npc.forceSneak
        /\ n.sneaking = u.npc.sneaking /\ n.weapon = u.npc.weapon
        /\ n.weaponOut = u.npc.weaponOut /\ n.legs = u.npc.legs
        /\ n.upper = u.npc.upper
    BY <2>5 DEF Avatar, Actor
  <2> HIDE DEF s, n
  <2>10. Begun(a, d) /\ d.npc.forceSneak = a.npc.forceSneak
    BY <2>1, <2>7, <2>8, <2>9 DEF Begun, SameBody
  <2>11. /\ d.st.pendingOps = a.st.pendingOps \cup {op}
         /\ d.st.npcWeaponOut = a.st.npcWeaponOut
    BY <2>1, <2>7, <2>8 DEF WeaponUnchanged
  <2>12. WindowOK(d)
    BY <2>1, <2>7, <2>8, <2>9 DEF WindowOK
  <2>13. OneOK(d)
    BY <2>11 DEF OneOK, WeaponOps
  <2>14. SneakOK(d, c)
    BY <1>a, <2>3, <2>10, <2>11 DEF SneakOK, Begun, SameBody
  <2>15. DrawOK(d)
    BY <2>4, <2>11 DEF DrawOK, WeaponOps
  <2>16. d.st.pendingOps \cap WeaponOps # {}
    BY <2>3, <2>11
  <2>17. TypeKnown(d, c)
    BY <2>16 DEF TypeKnown
  <2>18. QED
    BY <2>10, <2>12, <2>13, <2>14, <2>15, <2>16, <2>17 DEF Sound
<1>3. QED
  BY <1>1, <1>2

LEMMA BegunTwice ==
  ASSUME NEW a, NEW b, NEW d, Begun(a, b), Begun(b, d)
  PROVE  Begun(a, d)
BY DEF Begun, SameBody

\* With no weapon operation under way, what the NPC holds is what it counts as holding.
LEMMA ApplyWeaponSound ==
  ASSUME want \in Wants, NEW a \in Avatar, NEW c, Sound(a, c), NEW d, d = ApplyWeapon(a)
  PROVE  /\ Begun(a, d) /\ Sound(d, c) /\ d.npc.forceSneak = a.npc.forceSneak
         /\ d.st.pendingOps \cap WeaponOps = {} => d.st.npcWeaponOut = d.npc.weaponOut
<1>1. CASE a.st.pendingOps \cap WeaponOps # {}
  BY <1>1 DEF ApplyWeapon, Begun, SameBody
<1>2. CASE a.st.pendingOps \cap WeaponOps = {}
  <2> DEFINE b == CorrectWeapon(a)
  <2>1. /\ Begun(a, b) /\ Sound(b, c) /\ b.npc = a.npc
        /\ b.st.npcWeaponOut = b.npc.weaponOut
        /\ b.st.pendingOps = a.st.pendingOps
    BY <1>2, CorrectWeaponSound
  <2>2. d = BeginWeapon(b) /\ b \in Avatar
    BY <1>2, <2>1 DEF ApplyWeapon, Begun
  <2> HIDE DEF b
  <2>3. /\ Begun(b, d) /\ Sound(d, c) /\ d.npc.forceSneak = b.npc.forceSneak
        /\ d.st.pendingOps \cap WeaponOps = {} => d.st.npcWeaponOut = d.npc.weaponOut
    BY <1>2, <2>1, <2>2, BeginWeaponSound
  <2>4. QED
    BY <2>1, <2>3, BegunTwice
<1>3. QED
  BY <1>1, <1>2

---------------------------------------------------------------------------
(***************************************************************************)
(* ApplyLocomotion, ApplyActions and Remember.                             *)
(***************************************************************************)

\* Soundness is about the operations, the weapon and sneaking.
Same(a, d) ==
  /\ d.st.pendingOps = a.st.pendingOps
  /\ d.st.isUnrestrained = a.st.isUnrestrained
  /\ d.st.npcWeaponOut = a.st.npcWeaponOut
  /\ d.st.cachedWeaponType = a.st.cachedWeaponType
  /\ d.npc.restrained = a.npc.restrained
  /\ d.npc.forceSneak = a.npc.forceSneak
  /\ d.npc.sneaking = a.npc.sneaking
  /\ d.npc.weapon = a.npc.weapon
  /\ d.npc.weaponOut = a.npc.weaponOut

LEMMA SameSound ==
  ASSUME NEW a, NEW d, NEW c, Sound(a, c), Same(a, d)
  PROVE  Sound(d, c)
<1>1. WindowOK(d) /\ OneOK(d) /\ DrawOK(d)
  BY DEF Same, Sound, WindowOK, OneOK, DrawOK
<1>2. SneakOK(d, c)
  BY DEF Same, Sound, SneakOK
<1>3. TypeKnown(d, c)
  BY DEF Same, Sound, TypeKnown
<1>4. QED
  BY <1>1, <1>2, <1>3 DEF Sound

LEMMA LocomotionEffect ==
  ASSUME want \in Wants, NEW a \in Avatar, NEW d, d = ApplyLocomotion(a)
  PROVE  /\ d \in Avatar /\ Same(a, d) /\ d.st = a.st
         /\ d.npc.upper = a.npc.upper
         /\ d.npc.legs = IF a.st.attackLeft > 0 \/ ~LocomotionDiffers(a) THEN a.npc.legs
                         ELSE LocomotionGroup(want.move, want.running)
<1>1. CASE a.st.attackLeft > 0 \/ ~LocomotionDiffers(a)
  BY <1>1 DEF ApplyLocomotion, Same
<1>2. CASE ~(a.st.attackLeft > 0 \/ ~LocomotionDiffers(a))
  <2> DEFINE g == LocomotionGroup(want.move, want.running)
             n == [a.npc EXCEPT !.legs = g]
  <2>1. g \in [move : MoveDirections, fast : BOOLEAN]
    BY PoseFields DEF LocomotionGroup
  <2>2. d = [a EXCEPT !.npc.legs = g]
    BY <1>2 DEF ApplyLocomotion
  <2> HIDE DEF g
  <2>3. n \in Actor
    BY <2>1 DEF Avatar, Actor
  <2>4. d \in Avatar /\ d.st = a.st /\ d.npc = n
    BY <2>2, <2>3 DEF Avatar
  <2>5. /\ n.restrained = a.npc.restrained /\ n.forceSneak = a.npc.forceSneak
        /\ n.sneaking = a.npc.sneaking /\ n.weapon = a.npc.weapon
        /\ n.weaponOut = a.npc.weaponOut /\ n.legs = g /\ n.upper = a.npc.upper
    BY DEF Avatar, Actor
  <2> HIDE DEF n
  <2>6. QED
    BY <1>2, <2>4, <2>5 DEF Same, g
<1>3. QED
  BY <1>1, <1>2

LEMMA ActionsEffect ==
  ASSUME want \in Wants, NEW a \in Avatar, NEW d, d = ApplyActions(a)
  PROVE  /\ d \in Avatar /\ Same(a, d)
         /\ d.st.attackLeft = a.st.attackLeft /\ d.st.prev = a.st.prev
         /\ d.npc.legs = a.npc.legs
         /\ d.npc.upper = IF a.st.attackLeft > 0 \/ ~ActionsDiffer(a) THEN a.npc.upper
                          ELSE ActionGroup(want.action, want.weaponOut, a.npc.upper)
<1> DEFINE g == IF a.st.attackLeft > 0 \/ ~ActionsDiffer(a) THEN a.npc.upper
                ELSE ActionGroup(want.action, want.weaponOut, a.npc.upper)
           s == [a.st EXCEPT !.forceReapplyActions = FALSE]
           n == [a.npc EXCEPT !.upper = g]
<1>1. g \in {"none", "ReloadA", "AimIS", "Aim", "disrupted"}
  BY DEF ActionGroup, Avatar, Actor
<1>2. d.st = s /\ d.npc = n /\ d = [st |-> s, npc |-> n]
  BY DEF ApplyActions, Avatar, EntityAnimState, Actor
<1> HIDE DEF g
<1>3. s \in EntityAnimState /\ n \in Actor
  BY <1>1 DEF Avatar, EntityAnimState, Actor
<1>4. d \in Avatar
  BY <1>2, <1>3 DEF Avatar
<1>5. /\ s.prev = a.st.prev /\ s.attackLeft = a.st.attackLeft
      /\ s.pendingOps = a.st.pendingOps
      /\ s.npcWeaponOut = a.st.npcWeaponOut
      /\ s.cachedWeaponType = a.st.cachedWeaponType
      /\ s.isUnrestrained = a.st.isUnrestrained
  BY DEF Avatar, EntityAnimState
<1>6. /\ n.restrained = a.npc.restrained /\ n.forceSneak = a.npc.forceSneak
      /\ n.sneaking = a.npc.sneaking /\ n.weapon = a.npc.weapon
      /\ n.weaponOut = a.npc.weaponOut /\ n.legs = a.npc.legs /\ n.upper = g
  BY DEF Avatar, Actor
<1> HIDE DEF s, n
<1>7. QED
  BY <1>2, <1>4, <1>5, <1>6 DEF Same, g

LEMMA RememberEffect ==
  ASSUME want \in Wants, NEW a \in Avatar, NEW d, d = Remember(a)
  PROVE  /\ d \in Avatar /\ Same(a, d) /\ d.npc = a.npc
         /\ d.st.prev = [move |-> want.move, running |-> want.running,
                         sneaking |-> want.sneaking, action |-> want.action]
<1> DEFINE p == [move |-> want.move, running |-> want.running,
                 sneaking |-> want.sneaking, action |-> want.action]
           s == [a.st EXCEPT !.prev = p]
<1>1. p \in [move : MoveDirections, running : BOOLEAN, sneaking : BOOLEAN,
             action : SUBSET {"Reloading", "AimingIS"}]
  BY PoseFields
<1>2. d = [a EXCEPT !.st.prev = p]
  BY DEF Remember
<1> HIDE DEF p
<1>3. s \in EntityAnimState
  BY <1>1 DEF Avatar, EntityAnimState
<1>4. d \in Avatar /\ d.npc = a.npc /\ d.st = s
  BY <1>2, <1>3 DEF Avatar
<1>5. /\ s.prev = p
      /\ s.pendingOps = a.st.pendingOps
      /\ s.npcWeaponOut = a.st.npcWeaponOut
      /\ s.cachedWeaponType = a.st.cachedWeaponType
      /\ s.isUnrestrained = a.st.isUnrestrained
  BY DEF Avatar, EntityAnimState
<1> HIDE DEF s
<1>6. QED
  BY <1>4, <1>5 DEF Same, p

LEMMA AgedEffect ==
  ASSUME NEW s \in EntityAnimState, NEW t, t = Aged(s)
  PROVE  /\ t \in EntityAnimState
         /\ t.prev = s.prev /\ t.pendingOps = s.pendingOps
         /\ t.isUnrestrained = s.isUnrestrained
         /\ t.npcWeaponOut = s.npcWeaponOut
         /\ t.cachedWeaponType = s.cachedWeaponType
<1> DEFINE w == IF s.isUnrestrained /\ s.windowAge < UNRESTRAIN_TIMEOUT + 2
                THEN s.windowAge + 1 ELSE s.windowAge
           k == IF s.attackLeft > 0 THEN s.attackLeft - 1 ELSE 0
<1>1. s.windowAge \in 0 .. UNRESTRAIN_TIMEOUT + 2 /\ s.attackLeft \in 0 .. ATTACK_DURATION
  BY DEF EntityAnimState
<1>2. w \in 0 .. UNRESTRAIN_TIMEOUT + 2 /\ k \in 0 .. ATTACK_DURATION
  BY <1>1, DurationsAssumption
<1>3. t = [s EXCEPT !.windowAge = w, !.attackLeft = k]
  BY DEF Aged, EntityAnimState
<1> HIDE DEF w, k
<1>4. QED
  BY <1>2, <1>3 DEF EntityAnimState

---------------------------------------------------------------------------
(***************************************************************************)
(* A frame.                                                                *)
(***************************************************************************)

Now == [st |-> st, npc |-> npc]

\* TypeOK; soundness; the NPC is told to sneak as the player last did; and what the
\* player does is shown, so that a frame without a difference has nothing to do.
IInv ==
  /\ TypeOK
  /\ Sound(Now, cut)
  /\ npc.forceSneak = st.prev.sneaking
  /\ ActionsFollow
  /\ LocomotionFollows

\* What is begun anew does not count as given up any more.
LEMMA ResumedSound ==
  ASSUME NEW a \in Avatar, NEW c, Sound(a, c),
         NEW e, e = c \ Resumed(a.st.pendingOps),
         NEW k, k \cap PendingOp = e \cap PendingOp
  PROVE  Sound(a, k)
<1>a. WindowOK(a) /\ OneOK(a) /\ SneakOK(a, c) /\ DrawOK(a) /\ TypeKnown(a, c)
  BY DEF Sound
<1>1. SneakOK(a, k)
  <2>1. CASE a.st.pendingOps \cap SneakOps # {}
    BY <1>a, <2>1 DEF SneakOK
  <2>2. CASE a.st.pendingOps \cap SneakOps = {}
    <3>1. Resumed(a.st.pendingOps) \cap SneakOps = {}
      <4>1. WeaponOps \cap SneakOps = {}
        BY DEF WeaponOps, SneakOps
      <4>2. QED
        BY <2>2, <4>1 DEF Resumed
    <3>2. k \cap SneakOps = {} => c \cap SneakOps = {}
      BY <3>1 DEF PendingOp
    <3>3. QED
      BY <1>a, <2>2, <3>2 DEF SneakOK
  <2>3. QED
    BY <2>1, <2>2
<1>2. TypeKnown(a, k)
  <2>1. CASE a.st.pendingOps \cap WeaponOps # {}
    BY <2>1 DEF TypeKnown
  <2>2. CASE a.st.pendingOps \cap WeaponOps = {}
    <3>1. Resumed(a.st.pendingOps) \cap WeaponOps = {}
      <4>1. WeaponOps \cap SneakOps = {}
        BY DEF WeaponOps, SneakOps
      <4>2. QED
        BY <2>2, <4>1 DEF Resumed
    <3>2. "WEAPON_HOLSTER" \notin k => "WEAPON_HOLSTER" \notin c
      BY <3>1 DEF PendingOp, WeaponOps
    <3>3. QED
      BY <1>a, <2>2, <3>2 DEF TypeKnown
  <2>3. QED
    BY <2>1, <2>2
<1>3. QED
  BY <1>a, <1>1, <1>2 DEF Sound

LEMMA SkippedIsNotPending == Skipped \cap PendingOp = {}
BY DEF Skipped, PendingOp, WeaponOps, SneakOps

\* A frame that draws the avatar, with its functions' results by name: "a" at its
\* start, "p" polled, "d" with the operations begun, "b" at its end.
Frame(a, p, d, b) ==
  /\ a \in Avatar /\ a.st = st /\ a.npc = npc
  /\ p = PollUnrestrain(a)
  /\ Begun(p, d)
  /\ b \in Avatar /\ Sound(b, cut')
  /\ Same(d, b)
  /\ b.npc.forceSneak = b.st.prev.sneaking
  /\ b.st.prev = [move |-> want.move, running |-> want.running,
                  sneaking |-> want.sneaking, action |-> want.action]
  /\ b.npc.legs = IF d.st.attackLeft > 0 \/ ~LocomotionDiffers(d) THEN d.npc.legs
                  ELSE LocomotionGroup(want.move, want.running)
  /\ b.npc.upper = IF d.st.attackLeft > 0 \/ ~ActionsDiffer(d) THEN d.npc.upper
                   ELSE ActionGroup(want.action, want.weaponOut, d.npc.upper)
  /\ b.st.pendingOps \cap WeaponOps = {} => b.st.npcWeaponOut = b.npc.weaponOut
  /\ st' = Aged(b.st) /\ npc' = b.npc /\ cut' = CutAfter(a, p, b)
  /\ st'.prev = b.st.prev /\ st'.pendingOps = b.st.pendingOps
  /\ st'.isUnrestrained = b.st.isUnrestrained
  /\ st'.npcWeaponOut = b.st.npcWeaponOut
  /\ st'.cachedWeaponType = b.st.cachedWeaponType
  /\ UNCHANGED want

LEMMA NowFields ==
  ASSUME TypeOK
  PROVE  Now \in Avatar /\ Now.st = st /\ Now.npc = npc
BY DEF TypeOK, Now, Avatar

LEMMA FrameSteps ==
  ASSUME IInv, Animation_ApplyState
  PROVE  \E a, p, d, b : Frame(a, p, d, b)
<1> DEFINE a == Now
           p == PollUnrestrain(a)
           r == ApplySneak(p)
           d == ApplyWeapon(r)
           l == ApplyLocomotion(d)
           x == ApplyActions(l)
           b == Remember(x)
           e == IF TimedOut(a) THEN cut \cup a.st.pendingOps ELSE cut
<1>0. want \in Wants /\ npc.forceSneak = st.prev.sneaking /\ Sound(a, cut)
  BY DEF IInv, TypeOK
<1>1. a \in Avatar /\ a.st = st /\ a.npc = npc
  BY NowFields DEF IInv
<1>2. /\ st' = Aged(b.st) /\ npc' = b.npc /\ cut' = CutAfter(a, p, b)
      /\ UNCHANGED want
  BY DEF Animation_ApplyState, Now
<1> HIDE DEF a
<1>3. /\ p \in Avatar /\ SameBody(a, p) /\ Sound(p, e)
      /\ p.npc.forceSneak = a.npc.forceSneak
  BY <1>0, <1>1, PollSound
<1>4. p.npc.forceSneak = p.st.prev.sneaking
  BY <1>0, <1>1, <1>3 DEF SameBody
<1>p. p = PollUnrestrain(a)
  OBVIOUS
<1> HIDE DEF p
<1>e. cut' \cap PendingOp = (e \ Resumed(b.st.pendingOps)) \cap PendingOp
  BY <1>2, SkippedIsNotPending DEF CutAfter, Changed
<1> HIDE DEF e
<1>5. Begun(p, r) /\ Sound(r, e) /\ r.npc.forceSneak = want.sneaking
  BY <1>0, <1>3, <1>4, ApplySneakSound
<1>6. r \in Avatar
  BY <1>5 DEF Begun
<1> HIDE DEF r
<1>7. /\ Begun(r, d) /\ Sound(d, e) /\ d.npc.forceSneak = r.npc.forceSneak
      /\ d.st.pendingOps \cap WeaponOps = {} => d.st.npcWeaponOut = d.npc.weaponOut
  BY <1>0, <1>5, <1>6, ApplyWeaponSound
<1>8. d \in Avatar /\ Begun(p, d)
  BY <1>5, <1>7, BegunTwice DEF Begun
<1> HIDE DEF d
<1>9. /\ l \in Avatar /\ Same(d, l) /\ l.st = d.st
      /\ l.npc.upper = d.npc.upper
      /\ l.npc.legs = IF d.st.attackLeft > 0 \/ ~LocomotionDiffers(d) THEN d.npc.legs
                      ELSE LocomotionGroup(want.move, want.running)
  BY <1>0, <1>8, LocomotionEffect
<1> HIDE DEF l
<1>10. /\ x \in Avatar /\ Same(l, x)
       /\ x.npc.legs = l.npc.legs
       /\ x.npc.upper = IF l.st.attackLeft > 0 \/ ~ActionsDiffer(l) THEN l.npc.upper
                        ELSE ActionGroup(want.action, want.weaponOut, l.npc.upper)
  BY <1>0, <1>9, ActionsEffect
<1> HIDE DEF x
<1>11. /\ b \in Avatar /\ Same(x, b) /\ b.npc = x.npc
       /\ b.st.prev = [move |-> want.move, running |-> want.running,
                       sneaking |-> want.sneaking, action |-> want.action]
  BY <1>0, <1>10, RememberEffect
<1> HIDE DEF b
<1>12. Same(d, b)
  BY <1>9, <1>10, <1>11 DEF Same
<1>13. Sound(b, cut')
  <2>1. Sound(b, e)
    BY <1>7, <1>12, SameSound
  <2>2. QED
    BY <1>11, <1>e, <2>1, ResumedSound
<1>14. b.npc.forceSneak = b.st.prev.sneaking
  BY <1>5, <1>7, <1>11, <1>12 DEF Same
<1>15. /\ b.npc.legs = IF d.st.attackLeft > 0 \/ ~LocomotionDiffers(d) THEN d.npc.legs
                       ELSE LocomotionGroup(want.move, want.running)
       /\ b.npc.upper = IF d.st.attackLeft > 0 \/ ~ActionsDiffer(d) THEN d.npc.upper
                        ELSE ActionGroup(want.action, want.weaponOut, d.npc.upper)
  BY <1>9, <1>10, <1>11 DEF ActionsDiffer
<1>16. b.st.pendingOps \cap WeaponOps = {} => b.st.npcWeaponOut = b.npc.weaponOut
  BY <1>7, <1>12 DEF Same
<1>17. /\ st'.prev = b.st.prev /\ st'.pendingOps = b.st.pendingOps
       /\ st'.isUnrestrained = b.st.isUnrestrained
       /\ st'.npcWeaponOut = b.st.npcWeaponOut
       /\ st'.cachedWeaponType = b.st.cachedWeaponType
  BY <1>2, <1>11, AgedEffect, AvatarFields
<1>18. Frame(a, p, d, b)
  BY <1>1, <1>p, <1>2, <1>8, <1>11, <1>12, <1>13, <1>14, <1>15, <1>16, <1>17 DEF Frame
<1>19. QED
  BY <1>18

\* While the window is open or an operation was given up, nothing is promised about the
\* action shown; once it closes by itself the action is issued again.
LEMMA FrameShowsActions ==
  ASSUME IInv, NEW a, NEW p, NEW d, NEW b, Frame(a, p, d, b)
  PROVE  ActionsFollow'
<1> SUFFICES ASSUME ~st'.isUnrestrained, cut' \subseteq {"LOCOMOTION"}, st'.prev.action # {}
             PROVE  npc'.upper = ActionGroup(st'.prev.action, TRUE, "none")
  BY DEF ActionsFollow
<1>1. /\ a \in Avatar /\ a.st = st /\ a.npc = npc /\ p = PollUnrestrain(a)
      /\ Begun(p, d) /\ d.st.isUnrestrained = b.st.isUnrestrained
      /\ st'.isUnrestrained = b.st.isUnrestrained
      /\ st'.prev.action = want.action /\ npc' = b.npc
      /\ b.npc.upper = IF d.st.attackLeft > 0 \/ ~ActionsDiffer(d) THEN d.npc.upper
                       ELSE ActionGroup(want.action, want.weaponOut, d.npc.upper)
      /\ st'.pendingOps = b.st.pendingOps /\ Sound(b, cut')
      /\ cut' = CutAfter(a, p, b)
  BY DEF Frame, Same
<1>2. WindowOK(Now) /\ Sound(a, cut) /\ TypeOK /\ ActionsFollow
  <2>1. a = Now
    BY <1>1, NowFields DEF IInv, Avatar, Now
  <2>2. QED
    BY <2>1 DEF IInv, Sound
<1> DEFINE e == IF TimedOut(a) THEN cut \cup a.st.pendingOps ELSE cut
<1>3. /\ p \in Avatar /\ SameBody(a, p) /\ Sound(p, e)
      /\ ~a.st.isUnrestrained => p = a
      /\ (a.st.isUnrestrained /\ ~TimedOut(a) /\ ~p.st.isUnrestrained)
           => p.st.forceReapplyActions
  BY <1>1, <1>2, PollSound
<1>4. ~p.st.isUnrestrained /\ b.st.pendingOps = {}
  BY <1>1 DEF Begun, Sound, WindowOK
<1>5. Resumed(b.st.pendingOps) = {}
  BY <1>4 DEF Resumed
<1>6. /\ d.st.prev = st.prev /\ d.npc.upper = npc.upper
      /\ ActionsDiffer(d) <=> ActionsDiffer(p)
      /\ d.st.attackLeft = st.attackLeft
  BY <1>1, <1>3 DEF Begun, SameBody, ActionsDiffer
<1>7. ActionGroup(want.action, want.weaponOut, d.npc.upper)
        = ActionGroup(want.action, TRUE, "none")
  <2>1. want.action # {} /\ want.action \subseteq {"Reloading", "AimingIS"}
    BY <1>1, <1>2, PoseFields DEF TypeOK
  <2>2. QED
    BY <2>1 DEF ActionGroup
<1>8. CASE ~(d.st.attackLeft > 0) /\ ActionsDiffer(d)
  BY <1>1, <1>7, <1>8
<1>9. CASE ~ActionsDiffer(d)
  <2>1. ~ActionsDiffer(p) /\ ~p.st.forceReapplyActions /\ want.action = st.prev.action
    BY <1>6, <1>9 DEF ActionsDiffer
  <2>2. \A op \in PendingOp : op \notin cut'
    BY DEF PendingOp, WeaponOps, SneakOps
  <2>3. ~TimedOut(a)
    <3>1. SUFFICES ASSUME TimedOut(a) PROVE FALSE
      OBVIOUS
    <3>2. a.st.pendingOps # {} /\ a.st.pendingOps \subseteq PendingOp
      BY <1>1, <1>2, <3>1, AvatarFields DEF Sound, WindowOK, TimedOut
    <3>3. PICK op \in a.st.pendingOps : TRUE
      BY <3>2
    <3>4. op \in cut'
      BY <1>1, <1>5, <3>1, <3>2, <3>3, SkippedIsNotPending DEF CutAfter, Changed
    <3>5. QED
      BY <2>2, <3>2, <3>4
  <2>4. ~st.isUnrestrained
    BY <1>1, <1>3, <1>4, <2>1, <2>3
  <2>5. Changed(p) \subseteq {"LOCOMOTION"}
    BY <2>1 DEF Changed, Skipped
  <2>6. cut \subseteq {"LOCOMOTION"}
    BY <1>1, <1>5, <2>3, <2>5 DEF CutAfter
  <2>7. npc.upper = ActionGroup(st.prev.action, TRUE, "none")
    BY <1>1, <1>2, <2>1, <2>4, <2>6 DEF ActionsFollow
  <2>8. QED
    BY <1>1, <1>6, <1>9, <2>1, <2>7
<1>10. CASE d.st.attackLeft > 0 /\ ActionsDiffer(d)
  <2>1. "ACTIONS" \in Changed(p)
    BY <1>6, <1>10 DEF Changed, Skipped
  <2>2. a.st.attackLeft > 0
    BY <1>1, <1>6, <1>10
  <2>3. "ACTIONS" \in cut'
    BY <1>1, <2>1, <2>2 DEF CutAfter
  <2>4. QED
    BY <2>3
<1>11. QED
  BY <1>8, <1>9, <1>10

LEMMA FrameShowsLocomotion ==
  ASSUME IInv, NEW a, NEW p, NEW d, NEW b, Frame(a, p, d, b)
  PROVE  LocomotionFollows'
<1> SUFFICES ASSUME "LOCOMOTION" \notin cut'
             PROVE  npc'.legs = LocomotionGroup(st'.prev.move, st'.prev.running)
  BY DEF LocomotionFollows
<1>1. /\ a \in Avatar /\ a.st = st /\ a.npc = npc /\ p = PollUnrestrain(a)
      /\ Begun(p, d)
      /\ st'.prev.move = want.move /\ st'.prev.running = want.running /\ npc' = b.npc
      /\ b.npc.legs = IF d.st.attackLeft > 0 \/ ~LocomotionDiffers(d) THEN d.npc.legs
                      ELSE LocomotionGroup(want.move, want.running)
      /\ cut' = CutAfter(a, p, b)
  BY DEF Frame
<1>2. Sound(a, cut) /\ LocomotionFollows
  <2>1. a = Now
    BY <1>1, NowFields DEF IInv, Avatar, Now
  <2>2. QED
    BY <2>1 DEF IInv
<1>3. SameBody(a, p)
  BY <1>1, <1>2, PollSound
<1>4. /\ d.st.prev = st.prev /\ d.npc.legs = npc.legs
      /\ LocomotionDiffers(d) <=> LocomotionDiffers(p)
      /\ d.st.attackLeft = st.attackLeft
  BY <1>1, <1>3 DEF Begun, SameBody, LocomotionDiffers
<1>5. "LOCOMOTION" \in Changed(p) <=> LocomotionDiffers(p)
  BY DEF Changed, Skipped
<1>6. "LOCOMOTION" \notin Resumed(b.st.pendingOps)
  BY DEF Resumed, WeaponOps, SneakOps
<1>7. CASE ~LocomotionDiffers(d)
  <2>1. want.move = st.prev.move /\ want.running = st.prev.running
    BY <1>4, <1>7 DEF LocomotionDiffers
  <2>2. "LOCOMOTION" \notin cut
    BY <1>1, <1>4, <1>5, <1>6, <1>7 DEF CutAfter
  <2>3. QED
    BY <1>1, <1>2, <1>4, <1>7, <2>1, <2>2 DEF LocomotionFollows
<1>8. CASE LocomotionDiffers(d) /\ ~(d.st.attackLeft > 0)
  BY <1>1, <1>8
<1>9. CASE LocomotionDiffers(d) /\ d.st.attackLeft > 0
  <2>1. "LOCOMOTION" \in cut'
    BY <1>1, <1>4, <1>5, <1>9 DEF CutAfter
  <2>2. QED
    BY <2>1
<1>10. QED
  BY <1>7, <1>8, <1>9

---------------------------------------------------------------------------
(***************************************************************************)
(* The actions.                                                            *)
(***************************************************************************)

LEMMA FramePreserves ==
  ASSUME IInv, Animation_ApplyState
  PROVE  IInv'
<1>1. PICK a, p, d, b : Frame(a, p, d, b)
  BY FrameSteps
<1>2. ActionsFollow' /\ LocomotionFollows'
  BY <1>1, FrameShowsActions, FrameShowsLocomotion
<1>3. /\ b \in Avatar /\ Sound(b, cut') /\ b.npc.forceSneak = b.st.prev.sneaking
      /\ st' = Aged(b.st) /\ npc' = b.npc /\ cut' = CutAfter(a, p, b)
      /\ a \in Avatar /\ a.st = st /\ want' = want
  BY <1>1 DEF Frame
<1>4. b.st \in EntityAnimState /\ b.npc \in Actor
  BY <1>3 DEF Avatar
<1>5. /\ st' \in EntityAnimState
      /\ st'.prev = b.st.prev /\ st'.pendingOps = b.st.pendingOps
      /\ st'.isUnrestrained = b.st.isUnrestrained
      /\ st'.npcWeaponOut = b.st.npcWeaponOut
      /\ st'.cachedWeaponType = b.st.cachedWeaponType
  BY <1>3, <1>4, AgedEffect
<1>6. TypeOK'
  <2>1. cut' \subseteq PendingOp \cup Skipped
    <3>1. a.st.pendingOps \subseteq PendingOp /\ cut \subseteq PendingOp \cup Skipped
      BY <1>3, AvatarFields DEF IInv, TypeOK
    <3>2. QED
      BY <1>3, <3>1 DEF CutAfter, Changed
  <2>2. QED
    BY <1>3, <1>4, <1>5, <2>1 DEF IInv, TypeOK
<1>7. Sound(Now, cut)'
  <2>1. Now'.st = st' /\ Now'.npc = npc'
    BY DEF Now
  <2>2. Same(b, Now')
    BY <1>3, <1>5, <2>1 DEF Same
  <2>3. Sound(Now', cut')
    BY <1>3, <2>2, SameSound
  <2>4. QED
    BY <2>3 DEF Sound, WindowOK, OneOK, SneakOK, DrawOK, TypeKnown
<1>8. QED
  BY <1>2, <1>3, <1>5, <1>6, <1>7 DEF IInv

LEMMA SkipPreserves ==
  ASSUME IInv, SkipOtherCell
  PROVE  IInv'
<1>1. /\ st' \in EntityAnimState
      /\ st'.prev = st.prev /\ st'.pendingOps = st.pendingOps
      /\ st'.isUnrestrained = st.isUnrestrained
      /\ st'.npcWeaponOut = st.npcWeaponOut
      /\ st'.cachedWeaponType = st.cachedWeaponType
  BY AgedEffect DEF SkipOtherCell, IInv, TypeOK
<1>2. UNCHANGED <<want, npc, cut>>
  BY DEF SkipOtherCell
<1>3. TypeOK'
  BY <1>1, <1>2 DEF IInv, TypeOK
<1>4. Sound(Now, cut)'
  BY <1>1, <1>2 DEF IInv, Now, Sound, WindowOK, OneOK, SneakOK, DrawOK, TypeKnown
<1>5. ActionsFollow' /\ LocomotionFollows'
  BY <1>1, <1>2 DEF IInv, ActionsFollow, LocomotionFollows
<1>6. QED
  BY <1>1, <1>2, <1>3, <1>4, <1>5 DEF IInv

LEMMA FirePreserves ==
  ASSUME IInv, Animation_ApplyFire
  PROVE  IInv'
<1> DEFINE k == IF st.cachedWeaponType \in {"melee", "thrown"} THEN ATTACK_DURATION
                ELSE st.attackLeft
           g == CASE st.cachedWeaponType = "ranged" ->
                       IF "AimingIS" \in st.prev.action THEN "AttackLeftIS" ELSE "AttackLeft"
                  [] st.cachedWeaponType = "melee"   -> "AttackRight"
                  [] st.cachedWeaponType = "thrown"  -> "AttackThrow6"
                  [] st.cachedWeaponType = "unknown" -> "generic"
<1>0. st \in EntityAnimState /\ npc \in Actor
  BY DEF IInv, TypeOK
<1>1. k \in 0 .. ATTACK_DURATION
  BY <1>0, DurationsAssumption DEF EntityAnimState
<1>2. g \in {"none", "AttackLeft", "AttackLeftIS", "AttackRight", "AttackThrow6", "generic"}
  <2>1. st.cachedWeaponType \in {"ranged", "melee", "thrown", "unknown"}
    BY <1>0, PosesAssumption DEF EntityAnimState
  <2>2. QED
    BY <2>1
<1>3. st' = [st EXCEPT !.attackLeft = k] /\ npc' = [npc EXCEPT !.attack = g]
  BY <1>0 DEF Animation_ApplyFire, EntityAnimState
<1>u. UNCHANGED <<want, cut>>
  BY DEF Animation_ApplyFire
<1> HIDE DEF k, g
<1>4. st' \in EntityAnimState /\ npc' \in Actor
  BY <1>0, <1>1, <1>2, <1>3 DEF EntityAnimState, Actor
<1>5. /\ st'.prev = st.prev /\ st'.pendingOps = st.pendingOps
      /\ st'.isUnrestrained = st.isUnrestrained
      /\ st'.npcWeaponOut = st.npcWeaponOut
      /\ st'.cachedWeaponType = st.cachedWeaponType
  BY <1>0, <1>3 DEF EntityAnimState
<1>6. /\ npc'.restrained = npc.restrained /\ npc'.forceSneak = npc.forceSneak
      /\ npc'.sneaking = npc.sneaking /\ npc'.weapon = npc.weapon
      /\ npc'.weaponOut = npc.weaponOut /\ npc'.legs = npc.legs /\ npc'.upper = npc.upper
  BY <1>0, <1>3 DEF Actor
<1>7. TypeOK'
  BY <1>4, <1>u DEF IInv, TypeOK
<1>8. Sound(Now, cut)'
  BY <1>5, <1>6, <1>u DEF IInv, Now, Sound, WindowOK, OneOK, SneakOK, DrawOK, TypeKnown
<1>9. ActionsFollow' /\ LocomotionFollows'
  BY <1>5, <1>6, <1>u DEF IInv, ActionsFollow, LocomotionFollows
<1>10. QED
  BY <1>5, <1>6, <1>7, <1>8, <1>9 DEF IInv

LEMMA SnapshotPreserves ==
  ASSUME IInv, NewSnapshot
  PROVE  IInv'
<1>1. want' \in Wants /\ st' = st /\ npc' = npc /\ cut' = cut
  BY DEF NewSnapshot
<1>2. QED
  BY <1>1 DEF IInv, TypeOK, Now, Sound, WindowOK, OneOK, SneakOK, DrawOK, TypeKnown,
              ActionsFollow, LocomotionFollows

\* The engine only moves an NPC that is not restrained, whose window is then open.
LEMMA SneakPreserves ==
  ASSUME IInv, EngineSneaks
  PROVE  IInv'
<1>0. st \in EntityAnimState /\ npc \in Actor
  BY DEF IInv, TypeOK
<1>1. PICK u \in {npc.upper, "disrupted"} :
        npc' = [npc EXCEPT !.sneaking = npc.forceSneak, !.upper = u]
  BY DEF EngineSneaks
<1>2. ~npc.restrained /\ UNCHANGED <<want, st, cut>>
  BY DEF EngineSneaks
<1>3. npc' \in Actor
  BY <1>0, <1>1 DEF Actor
<1>4. /\ npc'.restrained = npc.restrained /\ npc'.forceSneak = npc.forceSneak
      /\ npc'.sneaking = npc.forceSneak /\ npc'.weapon = npc.weapon
      /\ npc'.legs = npc.legs
  BY <1>0, <1>1 DEF Actor
<1>5. TypeOK'
  BY <1>2, <1>3 DEF IInv, TypeOK
<1>6. Sound(Now, cut)'
  BY <1>2, <1>4 DEF IInv, Now, Sound, WindowOK, OneOK, SneakOK, DrawOK, TypeKnown
<1>7. st.isUnrestrained
  BY <1>0, <1>2 DEF IInv, Now, Sound, WindowOK, EntityAnimState, Actor
<1>8. ActionsFollow' /\ LocomotionFollows'
  BY <1>2, <1>4, <1>7 DEF IInv, ActionsFollow, LocomotionFollows
<1>9. QED
  BY <1>2, <1>4, <1>5, <1>6, <1>8 DEF IInv

LEMMA StartPreserves ==
  ASSUME IInv, EngineStartsWeapon
  PROVE  IInv'
<1>0. st \in EntityAnimState /\ npc \in Actor
  BY DEF IInv, TypeOK
<1>1. PICK u \in {npc.upper, "disrupted"}, out \in BOOLEAN :
        npc' = [npc EXCEPT !.animAction = IF npc.weaponTarget THEN "equip" ELSE "unequip",
                           !.weaponOut = out, !.upper = u]
  BY DEF EngineStartsWeapon
<1>2. ~npc.restrained /\ UNCHANGED <<want, st, cut>>
  BY DEF EngineStartsWeapon
<1>3. npc' \in Actor
  BY <1>0, <1>1 DEF Actor
<1>4. /\ npc'.restrained = npc.restrained /\ npc'.forceSneak = npc.forceSneak
      /\ npc'.sneaking = npc.sneaking /\ npc'.weapon = npc.weapon
      /\ npc'.legs = npc.legs
  BY <1>0, <1>1 DEF Actor
<1>5. TypeOK'
  BY <1>2, <1>3 DEF IInv, TypeOK
<1>6. Sound(Now, cut)'
  BY <1>2, <1>4 DEF IInv, Now, Sound, WindowOK, OneOK, SneakOK, DrawOK, TypeKnown
<1>7. st.isUnrestrained
  BY <1>0, <1>2 DEF IInv, Now, Sound, WindowOK, EntityAnimState, Actor
<1>8. ActionsFollow' /\ LocomotionFollows'
  BY <1>2, <1>4, <1>7 DEF IInv, ActionsFollow, LocomotionFollows
<1>9. QED
  BY <1>2, <1>4, <1>5, <1>6, <1>8 DEF IInv

LEMMA EndPreserves ==
  ASSUME IInv, EngineEndsWeapon
  PROVE  IInv'
<1>0. st \in EntityAnimState /\ npc \in Actor
  BY DEF IInv, TypeOK
<1>1. npc' = [npc EXCEPT !.weaponOut = npc.animAction = "equip", !.animAction = "none"]
  BY DEF EngineEndsWeapon
<1>2. UNCHANGED <<want, st, cut>>
  BY DEF EngineEndsWeapon
<1>3. npc' \in Actor
  BY <1>0, <1>1 DEF Actor
<1>4. /\ npc'.restrained = npc.restrained /\ npc'.forceSneak = npc.forceSneak
      /\ npc'.sneaking = npc.sneaking /\ npc'.weapon = npc.weapon
      /\ npc'.legs = npc.legs /\ npc'.upper = npc.upper
  BY <1>0, <1>1 DEF Actor
<1>5. TypeOK'
  BY <1>2, <1>3 DEF IInv, TypeOK
<1>6. Sound(Now, cut)'
  BY <1>2, <1>4 DEF IInv, Now, Sound, WindowOK, OneOK, SneakOK, DrawOK, TypeKnown
<1>7. ActionsFollow' /\ LocomotionFollows'
  BY <1>2, <1>4 DEF IInv, ActionsFollow, LocomotionFollows
<1>8. QED
  BY <1>2, <1>4, <1>5, <1>6, <1>7 DEF IInv

LEMMA InitEstablishes ==
  ASSUME Init
  PROVE  IInv
<1>1. PICK w \in WeaponTypes :
        npc = [restrained |-> TRUE, forceSneak |-> FALSE, sneaking |-> FALSE,
               weapon |-> w, weaponTarget |-> FALSE, weaponOut |-> FALSE,
               animAction |-> "none", legs |-> StandingStill,
               upper |-> "none", attack |-> "none"]
  BY DEF Init
<1>2. npc \in Actor
  BY <1>1 DEF Actor, StandingStill, MoveDirections
<1>3. st \in EntityAnimState
  BY Ages, DurationsAssumption DEF Init, EntityAnimState, MoveDirections
<1>4. TypeOK
  BY <1>2, <1>3 DEF Init, TypeOK
<1>5. /\ npc.restrained = TRUE /\ npc.forceSneak = FALSE /\ npc.sneaking = FALSE
      /\ npc.legs = StandingStill
  BY <1>1
<1>6. /\ st.pendingOps = {} /\ ~st.isUnrestrained /\ ~st.npcWeaponOut
      /\ st.prev.sneaking = FALSE /\ st.prev.action = {}
      /\ st.prev.move = "None" /\ ~st.prev.running
  BY DEF Init
<1>7. Sound(Now, cut)
  BY <1>5, <1>6 DEF Now, Sound, WindowOK, OneOK, SneakOK, DrawOK, TypeKnown, WeaponOps
<1>8. ActionsFollow
  BY <1>6 DEF ActionsFollow
<1>9. LocomotionFollows
  BY <1>5, <1>6 DEF LocomotionFollows, LocomotionGroup, StandingStill
<1>10. npc.forceSneak = st.prev.sneaking
  BY <1>5, <1>6
<1>11. QED
  BY <1>4, <1>7, <1>8, <1>9, <1>10 DEF IInv

---------------------------------------------------------------------------
(***************************************************************************)
(* The theorems.                                                           *)
(***************************************************************************)

\* IInv holds always: every function of a frame, every event and every step of the
\* engine leaves the avatar sound.
THEOREM AnimationInductive == Spec => []IInv
<1>1. Init => IInv
  BY InitEstablishes
<1>2. IInv /\ [Next]_vars => IInv'
  <2> SUFFICES ASSUME IInv, [Next]_vars PROVE IInv'
    OBVIOUS
  <2>1. CASE Animation_ApplyState
    BY <2>1, FramePreserves
  <2>2. CASE SkipOtherCell
    BY <2>2, SkipPreserves
  <2>3. CASE Animation_ApplyFire
    BY <2>3, FirePreserves
  <2>4. CASE NewSnapshot
    BY <2>4, SnapshotPreserves
  <2>5. CASE EngineSneaks
    BY <2>5, SneakPreserves
  <2>6. CASE EngineStartsWeapon
    BY <2>6, StartPreserves
  <2>7. CASE EngineEndsWeapon
    BY <2>7, EndPreserves
  <2>8. CASE UNCHANGED vars
    BY <2>8 DEF vars, IInv, TypeOK, Now, Sound, WindowOK, OneOK, SneakOK, DrawOK,
                TypeKnown, ActionsFollow, LocomotionFollows
  <2>9. QED
    BY <2>1, <2>2, <2>3, <2>4, <2>5, <2>6, <2>7, <2>8 DEF Next
<1>3. QED
  BY <1>1, <1>2, PTL DEF Spec

\* Every part of the avatar's state has its type (EntityAnimState, animation.h).
THEOREM AnimationTypeCorrect == Spec => []TypeOK
<1>1. IInv => TypeOK
  BY DEF IInv
<1>2. QED
  BY <1>1, AnimationInductive, PTL

\* An operation is pending exactly while the window is open, which is while the NPC is
\* not restrained (Unrestrain, PollUnrestrain).
THEOREM AnimationWindowMatchesPending == Spec => []WindowMatchesPending
<1>1. IInv => WindowMatchesPending
  BY DEF IInv, Now, Sound, WindowOK, WindowMatchesPending
<1>2. QED
  BY <1>1, AnimationInductive, PTL

\* PollUnrestrain never polls for a draw and a holster at once.
THEOREM AnimationOneWeaponOperation == Spec => []OneWeaponOperation
<1>1. IInv => OneWeaponOperation
  BY DEF IInv, Now, Sound, OneOK, OneWeaponOperation
<1>2. QED
  BY <1>1, AnimationInductive, PTL

\* Whatever the durations and however crouching and rising overlap, the NPC ends up as
\* the player is, but for a timeout (ApplySneak, PollUnrestrain).
THEOREM AnimationSneakSettled == Spec => []SneakSettled
<1>1. IInv => SneakSettled
  <2> SUFFICES ASSUME IInv, ~st.isUnrestrained, cut \cap SneakOps = {}
               PROVE  npc.sneaking = st.prev.sneaking
    BY DEF SneakSettled
  <2>1. SneakOK(Now, cut) /\ WindowOK(Now) /\ npc.forceSneak = st.prev.sneaking
    BY DEF IInv, Sound
  <2>2. st.pendingOps = {}
    BY <2>1 DEF WindowOK, Now
  <2>3. npc.sneaking = npc.forceSneak
    BY <2>1, <2>2 DEF SneakOK, Now
  <2>4. QED
    BY <2>1, <2>3
<1>2. QED
  BY <1>1, AnimationInductive, PTL

\* What the player does is shown again after every transition, and the legs follow his
\* (ApplyLocomotion, ApplyActions, forceReapplyActions).
THEOREM AnimationPoseFollows == Spec => []PoseFollows
<1>1. IInv => PoseFollows
  BY DEF IInv, PoseFollows
<1>2. QED
  BY <1>1, AnimationInductive, PTL

\* After a frame without an operation under way the weapon in the NPC's hands is the one
\* its shots are shown with (ApplyWeapon, PollUnrestrain).
THEOREM AnimationWeaponTypeKnown == Spec => WeaponTypeKnown
<1>1. IInv /\ [Next]_vars =>
        [Animation_ApplyState =>
           (npc'.weaponOut /\ st'.pendingOps = {} /\ "WEAPON_HOLSTER" \notin cut'
              => st'.cachedWeaponType = npc'.weapon)]_vars
  <2> SUFFICES ASSUME IInv, Animation_ApplyState, npc'.weaponOut, st'.pendingOps = {},
                      "WEAPON_HOLSTER" \notin cut'
               PROVE  st'.cachedWeaponType = npc'.weapon
    OBVIOUS
  <2>1. PICK a, p, d, b : Frame(a, p, d, b)
    BY FrameSteps
  <2>2. /\ Sound(b, cut') /\ npc' = b.npc /\ st'.pendingOps = b.st.pendingOps
        /\ st'.cachedWeaponType = b.st.cachedWeaponType
        /\ b.st.pendingOps \cap WeaponOps = {} => b.st.npcWeaponOut = b.npc.weaponOut
    BY <2>1 DEF Frame
  <2>3. QED
    BY <2>2 DEF Sound, TypeKnown
<1>2. QED
  BY <1>1, AnimationInductive, PTL DEF Spec, WeaponTypeKnown

---------------------------------------------------------------------------
(***************************************************************************)
(* How long the window stays open.                                         *)
(***************************************************************************)

WeaponOp(out) == IF out THEN "WEAPON_DRAW" ELSE "WEAPON_HOLSTER"

WeaponAnim(out) == IF out THEN "equip" ELSE "unequip"

\* The operation that is pending is the one the NPC was told to carry out last, and
\* the animation that has been seen is the operation's own: when it is over, the weapon
\* is where it should be.
Animated(a) ==
  \A out \in BOOLEAN :
    WeaponOp(out) \in a.st.pendingOps =>
      /\ a.npc.weaponTarget = out
      /\ a.st.weaponAnimSeen => \/ a.npc.animAction = WeaponAnim(out)
                                \/ a.npc.animAction = "none" /\ a.npc.weaponOut = out

\* The two operations and their animations, told apart.
LEMMA WeaponOps2 ==
  /\ WeaponOps = {WeaponOp(TRUE), WeaponOp(FALSE)}
  /\ WeaponOp(TRUE) = "WEAPON_DRAW" /\ WeaponOp(FALSE) = "WEAPON_HOLSTER"
  /\ WeaponAnim(TRUE) = "equip" /\ WeaponAnim(FALSE) = "unequip"
  /\ \A out \in BOOLEAN : WeaponOp(out) = "WEAPON_DRAW" <=> out
  /\ \A out \in BOOLEAN : \A sneaking \in BOOLEAN : WeaponOp(out) # SneakOp(sneaking)
BY DEF WeaponOps, WeaponOp, WeaponAnim, SneakOp

LEMMA AnimFields ==
  ASSUME NEW a \in Avatar
  PROVE  /\ a.npc.animAction \in {"none", "equip", "unequip"}
         /\ a.npc.weaponOut \in BOOLEAN /\ a.npc.weaponTarget \in BOOLEAN
         /\ a.st.weaponAnimSeen \in BOOLEAN
         /\ a.st.windowAge \in 0 .. UNRESTRAIN_TIMEOUT + 2
BY DEF Avatar, EntityAnimState, Actor

LEMMA PollDrawTime ==
  ASSUME NEW a \in Avatar, OneOK(a), Animated(a), NEW d, d = PollDraw(a)
  PROVE  /\ Animated(d)
         /\ "WEAPON_DRAW" \in a.st.pendingOps /\ "WEAPON_DRAW" \notin d.st.pendingOps
              => a.npc.weaponOut
         /\ \A op : op # "WEAPON_DRAW" /\ op \in a.st.pendingOps => op \in d.st.pendingOps
<1>1. CASE d = a
  BY <1>1
<1>2. CASE /\ "WEAPON_DRAW" \in a.st.pendingOps /\ a.npc.animAction = "equip"
           /\ d = [a EXCEPT !.st.weaponAnimSeen = TRUE]
  <2>1. d.npc = a.npc /\ d.st.pendingOps = a.st.pendingOps
    BY <1>2 DEF Avatar, EntityAnimState
  <2>2. "WEAPON_HOLSTER" \notin a.st.pendingOps
    BY <1>2 DEF OneOK, WeaponOps
  <2>3. QED
    BY <1>2, <2>1, <2>2, WeaponOps2 DEF Animated
<1>3. CASE /\ "WEAPON_DRAW" \in a.st.pendingOps /\ a.npc.animAction # "equip"
           /\ a.st.weaponAnimSeen
           /\ d = [a EXCEPT !.st.pendingOps = @ \ {"WEAPON_DRAW"}, !.st.weaponAnimSeen = FALSE,
                            !.st.npcWeaponOut = TRUE, !.st.cachedWeaponType = a.npc.weapon]
  <2> DEFINE s == [a.st EXCEPT !.pendingOps = @ \ {"WEAPON_DRAW"}, !.weaponAnimSeen = FALSE,
                               !.npcWeaponOut = TRUE, !.cachedWeaponType = a.npc.weapon]
  <2>a. d.npc = a.npc /\ d.st = s
    BY <1>3 DEF Avatar
  <2>b. s.weaponAnimSeen = FALSE /\ s.pendingOps = a.st.pendingOps \ {"WEAPON_DRAW"}
    BY DEF Avatar, EntityAnimState
  <2> HIDE DEF s
  <2>1. /\ d.npc = a.npc /\ d.st.weaponAnimSeen = FALSE
        /\ d.st.pendingOps = a.st.pendingOps \ {"WEAPON_DRAW"}
    BY <2>a, <2>b
  <2>2. a.npc.weaponOut
    BY <1>3, WeaponOps2 DEF Animated
  <2>3. QED
    BY <2>1, <2>2 DEF Animated
<1>4. QED
  BY <1>1, <1>2, <1>3 DEF PollDraw

LEMMA PollHolsterTime ==
  ASSUME NEW a \in Avatar, OneOK(a), Animated(a), NEW d, d = PollHolster(a)
  PROVE  /\ Animated(d)
         /\ "WEAPON_HOLSTER" \in a.st.pendingOps /\ "WEAPON_HOLSTER" \notin d.st.pendingOps
              => ~a.npc.weaponOut
         /\ \A op : op # "WEAPON_HOLSTER" /\ op \in a.st.pendingOps => op \in d.st.pendingOps
<1>1. CASE d = a
  BY <1>1
<1>2. CASE /\ "WEAPON_HOLSTER" \in a.st.pendingOps /\ a.npc.animAction = "unequip"
           /\ d = [a EXCEPT !.st.weaponAnimSeen = TRUE]
  <2>1. d.npc = a.npc /\ d.st.pendingOps = a.st.pendingOps
    BY <1>2 DEF Avatar, EntityAnimState
  <2>2. "WEAPON_DRAW" \notin a.st.pendingOps
    BY <1>2 DEF OneOK, WeaponOps
  <2>3. QED
    BY <1>2, <2>1, <2>2, WeaponOps2 DEF Animated
<1>3. CASE /\ "WEAPON_HOLSTER" \in a.st.pendingOps /\ a.npc.animAction # "unequip"
           /\ a.st.weaponAnimSeen
           /\ d = [a EXCEPT !.st.pendingOps = @ \ {"WEAPON_HOLSTER"},
                            !.st.weaponAnimSeen = FALSE, !.st.npcWeaponOut = FALSE]
  <2> DEFINE s == [a.st EXCEPT !.pendingOps = @ \ {"WEAPON_HOLSTER"},
                               !.weaponAnimSeen = FALSE, !.npcWeaponOut = FALSE]
  <2>a. d.npc = a.npc /\ d.st = s
    BY <1>3 DEF Avatar
  <2>b. s.weaponAnimSeen = FALSE /\ s.pendingOps = a.st.pendingOps \ {"WEAPON_HOLSTER"}
    BY DEF Avatar, EntityAnimState
  <2> HIDE DEF s
  <2>1. /\ d.npc = a.npc /\ d.st.weaponAnimSeen = FALSE
        /\ d.st.pendingOps = a.st.pendingOps \ {"WEAPON_HOLSTER"}
    BY <2>a, <2>b
  <2>2. ~a.npc.weaponOut
    BY <1>3, WeaponOps2 DEF Animated
  <2>3. QED
    BY <2>1, <2>2 DEF Animated
<1>4. QED
  BY <1>1, <1>2, <1>3 DEF PollHolster

\* What of the avatar concerns the window's time and the weapon's animation.
Unmoved(a, d) ==
  /\ d.st.weaponAnimSeen = a.st.weaponAnimSeen
  /\ d.npc.weaponTarget = a.npc.weaponTarget
  /\ d.npc.animAction = a.npc.animAction
  /\ d.npc.weaponOut = a.npc.weaponOut

LEMMA UnmovedAnimated ==
  ASSUME NEW a, NEW d, Animated(a), Unmoved(a, d),
         \A out \in BOOLEAN :
           WeaponOp(out) \in d.st.pendingOps => WeaponOp(out) \in a.st.pendingOps
  PROVE  Animated(d)
BY DEF Animated, Unmoved

\* An operation that polling finds done is done.
LEMMA PollTime ==
  ASSUME NEW a \in Avatar, NEW c, Sound(a, c), Animated(a), NEW d, d = PollUnrestrain(a)
  PROVE  /\ Animated(d)
         /\ d.st.isUnrestrained => d.st.windowAge = a.st.windowAge
         /\ TimedOut(a) => ~d.st.isUnrestrained
         /\ ~TimedOut(a) =>
              \A op \in a.st.pendingOps \ d.st.pendingOps :
                /\ \A out \in BOOLEAN : op = WeaponOp(out) => a.npc.weaponOut = out
                /\ op \in SneakOps => op = SneakOp(a.npc.sneaking)
<1>1. CASE ~a.st.isUnrestrained
  <2>1. d = a
    BY <1>1 DEF PollUnrestrain
  <2>2. QED
    BY <1>1, <2>1 DEF TimedOut
<1>2. CASE TimedOut(a)
  <2>1. d.st.pendingOps = {} /\ ~d.st.isUnrestrained
    BY <1>2, TimeoutEffect
  <2>2. QED
    BY <1>2, <2>1 DEF Animated
<1>3. CASE a.st.isUnrestrained /\ ~TimedOut(a)
  <2> DEFINE b1 == PollDraw(a)
             b2 == PollHolster(b1)
             b3 == PollSneak(b2)
  <2>0. WindowOK(a) /\ OneOK(a)
    BY DEF Sound
  <2>1. d = CloseWindow(b3)
    BY <1>3 DEF PollUnrestrain
  <2>2. Polled(a, b1) /\ Animated(b1)
    BY <2>0, PollDrawEffect, PollDrawTime
  <2>3. /\ "WEAPON_DRAW" \in a.st.pendingOps /\ "WEAPON_DRAW" \notin b1.st.pendingOps
             => a.npc.weaponOut
        /\ \A op : op # "WEAPON_DRAW" /\ op \in a.st.pendingOps => op \in b1.st.pendingOps
    BY <2>0, PollDrawTime
  <2> HIDE DEF b1
  <2>4. b1 \in Avatar /\ OneOK(b1)
    BY <2>0, <2>2 DEF Polled, OneOK
  <2>5. Polled(b1, b2) /\ Animated(b2)
    BY <2>2, <2>4, PollHolsterEffect, PollHolsterTime
  <2>6. /\ "WEAPON_HOLSTER" \in b1.st.pendingOps /\ "WEAPON_HOLSTER" \notin b2.st.pendingOps
             => ~b1.npc.weaponOut
        /\ \A op : op # "WEAPON_HOLSTER" /\ op \in b1.st.pendingOps => op \in b2.st.pendingOps
    BY <2>2, <2>4, PollHolsterTime
  <2>b. b2 \in Avatar
    BY <2>5 DEF Polled
  <2>s. b3 = [b2 EXCEPT !.st.pendingOps = @ \ {SneakOp(b2.npc.sneaking)}]
    BY DEF PollSneak, SneakOp
  <2> HIDE DEF b2
  <2>7. /\ Polled(b2, b3)
        /\ b3.st.pendingOps = b2.st.pendingOps \ {SneakOp(b2.npc.sneaking)}
    BY <2>b, PollSneakEffect
  <2>8. Unmoved(b2, b3)
    BY <2>b, <2>7, <2>s DEF Unmoved, Polled, Avatar, EntityAnimState
  <2> HIDE DEF b3
  <2>9. Animated(b3)
    BY <2>5, <2>7, <2>8, UnmovedAnimated
  <2>10. b3 \in Avatar /\ b3.npc = a.npc /\ b3.st.isUnrestrained /\ b3.st.windowAge = a.st.windowAge
    BY <1>3, <2>2, <2>5, <2>7 DEF Polled
  <2>11. d.st.pendingOps = b3.st.pendingOps /\ d.st.windowAge = b3.st.windowAge
    BY <1>3, <2>0, <2>1, <2>10, CloseEffect DEF WindowOK
  <2>12. Animated(d)
    <3>1. CASE b3.st.pendingOps = {}
      BY <2>11, <3>1 DEF Animated
    <3>2. CASE b3.st.pendingOps # {}
      BY <2>1, <2>9, <3>2 DEF CloseWindow
    <3>3. QED
      BY <3>1, <3>2
  <2>13. ASSUME NEW op \in a.st.pendingOps \ d.st.pendingOps
         PROVE  /\ \A out \in BOOLEAN : op = WeaponOp(out) => a.npc.weaponOut = out
                /\ op \in SneakOps => op = SneakOp(a.npc.sneaking)
    <3>1. b1.npc = a.npc /\ b2.npc = a.npc
      BY <2>2, <2>5 DEF Polled
    <3>2. op \in b2.st.pendingOps => op = SneakOp(a.npc.sneaking)
      BY <2>7, <2>11, <2>13, <3>1
    <3>3. CASE op = "WEAPON_DRAW"
      <4>1. op \notin b2.st.pendingOps /\ op \notin SneakOps
        BY <3>2, <3>3 DEF SneakOp, SneakOps
      <4>2. op \notin b1.st.pendingOps
        BY <2>6, <3>3, <4>1
      <4>3. a.npc.weaponOut
        BY <2>3, <2>13, <3>3, <4>2
      <4>4. \A out \in BOOLEAN : op = WeaponOp(out) => out
        BY <3>3, WeaponOps2
      <4>5. QED
        BY <4>1, <4>3, <4>4, AnimFields
    <3>4. CASE op = "WEAPON_HOLSTER"
      <4>1. op \notin b2.st.pendingOps /\ op \notin SneakOps
        BY <3>2, <3>4 DEF SneakOp, SneakOps
      <4>2. op \in b1.st.pendingOps
        BY <2>3, <2>13, <3>4
      <4>3. ~a.npc.weaponOut
        BY <2>6, <3>1, <3>4, <4>1, <4>2
      <4>4. \A out \in BOOLEAN : op = WeaponOp(out) => ~out
        BY <3>4, WeaponOps2
      <4>5. QED
        BY <4>1, <4>3, <4>4, AnimFields
    <3>5. CASE op \notin {"WEAPON_DRAW", "WEAPON_HOLSTER"}
      <4>1. op \in b2.st.pendingOps
        BY <2>3, <2>6, <2>13, <3>5
      <4>2. \A out \in BOOLEAN : op # WeaponOp(out)
        BY <3>5 DEF WeaponOp
      <4>3. QED
        BY <3>2, <4>1, <4>2
    <3>6. QED
      BY <3>3, <3>4, <3>5
  <2>14. QED
    BY <1>3, <2>10, <2>11, <2>12, <2>13
<1>4. QED
  BY <1>1, <1>2, <1>3

\* An open window keeps its age; one that is opened starts at 0.
AgeKept(a, d) ==
  /\ a.st.isUnrestrained => d.st.windowAge = a.st.windowAge
  /\ ~a.st.isUnrestrained /\ d.st.isUnrestrained => d.st.windowAge = 0

LEMMA UnrestrainTime ==
  ASSUME NEW a \in Avatar, NEW d, d = Unrestrain(a)
  PROVE  Unmoved(a, d) /\ AgeKept(a, d)
<1>1. CASE a.st.isUnrestrained
  BY <1>1 DEF Unrestrain, Unmoved, AgeKept
<1>2. CASE ~a.st.isUnrestrained
  <2> DEFINE s == [a.st EXCEPT !.isUnrestrained = TRUE, !.windowAge = 0]
             n == [a.npc EXCEPT !.restrained = FALSE]
  <2>1. d = [a EXCEPT !.npc.restrained = FALSE, !.st.isUnrestrained = TRUE,
                      !.st.windowAge = 0]
    BY <1>2 DEF Unrestrain
  <2>2. d.npc = n /\ d.st = s
    BY <2>1 DEF Avatar
  <2>3. /\ s.weaponAnimSeen = a.st.weaponAnimSeen /\ s.windowAge = 0
        /\ n.weaponTarget = a.npc.weaponTarget /\ n.animAction = a.npc.animAction
        /\ n.weaponOut = a.npc.weaponOut
    BY DEF Avatar, EntityAnimState, Actor
  <2> HIDE DEF s, n
  <2>4. QED
    BY <1>2, <2>2, <2>3 DEF Unmoved, AgeKept
<1>3. QED
  BY <1>1, <1>2

LEMMA ApplySneakTime ==
  ASSUME want \in Wants, NEW a \in Avatar, WindowOK(a), Animated(a), NEW d, d = ApplySneak(a)
  PROVE  /\ Animated(d) /\ AgeKept(a, d)
         /\ d.npc.weaponOut = a.npc.weaponOut
         /\ \A op \in d.st.pendingOps \ a.st.pendingOps :
              op = SneakOp(want.sneaking) /\ want.sneaking # a.st.prev.sneaking
<1>1. CASE want.sneaking = a.st.prev.sneaking
  BY <1>1 DEF ApplySneak, AgeKept
<1>2. CASE want.sneaking # a.st.prev.sneaking
  <2> DEFINE u  == Unrestrain(a)
             op == SneakOp(want.sneaking)
             s  == [u.st EXCEPT !.pendingOps = @ \cup {op}]
             n  == [u.npc EXCEPT !.forceSneak = want.sneaking]
  <2>1. /\ u \in Avatar /\ Unmoved(a, u) /\ AgeKept(a, u)
        /\ u.st.pendingOps = a.st.pendingOps /\ u.st.isUnrestrained
    BY UnrestrainEffect, UnrestrainTime DEF Begun
  <2>2. d = [u EXCEPT !.npc.forceSneak = want.sneaking, !.st.pendingOps = @ \cup {op}]
    BY <1>2 DEF ApplySneak, SneakOp
  <2> HIDE DEF u
  <2>3. \A out \in BOOLEAN : op # WeaponOp(out)
    BY WeaponOps2, PoseFields
  <2> HIDE DEF op
  <2>4. d.npc = n /\ d.st = s
    BY <2>1, <2>2 DEF Avatar
  <2>5. /\ s.weaponAnimSeen = u.st.weaponAnimSeen /\ s.windowAge = u.st.windowAge
        /\ s.pendingOps = u.st.pendingOps \cup {op} /\ s.isUnrestrained = u.st.isUnrestrained
        /\ n.weaponTarget = u.npc.weaponTarget /\ n.animAction = u.npc.animAction
        /\ n.weaponOut = u.npc.weaponOut
    BY <2>1 DEF Avatar, EntityAnimState, Actor
  <2> HIDE DEF s, n
  <2>6. Unmoved(a, d) /\ AgeKept(a, d) /\ d.st.pendingOps = a.st.pendingOps \cup {op}
    BY <2>1, <2>4, <2>5 DEF Unmoved, AgeKept
  <2>7. Animated(d)
    BY <2>3, <2>6, UnmovedAnimated
  <2>8. QED
    BY <1>2, <2>6, <2>7 DEF Unmoved, op
<1>3. QED
  BY <1>1, <1>2

LEMMA BeginWeaponTime ==
  ASSUME want \in Wants, NEW a \in Avatar, WindowOK(a), a.st.pendingOps \cap WeaponOps = {},
         NEW d, d = BeginWeapon(a)
  PROVE  /\ Animated(d) /\ AgeKept(a, d)
         /\ \A op \in d.st.pendingOps \ a.st.pendingOps :
              op = WeaponOp(want.weaponOut) /\ want.weaponOut # a.st.npcWeaponOut
<1>1. CASE a.st.npcWeaponOut = want.weaponOut
  <2>1. d = a
    BY <1>1 DEF BeginWeapon
  <2>2. Animated(a)
    BY WeaponOps2 DEF Animated
  <2>3. QED
    BY <2>1, <2>2 DEF AgeKept
<1>2. CASE a.st.npcWeaponOut # want.weaponOut
  <2> DEFINE u  == Unrestrain(a)
             op == WeaponOp(want.weaponOut)
             s  == [u.st EXCEPT !.pendingOps = @ \cup {op}, !.weaponAnimSeen = FALSE,
                                !.cachedWeaponType = "unknown"]
             n  == [u.npc EXCEPT !.weaponTarget = want.weaponOut]
  <2>1. /\ u \in Avatar /\ Unmoved(a, u) /\ AgeKept(a, u)
        /\ u.st.pendingOps = a.st.pendingOps /\ u.st.isUnrestrained
    BY UnrestrainEffect, UnrestrainTime DEF Begun
  <2>2. d = [u EXCEPT !.npc.weaponTarget = want.weaponOut, !.st.pendingOps = @ \cup {op},
                      !.st.weaponAnimSeen = FALSE, !.st.cachedWeaponType = "unknown"]
    BY <1>2 DEF BeginWeapon, WeaponOp
  <2> HIDE DEF u
  <2>3. \A out \in BOOLEAN : op = WeaponOp(out) => out = want.weaponOut
    BY PoseFields DEF WeaponOp
  <2> HIDE DEF op
  <2>4. d.npc = n /\ d.st = s
    BY <2>1, <2>2 DEF Avatar
  <2>5. /\ s.weaponAnimSeen = FALSE /\ s.windowAge = u.st.windowAge
        /\ s.pendingOps = u.st.pendingOps \cup {op} /\ s.isUnrestrained = u.st.isUnrestrained
        /\ n.weaponTarget = want.weaponOut
    BY <2>1 DEF Avatar, EntityAnimState, Actor
  <2> HIDE DEF s, n
  <2>6. AgeKept(a, d) /\ d.st.pendingOps = a.st.pendingOps \cup {op}
    BY <2>1, <2>4, <2>5 DEF AgeKept
  <2>7. Animated(d)
    <3> SUFFICES ASSUME NEW out \in BOOLEAN, WeaponOp(out) \in d.st.pendingOps
                 PROVE  d.npc.weaponTarget = out /\ ~d.st.weaponAnimSeen
      BY DEF Animated
    <3>1. WeaponOp(out) \notin a.st.pendingOps
      BY WeaponOps2
    <3>2. out = want.weaponOut
      BY <2>3, <2>6, <3>1
    <3>3. QED
      BY <2>4, <2>5, <3>2
  <2>8. QED
    BY <1>2, <2>6, <2>7 DEF op
<1>3. QED
  BY <1>1, <1>2

LEMMA ApplyWeaponTime ==
  ASSUME want \in Wants, NEW a \in Avatar, NEW c, Sound(a, c), Animated(a),
         NEW d, d = ApplyWeapon(a)
  PROVE  /\ Animated(d) /\ AgeKept(a, d)
         /\ \A op \in d.st.pendingOps \ a.st.pendingOps :
              op = WeaponOp(want.weaponOut) /\ want.weaponOut # a.npc.weaponOut
<1>1. CASE a.st.pendingOps \cap WeaponOps # {}
  BY <1>1 DEF ApplyWeapon, AgeKept
<1>2. CASE a.st.pendingOps \cap WeaponOps = {}
  <2> DEFINE b == CorrectWeapon(a)
  <2>1. /\ b \in Avatar /\ Sound(b, c) /\ b.npc = a.npc
        /\ b.st.npcWeaponOut = b.npc.weaponOut
        /\ b.st.pendingOps = a.st.pendingOps
    BY <1>2, CorrectWeaponSound DEF Begun
  <2>2. b.st.isUnrestrained = a.st.isUnrestrained /\ b.st.windowAge = a.st.windowAge
    BY DEF CorrectWeapon, Avatar, EntityAnimState
  <2>3. d = BeginWeapon(b)
    BY <1>2 DEF ApplyWeapon
  <2> HIDE DEF b
  <2>4. /\ Animated(d) /\ AgeKept(b, d)
        /\ \A op \in d.st.pendingOps \ b.st.pendingOps :
             op = WeaponOp(want.weaponOut) /\ want.weaponOut # b.st.npcWeaponOut
    BY <1>2, <2>1, <2>3, BeginWeaponTime DEF Sound
  <2>5. QED
    BY <2>1, <2>2, <2>4 DEF AgeKept
<1>3. QED
  BY <1>1, <1>2

\* The rest of the frame and the time to the next one.
LEMMA RestTime ==
  ASSUME want \in Wants, NEW d \in Avatar,
         NEW b, b = Remember(ApplyActions(ApplyLocomotion(d)))
  PROVE  /\ b \in Avatar /\ Unmoved(d, b)
         /\ b.st.windowAge = d.st.windowAge
         /\ b.st.isUnrestrained = d.st.isUnrestrained
         /\ b.st.pendingOps = d.st.pendingOps
<1> DEFINE l == ApplyLocomotion(d)
           x == ApplyActions(l)
<1>1. l \in Avatar /\ Unmoved(d, l) /\ l.st = d.st
  <2>1. l \in Avatar /\ l.st = d.st
    BY LocomotionEffect
  <2>2. \/ l = d
        \/ l = [d EXCEPT !.npc.legs = LocomotionGroup(want.move, want.running)]
    BY DEF ApplyLocomotion
  <2>3. QED
    BY <2>1, <2>2 DEF Unmoved, Avatar, Actor
<1>b. b = Remember(x)
  OBVIOUS
<1>x. x = ApplyActions(l)
  OBVIOUS
<1> HIDE DEF l, x
<1>2. x \in Avatar
  BY <1>1, <1>x, ActionsEffect
<1>3. /\ Unmoved(l, x) /\ x.st.windowAge = l.st.windowAge
      /\ x.st.isUnrestrained = l.st.isUnrestrained /\ x.st.pendingOps = l.st.pendingOps
  <2> DEFINE s == [l.st EXCEPT !.forceReapplyActions = FALSE]
  <2>1. \/ x = [l EXCEPT !.st.forceReapplyActions = FALSE]
        \/ \E u : x = [l EXCEPT !.st.forceReapplyActions = FALSE, !.npc.upper = u]
    BY <1>x DEF ApplyActions
  <2>2. /\ x.st = s
        /\ x.npc = l.npc \/ \E u : x.npc = [l.npc EXCEPT !.upper = u]
    BY <1>1, <2>1 DEF Avatar
  <2>3. /\ x.npc.weaponTarget = l.npc.weaponTarget /\ x.npc.animAction = l.npc.animAction
        /\ x.npc.weaponOut = l.npc.weaponOut
    BY <1>1, <2>2 DEF Avatar, Actor
  <2>4. /\ s.weaponAnimSeen = l.st.weaponAnimSeen /\ s.windowAge = l.st.windowAge
        /\ s.isUnrestrained = l.st.isUnrestrained /\ s.pendingOps = l.st.pendingOps
    BY <1>1 DEF Avatar, EntityAnimState
  <2> HIDE DEF s
  <2>5. QED
    BY <2>2, <2>3, <2>4 DEF Unmoved
<1>4. /\ b \in Avatar /\ Unmoved(x, b) /\ b.st.windowAge = x.st.windowAge
      /\ b.st.isUnrestrained = x.st.isUnrestrained /\ b.st.pendingOps = x.st.pendingOps
  <2>1. b \in Avatar /\ b.npc = x.npc
    BY <1>2, <1>b, RememberEffect
  <2> DEFINE q == [move |-> want.move, running |-> want.running,
                   sneaking |-> want.sneaking, action |-> want.action]
             s == [x.st EXCEPT !.prev = q]
  <2>2. b.st = s
    BY <1>2, <1>b DEF Remember, Avatar
  <2> HIDE DEF q
  <2>3. /\ s.weaponAnimSeen = x.st.weaponAnimSeen /\ s.windowAge = x.st.windowAge
        /\ s.isUnrestrained = x.st.isUnrestrained /\ s.pendingOps = x.st.pendingOps
    BY <1>2 DEF Avatar, EntityAnimState
  <2> HIDE DEF s
  <2>4. QED
    BY <2>1, <2>2, <2>3 DEF Unmoved
<1>5. QED
  BY <1>1, <1>3, <1>4 DEF Unmoved

LEMMA AgedTime ==
  ASSUME NEW s \in EntityAnimState, NEW t, t = Aged(s)
  PROVE  /\ t.weaponAnimSeen = s.weaponAnimSeen
         /\ t.windowAge = IF s.isUnrestrained /\ s.windowAge < UNRESTRAIN_TIMEOUT + 2
                          THEN s.windowAge + 1 ELSE s.windowAge
<1> DEFINE w == IF s.isUnrestrained /\ s.windowAge < UNRESTRAIN_TIMEOUT + 2
                THEN s.windowAge + 1 ELSE s.windowAge
           k == IF s.attackLeft > 0 THEN s.attackLeft - 1 ELSE 0
<1>1. t = [s EXCEPT !.windowAge = w, !.attackLeft = k]
  BY DEF Aged, EntityAnimState
<1> HIDE DEF w, k
<1>2. t.weaponAnimSeen = s.weaponAnimSeen /\ t.windowAge = w
  BY <1>1 DEF EntityAnimState
<1>3. QED
  BY <1>2 DEF w

\* A frame leaves the weapon's animation to the operation that is pending, and an
\* operation that is pending before and after it has the same window.
LEMMA FrameTime ==
  ASSUME IInv, Animated(Now), Animation_ApplyState
  PROVE  /\ Animated(Now)'
         /\ st.pendingOps \cap st'.pendingOps # {} =>
              st'.windowAge = IF st.windowAge > UNRESTRAIN_TIMEOUT THEN 1 ELSE st.windowAge + 1
<1> DEFINE a == Now
           p == PollUnrestrain(a)
           r == ApplySneak(p)
           d == ApplyWeapon(r)
           b == Remember(ApplyActions(ApplyLocomotion(d)))
           e == IF TimedOut(a) THEN cut \cup a.st.pendingOps ELSE cut
<1>0. want \in Wants /\ npc.forceSneak = st.prev.sneaking /\ Sound(a, cut) /\ Animated(a)
  BY DEF IInv, TypeOK
<1>1. a \in Avatar /\ a.st = st /\ a.npc = npc
  BY NowFields DEF IInv
<1>2. st' = Aged(b.st) /\ npc' = b.npc
  BY DEF Animation_ApplyState, Now
<1> HIDE DEF a
<1>3. /\ p \in Avatar /\ SameBody(a, p) /\ Sound(p, e)
      /\ p.npc.forceSneak = a.npc.forceSneak
  BY <1>0, <1>1, PollSound
<1>4. /\ Animated(p)
      /\ p.st.isUnrestrained => p.st.windowAge = a.st.windowAge
      /\ TimedOut(a) => ~p.st.isUnrestrained
      /\ ~TimedOut(a) =>
           \A op \in a.st.pendingOps \ p.st.pendingOps :
             /\ \A out \in BOOLEAN : op = WeaponOp(out) => a.npc.weaponOut = out
             /\ op \in SneakOps => op = SneakOp(a.npc.sneaking)
  BY <1>0, <1>1, PollTime
<1> HIDE DEF p, e
<1>5. Begun(p, r) /\ Sound(r, e)
  <2>1. p.npc.forceSneak = p.st.prev.sneaking
    BY <1>0, <1>1, <1>3 DEF SameBody
  <2>2. QED
    BY <1>0, <1>3, <2>1, ApplySneakSound
<1>6. /\ Animated(r) /\ AgeKept(p, r)
      /\ r.npc.weaponOut = p.npc.weaponOut
      /\ \A op \in r.st.pendingOps \ p.st.pendingOps :
           op = SneakOp(want.sneaking) /\ want.sneaking # p.st.prev.sneaking
  BY <1>0, <1>3, <1>4, ApplySneakTime DEF Sound
<1>7. r \in Avatar
  BY <1>5 DEF Begun
<1> HIDE DEF r
<1>8. /\ Begun(r, d) /\ Sound(d, e) /\ Animated(d) /\ AgeKept(r, d)
      /\ \A op \in d.st.pendingOps \ r.st.pendingOps :
           op = WeaponOp(want.weaponOut) /\ want.weaponOut # r.npc.weaponOut
  BY <1>0, <1>5, <1>6, <1>7, ApplyWeaponSound, ApplyWeaponTime
<1>9. d \in Avatar
  BY <1>8 DEF Begun
<1> HIDE DEF d
<1>10. /\ b \in Avatar /\ Unmoved(d, b)
       /\ b.st.windowAge = d.st.windowAge
       /\ b.st.isUnrestrained = d.st.isUnrestrained
       /\ b.st.pendingOps = d.st.pendingOps
  BY <1>0, <1>9, RestTime
<1> HIDE DEF b
<1>11. /\ st'.pendingOps = b.st.pendingOps
       /\ st'.weaponAnimSeen = b.st.weaponAnimSeen
       /\ st'.windowAge = IF b.st.isUnrestrained /\ b.st.windowAge < UNRESTRAIN_TIMEOUT + 2
                          THEN b.st.windowAge + 1 ELSE b.st.windowAge
  BY <1>2, <1>10, AgedEffect, AgedTime, AvatarFields
<1>12. Animated(Now)'
  <2>1. Animated(b)
    BY <1>8, <1>10, UnmovedAnimated
  <2>2. QED
    BY <1>2, <1>11, <2>1 DEF Animated, Now
<1>13. ASSUME NEW op \in st.pendingOps, op \in st'.pendingOps
       PROVE  st'.windowAge = IF st.windowAge > UNRESTRAIN_TIMEOUT THEN 1 ELSE st.windowAge + 1
  <2>1. a.st.isUnrestrained /\ d.st.isUnrestrained /\ op \in a.st.pendingOps /\ op \in d.st.pendingOps
    BY <1>0, <1>1, <1>8, <1>10, <1>11, <1>13 DEF Sound, WindowOK
  <2>2. st.windowAge \in 0 .. UNRESTRAIN_TIMEOUT + 2
    BY <1>1, AnimFields
  <2>3. CASE p.st.isUnrestrained
    <3>1. ~TimedOut(a) /\ p.st.windowAge = st.windowAge
      BY <1>1, <1>4, <2>3
    <3>2. st.windowAge <= UNRESTRAIN_TIMEOUT
      BY <1>1, <2>1, <2>2, <3>1, DurationsAssumption DEF TimedOut
    <3>3. r.st.isUnrestrained
      BY <1>5, <2>3 DEF Begun
    <3>4. b.st.windowAge = st.windowAge
      BY <1>6, <1>8, <1>10, <2>3, <3>1, <3>3 DEF AgeKept
    <3>5. QED
      BY <1>10, <1>11, <2>1, <2>2, <3>2, <3>4, DurationsAssumption
  <2>4. CASE ~p.st.isUnrestrained
    <3>1. p.st.pendingOps = {}
      BY <1>3, <2>4 DEF Sound, WindowOK
    <3>2. TimedOut(a)
      <4> SUFFICES ASSUME ~TimedOut(a) PROVE FALSE
        OBVIOUS
      <4>1. CASE op \in r.st.pendingOps
        <5>1. op = SneakOp(want.sneaking) /\ want.sneaking # npc.forceSneak
          BY <1>0, <1>1, <1>3, <1>6, <3>1, <4>1 DEF SameBody
        <5>2. op \in SneakOps
          BY <5>1 DEF SneakOp, SneakOps
        <5>3. op = SneakOp(a.npc.sneaking)
          BY <1>4, <2>1, <3>1, <5>2
        <5>4. a.npc.sneaking = want.sneaking
          BY <1>0, <1>1, <5>1, <5>3, AvatarFields, PoseFields DEF SneakOp
        <5>5. SneakOp(a.npc.forceSneak) \in a.st.pendingOps
          BY <1>0, <1>1, <2>1, <5>1, <5>2, <5>4 DEF Sound, SneakOK
        <5>6. SneakOp(a.npc.forceSneak) = SneakOp(a.npc.sneaking)
          <6>1. SneakOp(a.npc.forceSneak) \in SneakOps
            BY DEF SneakOp, SneakOps
          <6>2. QED
            BY <1>4, <3>1, <5>5, <6>1
        <5>7. QED
          BY <1>1, <5>1, <5>4, <5>6, AvatarFields DEF SneakOp
      <4>2. CASE op \notin r.st.pendingOps
        <5>1. op = WeaponOp(want.weaponOut) /\ want.weaponOut # a.npc.weaponOut
          BY <1>3, <1>6, <1>8, <2>1, <4>2 DEF SameBody
        <5>2. a.npc.weaponOut = want.weaponOut
          BY <1>0, <1>4, <2>1, <3>1, <5>1, PoseFields
        <5>3. QED
          BY <5>1, <5>2
      <4>3. QED
        BY <4>1, <4>2
    <3>3. b.st.windowAge = 0
      BY <1>6, <1>8, <1>10, <2>1, <2>4 DEF AgeKept
    <3>4. st.windowAge > UNRESTRAIN_TIMEOUT
      BY <1>1, <3>2 DEF TimedOut
    <3>5. QED
      BY <1>10, <1>11, <2>1, <3>3, <3>4, DurationsAssumption
  <2>5. QED
    BY <2>3, <2>4
<1>14. QED
  BY <1>12, <1>13

LEMMA AnimatedNext ==
  ASSUME IInv, Animated(Now), [Next]_vars
  PROVE  Animated(Now)'
<1>0. st \in EntityAnimState /\ npc \in Actor /\ Now.st = st /\ Now.npc = npc
  BY DEF IInv, TypeOK, Now
<1>1. CASE Animation_ApplyState
  BY <1>1, FrameTime
<1>2. CASE SkipOtherCell
  <2>1. st'.pendingOps = st.pendingOps /\ st'.weaponAnimSeen = st.weaponAnimSeen /\ npc' = npc
    BY <1>0, <1>2, AgedEffect, AgedTime DEF SkipOtherCell
  <2>2. QED
    BY <2>1 DEF Animated, Now
<1>3. CASE Animation_ApplyFire
  <2>1. \E k, g : st' = [st EXCEPT !.attackLeft = k] /\ npc' = [npc EXCEPT !.attack = g]
    BY <1>0, <1>3 DEF Animation_ApplyFire, EntityAnimState
  <2>2. /\ st'.pendingOps = st.pendingOps /\ st'.weaponAnimSeen = st.weaponAnimSeen
        /\ npc'.weaponTarget = npc.weaponTarget /\ npc'.animAction = npc.animAction
        /\ npc'.weaponOut = npc.weaponOut
    BY <1>0, <2>1 DEF EntityAnimState, Actor
  <2>3. QED
    BY <2>2 DEF Animated, Now
<1>4. CASE NewSnapshot \/ UNCHANGED vars
  BY <1>4 DEF NewSnapshot, vars, Animated, Now
<1>5. CASE EngineSneaks
  <2>1. PICK u : npc' = [npc EXCEPT !.sneaking = npc.forceSneak, !.upper = u] /\ st' = st
    BY <1>5 DEF EngineSneaks
  <2>2. /\ npc'.weaponTarget = npc.weaponTarget /\ npc'.animAction = npc.animAction
        /\ npc'.weaponOut = npc.weaponOut
    BY <1>0, <2>1 DEF Actor
  <2>3. QED
    BY <2>1, <2>2 DEF Animated, Now
<1>6. CASE EngineStartsWeapon
  <2>1. PICK u \in {npc.upper, "disrupted"}, out \in BOOLEAN :
          npc' = [npc EXCEPT !.animAction = IF npc.weaponTarget THEN "equip" ELSE "unequip",
                             !.weaponOut = out, !.upper = u]
    BY <1>6 DEF EngineStartsWeapon
  <2>2. /\ npc'.weaponTarget = npc.weaponTarget
        /\ npc'.animAction = WeaponAnim(npc.weaponTarget)
    BY <1>0, <2>1 DEF Actor, WeaponAnim
  <2>3. st' = st
    BY <1>6 DEF EngineStartsWeapon
  <2>4. QED
    BY <2>2, <2>3 DEF Animated, Now
<1>7. CASE EngineEndsWeapon
  <2>1. /\ npc' = [npc EXCEPT !.weaponOut = npc.animAction = "equip", !.animAction = "none"]
        /\ npc.animAction # "none" /\ st' = st
    BY <1>7 DEF EngineEndsWeapon
  <2>2. /\ npc'.weaponTarget = npc.weaponTarget /\ npc'.animAction = "none"
        /\ npc'.weaponOut = (npc.animAction = "equip")
    BY <1>0, <2>1 DEF Actor
  <2>3. \A out \in BOOLEAN : npc.animAction = WeaponAnim(out) => npc'.weaponOut = out
    BY <2>2 DEF WeaponAnim
  <2>4. QED
    BY <2>1, <2>2, <2>3 DEF Animated, Now
<1>8. QED
  BY <1>1, <1>2, <1>3, <1>4, <1>5, <1>6, <1>7 DEF Next

\* No window stays open for the sake of an operation that is begun over and over: one
\* carried over a frame keeps the time its window was opened at, until the timeout
\* (Unrestrain, PollUnrestrain).
THEOREM AnimationWindowLimited == Spec => WindowLimited
<1>1. Init => Animated(Now)
  BY DEF Init, Animated, Now
<1>2. IInv /\ Animated(Now) /\ [Next]_vars => Animated(Now)'
  BY AnimatedNext
<1>3. IInv /\ Animated(Now) =>
        [(Animation_ApplyState /\ st.pendingOps \cap st'.pendingOps # {}) =>
           st'.windowAge = IF st.windowAge > UNRESTRAIN_TIMEOUT THEN 1 ELSE st.windowAge + 1]_vars
  BY FrameTime
<1>4. QED
  BY <1>1, <1>2, <1>3, AnimationInductive, PTL DEF Spec, WindowLimited
====
