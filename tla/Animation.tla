----------------------------- MODULE Animation -----------------------------
(***************************************************************************)
(* game/animation.cpp: how the NPC that embodies one remote player is made *)
(* to move like the player.                                                *)
(*                                                                         *)
(* Each frame Animation_ApplyState compares the player's last known pose   *)
(* with the one of the frame before and issues console commands for the    *)
(* difference.  Sneaking and drawing a weapon need the NPC's AI, which     *)
(* SetRestrained 1 suppresses: for them a window without restraint is      *)
(* opened, polled and closed again.                                        *)
(*                                                                         *)
(* The functions of the code take and return the avatar [st, npc]: its     *)
(* EntityAnimState and the part of the engine's actor they read and write. *)
(* Time is counted in frames; instead of times the state holds how long    *)
(* ago the window opened and how long an attack still lasts.  The polled   *)
(* script expressions are taken to have compiled.                          *)
(***************************************************************************)
EXTENDS Naturals

CONSTANTS
  UNRESTRAIN_TIMEOUT,  \* frames a window stays open at most (2 s in the code)
  ATTACK_DURATION,     \* frames of MELEE_ and THROWN_ANIM_DURATION (0.8 s)
  Wants,               \* poses of the player considered
  WeaponTypes          \* kinds of weapon the NPC may carry

ASSUME DurationsAssumption == UNRESTRAIN_TIMEOUT \in Nat /\ ATTACK_DURATION \in Nat \ {0}

MoveDirections == {"None", "Forward", "Backward", "Left", "Right", "ForwardLeft",
                   "ForwardRight", "BackwardLeft", "BackwardRight", "TurnLeft", "TurnRight"}

\* The part of RemoteEntity a snapshot of the player sets.
Pose == [move : MoveDirections, running : BOOLEAN, weaponOut : BOOLEAN,
         action : SUBSET {"Reloading", "AimingIS"}, sneaking : BOOLEAN]

ASSUME PosesAssumption ==
  Wants \subseteq Pose /\ WeaponTypes \subseteq {"ranged", "melee", "thrown"}

VARIABLES
  want,  \* the player's pose in the last snapshot
  st,    \* RemoteEntity.animState
  npc,   \* the engine's actor
  cut    \* history: what a timeout or a blow gave up and no frame made up for since

vars == <<want, st, npc, cut>>

WeaponOps == {"WEAPON_DRAW", "WEAPON_HOLSTER"}
SneakOps  == {"SNEAK_ENTER", "SNEAK_EXIT"}
PendingOp == WeaponOps \cup SneakOps

\* What a frame within a blow passes over.
Skipped == {"LOCOMOTION", "ACTIONS"}

EntityAnimState ==
  [prev : [move : MoveDirections, running : BOOLEAN, sneaking : BOOLEAN,
           action : SUBSET {"Reloading", "AimingIS"}],
   pendingOps : SUBSET PendingOp,
   isUnrestrained : BOOLEAN,
   windowAge : 0 .. UNRESTRAIN_TIMEOUT + 2,     \* since unrestrainStartTime, capped
   cachedWeaponType : WeaponTypes \cup {"unknown"},
   npcWeaponOut : BOOLEAN,
   weaponAnimSeen : BOOLEAN,
   forceReapplyActions : BOOLEAN,
   attackLeft : 0 .. ATTACK_DURATION]           \* until attackAnimEndTime

\* "legs" and "upper" are the groups PlayGroup was last given for the locomotion and
\* for the action, "attack" the one of the last shot or blow.
Actor ==
  [restrained : BOOLEAN, forceSneak : BOOLEAN, sneaking : BOOLEAN,
   weapon : WeaponTypes, weaponTarget : BOOLEAN, weaponOut : BOOLEAN,
   animAction : {"none", "equip", "unequip"},
   legs : [move : MoveDirections, fast : BOOLEAN],
   upper : {"none", "ReloadA", "AimIS", "Aim", "disrupted"},
   attack : {"none", "AttackLeft", "AttackLeftIS", "AttackRight", "AttackThrow6", "generic"}]

TypeOK ==
  /\ want \in Wants
  /\ st \in EntityAnimState
  /\ npc \in Actor
  /\ cut \subseteq PendingOp \cup Skipped

StandingStill == [move |-> "None", fast |-> FALSE]

\* A new RemoteEntity and the NPC spawned for it, weapon holstered.
Init ==
  /\ want \in Wants
  /\ st = [prev |-> [move |-> "None", running |-> FALSE, sneaking |-> FALSE, action |-> {}],
           pendingOps |-> {}, isUnrestrained |-> FALSE, windowAge |-> 0,
           cachedWeaponType |-> "unknown", npcWeaponOut |-> FALSE,
           weaponAnimSeen |-> FALSE, forceReapplyActions |-> FALSE, attackLeft |-> 0]
  /\ npc \in {[restrained |-> TRUE, forceSneak |-> FALSE, sneaking |-> FALSE,
               weapon |-> w, weaponTarget |-> FALSE, weaponOut |-> FALSE,
               animAction |-> "none", legs |-> StandingStill,
               upper |-> "none", attack |-> "none"] : w \in WeaponTypes}
  /\ cut = {}

---------------------------------------------------------------------------
(* The window without restraint.                                           *)

\* Fault: an open window is opened once more, which starts its timeout anew.
UnrestrainAnew(a) ==
  [a EXCEPT !.npc.restrained = FALSE, !.st.isUnrestrained = TRUE, !.st.windowAge = 0]

Unrestrain(a) ==
  IF a.st.isUnrestrained THEN a
  ELSE [a EXCEPT !.npc.restrained = FALSE, !.st.isUnrestrained = TRUE, !.st.windowAge = 0]

\* The type is asked for when the NPC has drawn its weapon.
PollDraw(a) ==
  IF "WEAPON_DRAW" \notin a.st.pendingOps THEN a
  ELSE IF a.npc.animAction = "equip" THEN [a EXCEPT !.st.weaponAnimSeen = TRUE]
  ELSE IF ~a.st.weaponAnimSeen THEN a
  ELSE [a EXCEPT !.st.pendingOps = @ \ {"WEAPON_DRAW"}, !.st.weaponAnimSeen = FALSE,
                 !.st.npcWeaponOut = TRUE, !.st.cachedWeaponType = a.npc.weapon]

PollHolster(a) ==
  IF "WEAPON_HOLSTER" \notin a.st.pendingOps THEN a
  ELSE IF a.npc.animAction = "unequip" THEN [a EXCEPT !.st.weaponAnimSeen = TRUE]
  ELSE IF ~a.st.weaponAnimSeen THEN a
  ELSE [a EXCEPT !.st.pendingOps = @ \ {"WEAPON_HOLSTER"}, !.st.weaponAnimSeen = FALSE,
                 !.st.npcWeaponOut = FALSE]

\* Fault: a sneak operation counts as done once its command has been issued.
PollSneakAtOnce(a) == [a EXCEPT !.st.pendingOps = @ \ SneakOps]

PollSneak(a) ==
  [a EXCEPT !.st.pendingOps = @ \ {IF a.npc.sneaking THEN "SNEAK_ENTER" ELSE "SNEAK_EXIT"}]

\* Fault: the actions are not issued again.
CloseWithoutReapply(a) ==
  IF a.st.pendingOps # {} THEN a
  ELSE [a EXCEPT !.npc.restrained = TRUE, !.st.isUnrestrained = FALSE]

CloseWindow(a) ==
  IF a.st.pendingOps # {} THEN a
  ELSE [a EXCEPT !.npc.restrained = TRUE, !.st.isUnrestrained = FALSE,
                 !.st.forceReapplyActions = TRUE]

TimedOut(a) == a.st.isUnrestrained /\ a.st.windowAge > UNRESTRAIN_TIMEOUT

\* Fault: the operations given up stay pending.
PollKeepsPending(a) ==
  IF ~a.st.isUnrestrained THEN a
  ELSE IF TimedOut(a)
  THEN [a EXCEPT !.npc.restrained = TRUE, !.st.isUnrestrained = FALSE]
  ELSE CloseWindow(PollSneak(PollHolster(PollDraw(a))))

PollUnrestrain(a) ==
  IF ~a.st.isUnrestrained THEN a
  ELSE IF TimedOut(a)
  THEN [a EXCEPT !.npc.restrained = TRUE, !.st.isUnrestrained = FALSE, !.st.pendingOps = {}]
  ELSE CloseWindow(PollSneak(PollHolster(PollDraw(a))))

---------------------------------------------------------------------------
(* What a frame does for the difference between want and st.prev.          *)

ApplySneak(a) ==
  IF want.sneaking = a.st.prev.sneaking THEN a
  ELSE [Unrestrain(a) EXCEPT
          !.npc.forceSneak = want.sneaking,
          !.st.pendingOps = @ \cup {IF want.sneaking THEN "SNEAK_ENTER" ELSE "SNEAK_EXIT"}]

\* Fault: the actor's own state is not looked at.
TrustTracked(a) == a

\* The IsWeaponOut fallback.
CorrectWeapon(a) ==
  IF a.npc.weaponOut = a.st.npcWeaponOut THEN a
  ELSE [a EXCEPT !.st.npcWeaponOut = a.npc.weaponOut,
                 !.st.cachedWeaponType = IF a.npc.weaponOut THEN a.npc.weapon ELSE @]

BeginWeapon(a) ==
  IF a.st.npcWeaponOut = want.weaponOut THEN a
  ELSE [Unrestrain(a) EXCEPT
          !.npc.weaponTarget = want.weaponOut,
          !.st.pendingOps = @ \cup {IF want.weaponOut THEN "WEAPON_DRAW" ELSE "WEAPON_HOLSTER"},
          !.st.weaponAnimSeen = FALSE,
          !.st.cachedWeaponType = "unknown"]

ApplyWeapon(a) ==
  IF a.st.pendingOps \cap WeaponOps # {} THEN a ELSE BeginWeapon(CorrectWeapon(a))

\* The PlayGroup commands for a direction; only walking has a fast variant.
LocomotionGroup(moveDir, isRunning) ==
  [move |-> moveDir, fast |-> isRunning /\ moveDir \notin {"None", "TurnLeft", "TurnRight"}]

LocomotionDiffers(a) ==
  want.move # a.st.prev.move \/ want.running # a.st.prev.running

ApplyLocomotion(a) ==
  IF a.st.attackLeft > 0 \/ ~LocomotionDiffers(a) THEN a
  ELSE [a EXCEPT !.npc.legs = LocomotionGroup(want.move, want.running)]

\* Reloading goes before aiming; without a weapon nothing is issued.
ActionGroup(actionState, isWeaponOut, otherwise) ==
  IF "Reloading" \in actionState THEN "ReloadA"
  ELSE IF "AimingIS" \in actionState THEN "AimIS"
  ELSE IF isWeaponOut THEN "Aim"
  ELSE otherwise

ActionsDiffer(a) == want.action # a.st.prev.action \/ a.st.forceReapplyActions

ApplyActions(a) ==
  IF a.st.attackLeft > 0 \/ ~ActionsDiffer(a)
  THEN [a EXCEPT !.st.forceReapplyActions = FALSE]
  ELSE [a EXCEPT !.st.forceReapplyActions = FALSE,
                 !.npc.upper = ActionGroup(want.action, want.weaponOut, @)]

Remember(a) ==
  [a EXCEPT !.st.prev = [move |-> want.move, running |-> want.running,
                         sneaking |-> want.sneaking, action |-> want.action]]

---------------------------------------------------------------------------
(* The actions: frames, events and the engine between them.                *)

\* The time to the next frame.
Aged(s) ==
  [s EXCEPT !.windowAge = IF s.isUnrestrained /\ @ < UNRESTRAIN_TIMEOUT + 2 THEN @ + 1 ELSE @,
            !.attackLeft = IF @ > 0 THEN @ - 1 ELSE 0]

\* Operations of the same kind as ones that are pending have been begun anew.
Resumed(ops) == UNION {k \in {WeaponOps, SneakOps} : k \cap ops # {}}

\* The parts of the pose that this frame has to show, or pass over in a blow.
Changed(a) == {p \in Skipped : IF p = "LOCOMOTION" THEN LocomotionDiffers(a)
                                                   ELSE ActionsDiffer(a)}

\* History.  A frame gives up what its timeout drops and what a blow hides; it makes
\* up for what it begins anew.
CutAfter(a, polled, b) ==
  LET dropped == IF TimedOut(a) THEN cut \cup a.st.pendingOps ELSE cut
      kept    == dropped \ Resumed(b.st.pendingOps)
  IN  IF a.st.attackLeft > 0 THEN kept \cup Changed(polled) ELSE kept \ Changed(polled)

\* One function after the other; bound as values, which ENABLED evaluates only once.
Animation_ApplyState ==
  \E a \in {[st |-> st, npc |-> npc]} :
  \E polled \in {PollUnrestrain(a)} :
  \E crouched \in {ApplySneak(polled)} :
  \E armed \in {ApplyWeapon(crouched)} :
  \E b \in {Remember(ApplyActions(ApplyLocomotion(armed)))} :
    /\ st' = Aged(b.st)
    /\ npc' = b.npc
    /\ cut' = CutAfter(a, polled, b)
    /\ UNCHANGED want

\* A frame in which the avatar's player is in another cell than the local player.
SkipOtherCell ==
  /\ st' = Aged(st)
  /\ UNCHANGED <<want, npc, cut>>

Animation_ApplyFire ==
  /\ st' = [st EXCEPT !.attackLeft =
              IF st.cachedWeaponType \in {"melee", "thrown"} THEN ATTACK_DURATION ELSE @]
  /\ npc' = [npc EXCEPT !.attack =
               CASE st.cachedWeaponType = "ranged" ->
                      IF "AimingIS" \in st.prev.action THEN "AttackLeftIS" ELSE "AttackLeft"
                 [] st.cachedWeaponType = "melee"   -> "AttackRight"
                 [] st.cachedWeaponType = "thrown"  -> "AttackThrow6"
                 [] st.cachedWeaponType = "unknown" -> "generic"]
  /\ UNCHANGED <<want, cut>>

NewSnapshot ==
  /\ want' \in Wants
  /\ UNCHANGED <<st, npc, cut>>

\* The AI carries SetForceSneak out while it is not suppressed.  Such a transition
\* may disrupt the action animation.
EngineSneaks ==
  /\ ~npc.restrained /\ npc.sneaking # npc.forceSneak
  /\ \E u \in {npc.upper, "disrupted"} :
       npc' = [npc EXCEPT !.sneaking = npc.forceSneak, !.upper = u]
  /\ UNCHANGED <<want, st, cut>>

\* Likewise SetWeaponOut.  IsWeaponOut may change before the animation has ended.
EngineStartsWeapon ==
  /\ ~npc.restrained /\ npc.animAction = "none" /\ npc.weaponOut # npc.weaponTarget
  /\ \E u \in {npc.upper, "disrupted"}, out \in BOOLEAN :
       npc' = [npc EXCEPT !.animAction = IF npc.weaponTarget THEN "equip" ELSE "unequip",
                          !.weaponOut = out, !.upper = u]
  /\ UNCHANGED <<want, st, cut>>

\* An animation that has begun is completed, restrained or not.
EngineEndsWeapon ==
  /\ npc.animAction # "none"
  /\ npc' = [npc EXCEPT !.weaponOut = npc.animAction = "equip", !.animAction = "none"]
  /\ UNCHANGED <<want, st, cut>>

Next ==
  \/ Animation_ApplyState
  \/ SkipOtherCell
  \/ Animation_ApplyFire
  \/ NewSnapshot
  \/ EngineSneaks
  \/ EngineStartsWeapon
  \/ EngineEndsWeapon

Spec == Init /\ [][Next]_vars

\* The game goes on drawing frames of the avatar.  The AI gets to a transition that
\* is asked for again and again while the avatar stands: active locomotion blocks it.
Standing == npc.legs = StandingStill

Fairness ==
  /\ WF_vars(Animation_ApplyState)
  /\ SF_vars(Standing /\ EngineSneaks)
  /\ SF_vars(Standing /\ EngineStartsWeapon)
  /\ WF_vars(EngineEndsWeapon)

FairSpec == Spec /\ Fairness

---------------------------------------------------------------------------
\* The window is open exactly while an operation waits for the AI, and the NPC is
\* restrained exactly while it is closed: no early return and no timeout leaves an
\* avatar that walks about by itself or an operation nobody polls.
WindowMatchesPending ==
  /\ st.isUnrestrained <=> st.pendingOps # {}
  /\ npc.restrained <=> ~st.isUnrestrained

\* An operation carried over a frame keeps the time its window was opened at, also
\* when others join it, until the timeout gives it up; it is then begun anew or not
\* pending any more.
WindowLimited ==
  [][(Animation_ApplyState /\ st.pendingOps \cap st'.pendingOps # {}) =>
       st'.windowAge = IF st.windowAge > UNRESTRAIN_TIMEOUT THEN 1 ELSE st.windowAge + 1]_vars

\* Once restrained again the NPC sneaks as the player does, in whatever order the
\* player crouched and rose and the engine followed, unless the timeout gave up.
SneakSettled ==
  (~st.isUnrestrained /\ cut \cap SneakOps = {}) => npc.sneaking = st.prev.sneaking

\* Drawing and holstering are never pending together: GetAnimAction could not tell
\* whose animation has ended.
OneWeaponOperation == ~(WeaponOps \subseteq st.pendingOps)

\* What the player is seen doing is what he does: an action that a transition
\* disrupted is shown again once the window is closed, unless the timeout closed it or a
\* blow hid the change, and the legs follow the player's, but for a change that a blow hid.
ActionsFollow ==
  (~st.isUnrestrained /\ cut \subseteq {"LOCOMOTION"} /\ st.prev.action # {})
     => npc.upper = ActionGroup(st.prev.action, TRUE, "none")

LocomotionFollows ==
  "LOCOMOTION" \notin cut => npc.legs = LocomotionGroup(st.prev.move, st.prev.running)

PoseFollows == ActionsFollow /\ LocomotionFollows

\* What weapon the NPC fires is known whenever it has one drawn and no operation is
\* under way, unless the timeout gave up holstering it; otherwise shots have no sound
\* and blows look like shots.
WeaponTypeKnown ==
  [][Animation_ApplyState =>
       (npc'.weaponOut /\ st'.pendingOps = {} /\ "WEAPON_HOLSTER" \notin cut'
          => st'.cachedWeaponType = npc'.weapon)]_vars

\* An avatar that stands ends up with its weapon drawn or holstered as the player
\* has it, through missed transitions and timeouts.
WeaponFollows ==
  \A out \in BOOLEAN :
    <>[](want.weaponOut = out /\ Standing) => <>[](npc.weaponOut = out)
=============================================================================
