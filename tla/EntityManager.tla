--------------------------- MODULE EntityManager ---------------------------
(***************************************************************************)
(* game/entity_manager.cpp: the avatars of the remote players in one       *)
(* client's game, and the NPCs of the game engine that embody them.        *)
(*                                                                         *)
(* The operators are called by the frame of Client, one action per public  *)
(* function.  The pose and the animation of an avatar are not part of this *)
(* module, nor is RemoteEntity.cellId, which only decides whether they are *)
(* refreshed.  The two vectors of pending ids are sets: an id that is in   *)
(* one of them twice is skipped the second time.                           *)
(***************************************************************************)
EXTENDS Protocol

CONSTANT
  MaxRefs  \* bound: NPCs the engine places

ASSUME MaxRefsAssumption == MaxRefs \in Nat

VARIABLES
  entities,        \* g_entities: ids to refID (0 = not yet spawned)
  pendingSpawns,   \* g_pendingSpawns
  pendingDespawns, \* g_pendingDespawns
  interp,          \* ids that have an interpolation state (g_interpStates)
  thePlayer,       \* whether *g_thePlayer is set
  localCell,       \* refID of its parentCell, 0 before a savegame is loaded
  npcs,            \* refIDs of placed NPCs that LookupFormByID still finds
  nextRef          \* refID the engine gives to the next placed NPC

entityVars == <<entities, pendingSpawns, pendingDespawns, interp>>
engineVars == <<thePlayer, localCell, npcs, nextRef>>
managerVars == <<entities, pendingSpawns, pendingDespawns, interp,
                 thePlayer, localCell, npcs, nextRef>>

GetLocalPlayerCellID == IF thePlayer THEN localCell ELSE 0

Known == DOMAIN entities

Spawned == {id \in Known : entities[id] # 0}

ManagerTypeOK ==
  /\ Known \subseteq EntityId
  /\ entities \in [Known -> Nat]
  /\ pendingSpawns \subseteq EntityId
  /\ pendingDespawns \subseteq EntityId
  /\ interp \subseteq EntityId
  /\ thePlayer \in BOOLEAN
  /\ localCell \in Cells \cup {0}
  /\ npcs \subseteq Nat \ {0}
  /\ nextRef \in Nat \ {0}

ManagerInit ==
  /\ entities = <<>>
  /\ pendingSpawns = {}
  /\ pendingDespawns = {}
  /\ interp = {}
  /\ thePlayer = FALSE
  /\ localCell = 0
  /\ npcs = {}
  /\ nextRef = 1

---------------------------------------------------------------------------

\* Fault: a new avatar gets no first sample.
UpdateWithoutFirstSample(states) ==
  LET taken == {s.id : s \in {t \in states : \/ t.id \in Known
                                             \/ t.cell = GetLocalPlayerCellID}}
      new   == taken \ Known
  IN  IF GetLocalPlayerCellID = 0
      THEN UNCHANGED managerVars
      ELSE /\ entities' = [id \in Known \cup new |->
                             IF id \in new THEN 0 ELSE entities[id]]
           /\ pendingSpawns' = pendingSpawns \cup new
           /\ interp' = interp \cup (taken \ new)
           /\ UNCHANGED <<pendingDespawns, engineVars>>

\* Unknown players are only taken up in the local player's cell; known ones
\* always, also when they are about to be despawned.
EntityManager_UpdateFromWorldSnapshot(states) ==
  LET taken == {s.id : s \in {t \in states : \/ t.id \in Known
                                             \/ t.cell = GetLocalPlayerCellID}}
      new   == taken \ Known
  IN  IF GetLocalPlayerCellID = 0
      THEN UNCHANGED managerVars
      ELSE /\ entities' = [id \in Known \cup new |->
                             IF id \in new THEN 0 ELSE entities[id]]
           /\ pendingSpawns' = pendingSpawns \cup new
           /\ interp' = interp \cup taken
           /\ UNCHANGED <<pendingDespawns, engineVars>>

\* EntityManager_RemoveEntity, for every id in ids.
EntityManager_RemoveEntities(ids) ==
  /\ pendingDespawns' = pendingDespawns \cup (ids \cap Known)
  /\ interp' = interp \ (ids \cap Known)
  /\ UNCHANGED <<entities, pendingSpawns, engineVars>>

\* The ids the spawn loop of Tick calls PlaceAtMe for.
ToSpawn == ((pendingSpawns \cap Known) \ pendingDespawns) \ Spawned

\* Fault: the result of the first PlaceAtMe is read again for the others.
PlacedRefOfFirst(placed, id) == nextRef

\* The reference PlaceAtMe returns for id.
PlacedRef(placed, id) == nextRef + Cardinality({o \in placed : o < id})

\* Despawns, then spawns.  "placed" are the spawns the engine returns a reference
\* for; the others are forgotten, but not their interpolation state.
EntityManager_Tick(placed) ==
  IF ~thePlayer
  THEN placed = {} /\ UNCHANGED managerVars
  ELSE LET gone   == pendingDespawns \cap Known
           failed == ToSpawn \ placed
       IN  /\ placed \subseteq ToSpawn
           /\ nextRef + Cardinality(placed) <= MaxRefs + 1
           /\ entities' = [id \in Known \ (gone \cup failed) |->
                             IF id \in placed THEN PlacedRef(placed, id)
                             ELSE entities[id]]
           /\ npcs' = (npcs \ {entities[id] : id \in gone})
                       \cup {PlacedRef(placed, id) : id \in placed}
           /\ nextRef' = nextRef + Cardinality(placed)
           /\ pendingSpawns' = {}
           /\ pendingDespawns' = {}
           /\ UNCHANGED <<interp, thePlayer, localCell>>

\* The exit from the game.
EntityManager_Shutdown ==
  /\ npcs' = npcs \ {entities[id] : id \in Known}
  /\ entities' = <<>>
  /\ pendingSpawns' = {}
  /\ pendingDespawns' = {}
  /\ interp' = {}
  /\ UNCHANGED <<thePlayer, localCell, nextRef>>

---------------------------------------------------------------------------
\* The game engine: the player comes to be, enters a cell or leaves for the main
\* menu; a savegame is loaded in which the placed NPCs do not exist.
Travel ==
  /\ thePlayer' \in BOOLEAN
  /\ localCell' \in IF thePlayer' THEN Cells \cup {0} ELSE {0}
  /\ UNCHANGED <<entityVars, npcs, nextRef>>

LoadSavegame ==
  /\ npcs' = {}
  /\ UNCHANGED <<entityVars, thePlayer, localCell, nextRef>>
=============================================================================
