# FNVMP: TLA+ models, checks and proofs

FNVMP is a multiplayer plug-in for a single-player game.  A relay server
(`server.exe`) and one plug-in per player (`fnvmp.dll`, loaded into the game)
exchange small messages over ENet; each plug-in shows the other players as NPCs
("avatars") in its own game.  This directory models the parts that decide what
players see of one another, checks them with TLC and proves most of the safety
results with TLAPS.  Paths are relative to the repository root; in this text `fnvmp/`
and `planning/` are directories of it.

Contents: 1 inventory, 2 modules, 3 runs, bounds and fairness, 4 proofs,
5 disagreements met while modelling, 6 what is not modelled, 7 plan.

## 1. Inventory

| component | state | operations | talks to |
|---|---|---|---|
| Relay server, `fnvmp/server/server_main.cpp` | `g_players` (peer to player), `g_nextEntityId`, broadcast timer | connect, disconnect, four receive cases, timeout pass, snapshot broadcast | clients through ENet |
| Protocol, `fnvmp/shared/protocol.h` | none | nine message types, three channels, timing constants | both ends |
| Network client, `fnvmp/net/net_client.cpp` | peer, `m_connected`, `m_netEntityId`, last world snapshot, queues of disconnects and fires, sequence number, heartbeat accumulator | Connect, Poll, senders, Disconnect | server through ENet, plug-in by return values |
| Entity manager, `fnvmp/game/entity_manager.cpp` | `g_entities`, pending spawns and despawns | snapshot update, remove, tick, shutdown | engine (places and deletes NPCs), interpolation, animation |
| Interpolation, `fnvmp/game/interpolation.cpp` | a ring of five samples and a velocity per avatar | push, get, remove, clear | entity manager |
| Remote animation, `fnvmp/game/animation.cpp` | what is shown, the restrain window, pending sneak and weapon operations, attack timers per avatar | apply state, apply fire | entity manager, engine |
| Plug-in frame, `fnvmp/main.cpp` | clocks, accumulators, last animation action and position | one message handler, called once per frame and at exit | all of the above |
| ENet, `fnvmp/enet/` | peers, queues, reliable windows, timers | third-party | both ends |
| xNVSE, `nvse/`, `common/`, `nvse_plugin_example/`, `geck_wiki_resource/` | | third-party, vendored | engine |

Both programs are single-threaded.  What makes them hard is not threads but
order: three channels that overtake one another, a frame that handles what it
has read in a fixed order of its own, a connection either end may give up alone,
an engine that changes the world between two frames and answers a request some
frames later or not at all, loops whose end depends on the traffic, and slots, ids,
ring entries, session numbers and sequence numbers that are used again.

What makes each component correct:

* **server**: the map follows ENet's peers; ids are unique, never reused and the
  same as the client was told; nobody hears of himself; everybody who stays hears
  of everybody who leaves, once and last; silent players go; what a player sends
  is relayed.
* **network client**: connected if and only if it has an id; nothing is sent under
  id 0 or an old id.
* **entity manager and frame**: every NPC belongs to exactly one avatar, every avatar
  is complete or about to be, the exit leaves nothing behind.
* **session**: both ends mean the same players by the same ids, and no client that may
  show a player is forgotten when the player goes.
* **interpolation**: the ring shows the last samples, an avatar is drawn on its path,
  extrapolation continues the current motion.
* **animation**: the restrain window is open exactly while an operation waits for it and
  never longer than its timeout; what the player does is shown in the end.
* **detection**: directions are told apart on all sides of north; every attack is announced,
  once.
* **timing**: broadcasts neither drift nor fall behind, live clients are kept, dead ones
  go in time.
* **ENet**: a reliable channel is a FIFO however the network behaves; a peer is a player
  only if its client has seen the connection.

The hazards behind these, each with its line, are the `hazards` of `PROJECT.json`.

## 2. Modules

```
Protocol <- Server <------------ MCServer, ServerProofs
         <- Roster               (abstract specification of Server: refinement)
         <- NetClient     \
         <- EntityManager  > Client <- MCClient
            Server + Client > Session <- MCSession, SessionProofs (of Client too)
Interpolation <----------------- MCInterpolation, InterpolationProofs
Animation <--------------------- MCAnimation, AnimationProofs
Detection <--------------------- MCDetection, DetectionProofs
Timing <------------------------ MCTiming, TimingProofs
FifoChannel <- ReliableChannel <- MCReliableChannel, ReliableChannelProofs (refinement)
EnetConnection <---------------- MCEnetConnection, EnetConnectionProofs
```

**Protocol** defines the messages as records with the fields that some property
tells apart.  Pose and animation fields are left out: server and network client
copy them along with the cell and never look at them.

**Server** is the loop of `main`.  `phase` says which part of it runs: `events`
(the inner `while`, one action per ENet event and message type), `timeouts`
(`CheckTimeouts`, one action per dropped player) and `broadcast`.  The map is a
function `players` whose domain is the set of slots with a player.  `peer` is
ENet's state of a slot as far as the program can tell: `zombie` has a DISCONNECT
event still to come, `disconnecting` waits for the answer to the server's own
`enet_peer_disconnect`; that a slot goes through these states in this way is checked
and proved in EnetConnection (`PeerLifecycle`).  `acks`, `events` and `world` are what
is queued or under way on the three channels.  Sending to a peer that is not
connected does nothing, and `enet_peer_disconnect` discards the queues, both as in
`fnvmp/enet/peer.c`; a message already on the wire at that moment is one that was
delivered before.  A clock value is only ever compared with a player's last
heartbeat, so the model keeps the difference, `elapsed`, which stops counting one
tick after the timeout.  Several broadcasts in one pass send the same snapshot, so
none or one stands for all.

**Roster** is what the server promises: seats, ids, and what each player is told of the
others, in order.  It knows no heartbeats, timeouts, phases, snapshots, or connection
states; a player joins, leaves, fires, hears, or stops listening.  `Server` implements it
(`RosterSpec`): a seat is a slot with an entry in `g_players`, the seats that listen are
the connected peers, a feed is the event channel of a slot.  The timeout, the DISCONNECT
event and `MSG_DISCONNECT` all map to `Leave`; a connection that breaks maps to
`StopListening`, its late event to `Leave`, and the answer to the server's own
`enet_peer_disconnect` to a stutter.

**NetClient**, **EntityManager** and **Client** are the plug-in.  `Client` is the
message handler of `main.cpp`: `frame` is the step that comes next, in the order
the code calls them, and each step is the whole function it calls.  `Poll` takes
one ENet event per action; messages can arrive and connections break in between,
as `enet_host_service` runs there.  `inbox` is ENet's dispatch queue.  Engine
actions (`Travel`: the player object and its cell; `LoadSavegame`: placed NPCs
are gone) happen between frames.  `EntityManager_Tick` places NPCs for any subset
of the queued spawns: the others are the code's three failure branches, which
forget the entity.  Reference ids are assumed never to be reused by the engine.

**Session** joins a server with one client: slot `Me` of the server is the peer
of the client, and messages move from the server's queues into the client's inbox
and back.  Other players exist through their messages only.  Two history
variables, `myId` and `told`, remember the id `OnConnect` gave and the departures
the client has read.  Two reductions keep it small: what is sent to other
players, which nobody looks at, is taken away first; and the part of a frame after
`Poll`, which touches the client's own state only, runs through before the server
does anything.  Both concern steps that commute with everything else.  The client
connects once, as the code does.

**Interpolation** is the buffer of one avatar: one of the three axes, which the code
treats alike, and the rotation with `LerpAngle`; positions and angles are exact
fractions.  `count = 0` stands for an id with no entry in `g_interpStates`.
`BeginFrame`, then at most one push or removals, then `Interp_GetState`, is the order
of the frame.  The history variable `path` keeps every sample since the entry exists.
A tick is longer than a millisecond, so the code's guards against tiny time
differences (0.001, 0.0001) are `> 0` here.

**Animation** is one avatar and the NPC that embodies it.  Each function of
`animation.cpp` that `Animation_ApplyState` and `Animation_ApplyFire` reach is an
operator from an avatar `[st, npc]` to an avatar: `EntityAnimState` and the part of
the engine's actor that is read or written.  The engine is the environment: its AI
carries out a sneak or weapon request a few frames later (`EngineSneaks`,
`EngineStartsWeapon`, `EngineEndsWeapon`), only while the NPC is not restrained.
Frames in which `EntityManager_Tick` skips the avatar are `SkipOtherCell`.  The
history variable `cut` keeps what a timeout or a blow gave up and nothing has made
up for; the properties exempt exactly that.

**Detection** is what a client finds out about its own player: `ComputeMoveDirection`,
the edges of `GetAnimAction`, the weapon fallback and the snapshot accumulator.
Angles are bearings, clockwise from north, counted in units of a turn, a multiple of
sixteen, so that every edge of the eight sectors is a unit.  That `rotZ` grows clockwise
is what `geck_wiki_resource/GECK-20260301214412.xml:6816` says of the engine, against
the note at `fnvmp/main.cpp:119`.  The engine changes its action at most once in a frame:
a shot that ends and begins again between two frames is one the code cannot see.  The
history variable `unannounced` is the number of attacks begun less the fire events sent.

**Timing** is the discrete time of the other modules' "in time": the inner loop of the
server with its 10 ms wait, the broadcast accumulator, the snapshots that keep the loop
going, and a client whose heartbeats come from `Poll`'s accumulator.

**FifoChannel** and **ReliableChannel**: what the program takes a reliable channel to
be, a FIFO, and how ENet makes one out of UDP: sequence numbers and reliable windows
that wrap, acknowledgements, retransmission (`fnvmp/enet/peer.c`, `protocol.c`).  Every
number ENet computes modulo 2^16 is computed modulo `WINDOWS * WINDOW_SIZE` here; the
mapping of `Fifo` forgets all but what was sent and what was delivered.

**EnetConnection** is the life of a connection at both ends: `ENetPeerState` of the
client's peer and of each of the server's, connectIDs, session numbers, and the program
on top (`Connect`, `Disconnect`, `CheckTimeouts`, the CONNECT and DISCONNECT events).
A datagram once sent stays in `net` and may be received at any time, again and again
or never.

Operators whose comment starts with "Fault" are wrong variants of the operator
that follows them.  They are used by no specification; each is swapped in to
see that a property notices.  The MC modules hold what a run needs beyond numbers:
sets of poses, headings and messages.

## 3. Runs

| run | question | distinct states |
|---|---|---|
| `server_safety` | do map, peers, ids, acknowledgements and events stay together when players leave by every path and slots are reused, and is the server a roster to its players? | 352 k |
| `server_live` | are silent players dropped and snapshots relayed, and does nobody hear of himself? | 31 k |
| `client_safety` | do avatars, NPCs, queues and session agree at every step of every frame, whatever the server sends? | 5.3 M |
| `session_safety` | do the two ends agree, whatever the network does? | 2.3 M |
| `session_ghost` | does a departed player's avatar go? **No.** | counterexample |
| `interpolation_safety` | does the ring show the last samples, and is the avatar drawn on its path? | 816 k |
| `animation_safety` | do window, pending operations and NPC agree, and does the NPC end up as the player is? | 269 k |
| `channel_safety` | does ENet's reliable channel implement the FIFO, and can retransmission always help? | 124 k |
| `connection_safety` | do peers, players and clients find out about one another whatever happens to the datagrams? | 121 k |
| `detection_safety` | is the angle told right, are sides and turns kept apart, and is every attack announced once? | 1.7 M |
| `timing_safety` | is the rate kept, are live clients kept and dead ones dropped in time? | 7.1 M |
| `loop_starved` | is the rate kept with more players? **No.** | counterexample |

### Bounds

* `server_safety`: 3 slots, 3 connections, a timeout of 0 ticks, no datagrams.  Two
  players can expire in one pass with a third to be told, which is where the order of
  the slots matters; a slot can be used again while others stay.  A message a client
  may send carries any id handed out, its own or not.  `MaxQueue` only limits fires;
  connects and disconnects are always queued.
* `server_live`: 2 slots, 3 connections, so that both are used again; a timeout of 1
  lets a player expire with and without a heartbeat in between; one datagram under way
  per client, further ones are lost, which they may be anyway.
* `client_safety`: 2 remote players and 2 cells, any message at any time in any order.
  What holds needs no assumption on the other end.  One message waits at a time, but a
  frame reads as many as arrive while it polls, so that a disconnect, a snapshot and a
  fire fall in one frame in all orders.  Two reference ids let an avatar be spawned,
  despawned and spawned again.
* `session_safety`, `session_ghost`: the second player comes, sends, and goes by each of
  the three ways, with a snapshot about it under way or in the inbox, and the client's
  connection breaks at either end.
* `interpolation_safety`: a ring of 3 wraps twice in 9 ticks; with a delay of 2 ticks,
  a timeout of 3 and frames of 1 and 3 ticks every case of `Interp_GetState` occurs.
  Facings lie on both sides of north and opposite.
* `animation_safety`: a window of 2 frames is polled twice before it times out; a blow
  lasts one frame more than the one that starts it.  Four poses combine walking and
  running, weapon, aim, reload and sneak so that every two of them overlap.
* `channel_safety`: 8 windows of 2 numbers wrap at 16, 18 packets are sent, two windows
  can be missing when a packet is sent.  A datagram may arrive up to 10 packets late,
  all that `LagAssumption` allows: one overtaken by the free windows and one more is
  taken for a packet yet to come.  ENet's own windows bound what it sends again, not how
  long the network keeps a copy; with its numbers the lag is 36864 packets.
* `connection_safety`: 2 peers, 3 connections, each peer given away twice: a client can
  find the server full, come back while its old peer is still in use, and get that peer
  or the other one.  4 session numbers are ENet's.
* `detection_safety`: 16 units per turn, every facing, headings at both ends of
  `atan2f`'s range; frames shorter and longer than the interval of 2; an attack may go
  on, pause, or pass into its follow-through.
* `timing_safety`: a unit is about 5 ms for loop and snapshots (interval 7, wait 2),
  heartbeats are scaled down (interval 9, timeout 21).  Two players with jitter 1 meet
  in every phase; frames of 3 and 11 units are shorter and longer than a heartbeat's
  interval; the longer is the longest that `LiveIsKept` allows.  `loop_starved` has 4
  players and no heartbeat due.

`SnapshotSeqs` is {0} everywhere: no step looks at the number.  Deadlock is not checked
where the system may really stop: the game exits, connections and packets are bounded,
and so is the clock.

### Fairness

`Server`: the loop makes progress; the inner loop ends, which needs 10 ms without an
event now and then; a broadcast becomes due again and again, as its accumulator follows
the clock; a datagram leaves the network sooner or later.  The second is a real
assumption: `timing_safety` shows it for two players, `loop_starved` refutes it for four.
Nothing is assumed about clients or connections lasting, so `SnapshotsRelayed` is
released when one of the two players goes.

`Animation`: frames go on; the AI finishes an animation it has started, and gets to a
request that is made again and again while the avatar stands (strong fairness under
`Standing` only: the plans record that active locomotion blocks it,
`planning/milestones.md:249`).

`EnetConnection`: events are handled by the next call of `enet_host_service`, an end
whose commands are not answered times out, `NetClient::Disconnect` gives up after a
second.  Nothing is assumed about the network or the players.

`ReliableChannel` has no liveness property: that the network delivers some copy is not
ENet's doing.  `NeverStuck` says instead that in every state a retransmission would help.

## 4. Proofs

The theorems are of the form `Spec => []Inv` or `Spec => [][A]_vars`, but for two
refinements: the server implements Roster, the reliable channel a FIFO.  They hold for
every value of the constants the assumptions allow, and state every safety property of
the passing runs.  These are seldom inductive one by one; each proof module has an
invariant that is, checked with TLC first.  Type invariants and inductive invariants are
proved rather than listed in the runs.

**ServerProofs**, any number of slots, cells and connections: `TypeOK`,
`PlayersMatchPeers`, `IdsUnique`, `AckMatchesPlayer`, `DisconnectIsFinal`,
`NeverAboutRecipient`, and as action properties `DeparturesAnnounced` and
`IdsNeverReturn` (which `RosterSpec` implies, so that no run lists it); and the
refinement `RosterSpec`, with one lemma per kind of step on the action of Roster it is.
`DisconnectIsFinal` needs `IdsUnique` (an id that left must not be
the id of a player who stayed) and `QueuesIssued` (an id about to be handed out is in
no queue); `NeverAboutRecipient` needs, when a slot is reused, that a slot without a
connection has empty queues, which in turn needs `PlayersMatchPeers`.

**SessionProofs** begins with the client alone, against *any* server and network whose
messages have the protocol's form and whose ids are bounded (`maxId`; `NetEntityId` is a
`uint32_t`): `NoOrphans`, `AvatarsComplete`, `FramesComplete`, `SessionConsistent`,
`ExitIsClean`.  The invariant says for each step of the frame what may still be pending
there.  Then both ends: `NoSelfAvatar`, `IdentityAgreed`, `AvatarsAccounted`,
`NoFireAfterDeparture`.  The argument joins the server's invariant, the client's and
`Agreement` between them: who has joined, which messages to `Me` are under way, that
they are about others, that a departure is the last word about an id, that whoever may
be shown is a player or has a disconnect on its way.  Each step of the server, seen from
slot `Me`, is one of a few kinds (`ServerKinds`: nothing is sent, a fire, states, a
connect, a departure), each step of the client is calm, reads or receives a message.

**InterpolationProofs**, every buffer size, delay and timeout: `WindowIsRecent`,
`BracketExists` (the line commented "Shouldn't reach here" is not reached),
`VelocityIsCurrent`, `DrawnOnPath` with the rotation's shorter way.  The invariant says
where in the ring the k-th sample ever pushed lies (`RingInv`), that arrival times
increase, and that a time between a sample and the newest lies between two neighbours
(`PathBracketed`).  The last one would by itself need an induction over the samples;
carried in the invariant, each push extends it by one step.

**AnimationProofs**, any poses and durations: `WindowMatchesPending`,
`OneWeaponOperation`, `SneakSettled`, `PoseFollows`, `WeaponTypeKnown`.  The functions
of the code are composed, so each has a lemma on what it preserves and what it settles.
`WindowLimited` has an invariant of its own, `Animated`: the operation that is pending is
the last the NPC was told, and an animation that has been seen is that operation's.
What a poll finds done is done, therefore, and the fallback of the same frame does not
begin it again; a frame that closes the window leaves it closed.

**DetectionProofs**, every resolution of the angles, frame rate and sequence of actions:
`AttacksAnnounced` and `Directions`.  Since the number of units of a turn is arbitrary,
nothing depends on a direction falling on a unit.  The core is arithmetic: the
one turn `Normalize` adds or takes off is enough, the eight half-open sectors leave no
gap, and what is left of a remainder is found by case.  `Directions` measures what is
told by the names of `planning/technical_spec.md:572`, but without their sign: that a name
is as far from straight ahead as the walk, and that the names of one side, or of one way
to turn, never occur on the other.  With the sign it is false: see section 5.

**TimingProofs**, any finite set of players, any interval, wait and frame lengths:

* `NoDrift`, and `LiveIsKept` if an interval, the longest frame and twice the delay on
  the way are within the timeout (`FramesShort`).  The invariant, `LiveInv`, bounds what
  has passed since the last heartbeat handled by what the client's accumulator has
  gathered and what is on the way.
* `TimingDropsAtPass`: whatever the traffic, a dead client goes with the first pass that
  ends after its time is up.  How soon that is depends on the passes.
* `TimingPassesEnd`, and from it `RateKept` and `DroppedInTime`, for a number `C` of
  snapshots: a pass takes `WAIT * (C * players + 2)` at most, if a player sends no more
  than `C` snapshots in so long a time (`FewSnapshots`) and no second heartbeat arrives
  (`SlowBeats`).  Every wait that starts anew is paid for by a snapshot or a heartbeat
  (`PaidInv`), and a player's snapshots lie an interval less the jitter apart
  (`SpacedInv`); the assumption on `C` is what closes the circle.  With the
  program's numbers (33 ms, 10 ms, a heartbeat every 2 s, frames below 1.8 s) this gives
  both properties for one player with the jitter of a whole frame of 16 ms (`C = 3`:
  50 ms), `RateKept` for two with a jitter up to 9 ms (`C = 5`: 120 ms), `DroppedInTime`
  for two with up to 3 ms (`C = 2`: 60 ms).  It gives nothing for three, whose snapshots
  leave 11 ms on average, and for four the property is false (`loop_starved`).

In `timing_safety` heartbeats are scaled down so far that `SlowBeats` does not hold: there
the two properties are checked in a case that the theorems leave open.

**ReliableChannelProofs**, any number of packets, any size of windows, any even number
of six windows or more, any lag that `LagAssumption` allows: `BooksRight`, `NeverStuck`
and the refinement `FifoSpec`.  The invariant has a witness `h`, the highest packet ever
put on the wire: what was sent up to `h` and not acknowledged is in one of the sender's
lists, and what was never sent comes after it, in order (`ListsInv`); every window counts
its packets, and those in use lie within `FREE_WINDOWS - 2` windows of `h`
(`WindowsInv`); what is on the network is no older than the lag (`NetworkInv`); what was
delivered is 1, 2, 3, ... and at most `h`, and what is missing is still
unacknowledged (`ReceiverInv`).  From that the lemmas on sequence numbers follow: two
packets so close have the same number only if they are the same packet, and the
receiver's comparison of windows, made on numbers that wrap, sorts old, present and early packets
as it would without wrapping.

**EnetConnectionProofs**, any number of peers, connections and session numbers:
`PeersGenuine` and `PeerLifecycle`.  The key is that ACK_VERIFY carries connection, peer
and session, and that none is ever under way which its client has not seen established.

Assumptions are the named ones of the modules: the constants are natural numbers, not 0
where a division or an array needs it; cell references are not 0; the engine keeps
`rotZ` within a turn and `atan2f` its range; the players of `Timing` are finitely many;
ENet's windows are twice the free ones, of which there are more than two (16 and 8 in
`fnvmp/enet/include/enet/enet.h`), and the network keeps no datagram longer than the lag.

Model-checked only: liveness, as fairness and ENABLED are out of the prover's reach
(`SilentPlayersLeave`, `SnapshotsRelayed`, `WeaponFollows`, `PlayersFreed`,
`ClientLearns`); `RateKept` and `DroppedInTime` where no `C` meets the conditions above.

## 5. Disagreements met while modelling

Two are shown by a run of their own:

* **A ghost avatar** (`session_ghost`).  The frame handles disconnects first and the
  world snapshot last, and any unknown id in the local cell makes an avatar.  A snapshot
  that arrives after the event (it is a datagram on another channel), or one read in the
  same `Poll` before it for a player not shown yet, makes an avatar of a player who has
  left.  No later event removes it.  `planning/milestones.md:74` promises its despawn.
* **The starved loop** (`loop_starved`).  `fnvmp/server/server_main.cpp:336` says
  "Broadcast world snapshots at 30 Hz", `planning/technical_spec.md:771` "Max players: 8".
  The inner loop (line 296) ends only when 10 ms pass without an event.  Four clients
  that send 30 snapshots a second leave no such pause while they keep out of step; then
  nothing is broadcast and no timeout is checked.

The others were found in the same way, by stating what the text says and reading the
counterexample; the models do what the code does, and the properties exempt it by name.

* `fnvmp/game/animation.cpp:58`: `ApplyLocomotion` returns early during a blow or a
  throw, but line 391 still remembers the new direction as shown.  A player who stops or
  starts within the 0.8 s is shown with the old locomotion until he changes it again.
  `planning/milestones.md:202`: "Client A stands still → remote NPC in client B plays idle
  animation".
* `fnvmp/game/animation.cpp:185`: beginning to holster sets `cachedWeaponType` to -1.  If
  the safety timeout gives the holstering up and the player has the weapon out again,
  tracked state and actor agree, the fallback of line 139 has nothing to correct, and
  the type stays unknown: shots have no sound and blows look like shots until the next
  draw.  `planning/milestones.md:205`: "Client A fires → NPC plays fire animation with sound".
* `fnvmp/game/animation.cpp:202`: the timeout clears `pendingOps` while `prevIsSneaking`
  has the new value already, so a sneak transition the AI did not get to in time is not
  begun anew.  `planning/milestones.md:203`: "Client A sneaks → NPC sneaks"; line 249
  describes the cause.
* `fnvmp/game/entity_manager.cpp:305`: `EntityManager_Tick` skips avatars whose player is
  in another cell before it calls `Animation_ApplyState`, so a window opened before is
  neither polled nor timed out: the NPC stays unrestrained as long as its player is away.
  `planning/technical_spec.md:393`: SetRestrained 1 "prevents autonomous movement".
* `fnvmp/net/net_client.cpp:50`: line 47 says "Send explicit disconnect message".
  `NetClient::Send` only queues it, and `enet_peer_disconnect` in the next statement
  resets the queues (`fnvmp/enet/peer.c:537-572`).  The server's `MSG_DISCONNECT` case is
  never used by this client; the server learns of the exit from ENet's own command, or
  by a timeout when that is lost.
* `fnvmp/main.cpp:297`: the accumulator loses one interval per frame however many have
  passed, so that after a long frame a snapshot is sent in every frame until the backlog
  is used up.  Those samples lie less than an interval apart, and a player who walks
  steadily falls below the threshold "units per snapshot interval" (line 100) and is
  reported as standing meanwhile.
* `fnvmp/main.cpp:133`: `planning/technical_spec.md:572` has "Right (~90°), ... Left (~-90°)",
  `fnvmp/main.cpp:119` "+X = east, +Y = north".  `atan2f(dx, dy)` grows from north to east,
  the sectors take positive angles as left: whoever faces north and walks west is told
  to go Right.  That needs no convention for `rotZ`.  For other facings it does: line 119
  goes on "0 = north, increasing = CCW", the page on `GetAngle`
  (`geck_wiki_resource/GECK-20260301214412.xml:6816`) says "increasing clockwise".  By the page
  forward and backward are right, and left and right swapped for every facing and for
  turns on the spot; by line 119 forward would be wrong too.  `Directions` therefore
  only claims that the sides are kept apart, under the names the code gives them.
* `fnvmp/server/server_main.cpp:39`: "Monotonic clock in seconds" (line 36) is `clock()`,
  which on Windows counts milliseconds in 32 bits and returns -1 after 24.8 days: the
  accumulator becomes negative for good, and neither broadcasts nor timeouts happen.
* `fnvmp/server/server_main.cpp:173`: a player's snapshot is stored with its sequence
  number, which is compared with nothing.  Unsequenced datagrams overtake one another, so
  an older one may win over the "latest snapshot" of `planning/milestones.md:46`.
* `fnvmp/shared/protocol.h:125`: HEARTBEAT_TIMEOUT is 10.0, where
  `planning/milestones.md:34` has "within 5 s" and `planning/technical_spec.md:868` "5 seconds".
* `fnvmp/game/entity_manager.cpp:152`: a disconnect drops the samples when it queues the
  despawn; a snapshot handled later in the frame pushes new ones, and `Tick` erases the
  entity only.  `fnvmp/game/interpolation.h:21`: "Remove all interpolation data for an entity
  (on despawn)."  Ids are not reused, so this is a leak, not a wrong position.
* `fnvmp/game/interpolation.cpp:129`: after up to half a second of extrapolation the
  newest sample is returned, so the avatar jumps back by all it was extrapolated.
  `planning/milestones.md:97`: "extrapolate briefly (continue last velocity), then freeze".

Two observations that contradict no text: a loading frame longer than the timeout drops
a live client, because `Poll` is not called meanwhile (`LiveIsKept` is proved for
frames up to `FramesShort`, about 8 s); and with two session numbers instead of ENet's four a
DISCONNECT of an earlier connection can close a later one after four uses of a peer.

## 6. Not modelled

* xNVSE, the NVSE common library and its example: about 100 000 vendored lines, nine
  tenths of the implementation lines of the repository, of which the plug-in uses
  headers and a few entry points.  The map therefore covers a small share of all lines
  although it covers most functions of the program's own sources.
* Plug-in entry and registration: no state.
* Zones, combat, inventory, quests and persistence: planned, no code.
* Malformed packets (the length checks) and unknown message types, which both ends ignore.
* ENet's fragments, unreliable sequenced packets, throttling, compression, checksums and
  sockets: not used by the program, or only a delay.
* The two other axes of the interpolation and floating-point rounding.
* The composition of EntityManager with Interpolation and Animation: per avatar they
  share the frame's order, which both models have, and nothing else.
* Liveness of the session: that an avatar appears while the connection lasts.  The
  server's half is `SnapshotsRelayed`; the client's needs an engine that places what it is
  asked to, which the code does not secure, and a network that delivers.
* The end of `clock()`: see section 5.

## 7. Plan

1. An abstract specification of `Session`, which the ghosts would have to be part of.
2. The composition of one avatar's EntityManager, Interpolation and Animation.
3. Liveness of the client: an avatar appears while its player is in sight
   (`planning/milestones.md:83`), under named assumptions on engine and network.
