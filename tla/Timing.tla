------------------------------- MODULE Timing -------------------------------
(***************************************************************************)
(* When things happen: the server's main loop, whose inner loop handles    *)
(* events for as long as enet_host_service finds one in time, the timeouts *)
(* and broadcasts that wait for it to end, the clients whose snapshots     *)
(* keep it going, and one more client, whose heartbeats it watches.        *)
(* Server.tla has what is done; handling takes no time here.               *)
(*                                                                         *)
(* Clock values are relative: "since" is GetTime() - g_lastBroadcastTime,  *)
(* "elapsed" is GetTime() - info.lastHeartbeat.                            *)
(***************************************************************************)
EXTENDS Integers, FiniteSets

CONSTANTS
  Players,             \* the clients that send snapshots
  INTERVAL,            \* SNAPSHOT_SEND_INTERVAL, of both ends, in time units
  WAIT,                \* how long enet_host_service waits (10 ms), in time units
  Jitter,              \* by how much the frames of a client shift what it sends
  HEARTBEAT_INTERVAL, HEARTBEAT_TIMEOUT,  \* in time units
  Frames,              \* durations of a frame of the watched client
  MaxDelay,            \* the longest way of a heartbeat, ENet's repetitions included
  MaxAccum, MaxDebt    \* bounds: of m_heartbeatAccum and of debt

ASSUME TimesAssumption ==
  /\ INTERVAL \in Nat \ {0} /\ WAIT \in Nat \ {0} /\ Jitter \in 0 .. INTERVAL - 1
  /\ HEARTBEAT_INTERVAL \in Nat \ {0} /\ HEARTBEAT_TIMEOUT \in Nat
  /\ Frames \subseteq Nat \ {0} /\ MaxDelay \in Nat

ASSUME PlayersAssumption == IsFiniteSet(Players)
ASSUME MaxAccumAssumption == MaxAccum \in Nat

VARIABLES
  \* The server's loop.
  due,      \* time until a player's next snapshot
  pending,  \* snapshots that have arrived
  waited,   \* how long enet_host_service has waited
  since,    \* time since the last pass
  accum,    \* g_broadcastAccum
  debt,     \* history: the time that has passed less INTERVAL for every broadcast
  \* The watched client.
  beatAccum,  \* m_heartbeatAccum
  frame,      \* how long the frame has to go
  length,     \* the dt the next Poll will see
  net,        \* ages of the heartbeats on their way
  elapsed,    \* at the server, since the last heartbeat
  player,     \* whether the server has the player
  silent      \* history: how long the client has been gone, and 1; 0 if it is not

loopVars == <<due, pending, since, accum, debt>>
clientVars == <<beatAccum, frame, length>>
vars == <<loopVars, waited, clientVars, net, elapsed, player, silent>>

\* The server looks at the clock when a pass ends.  Nothing depends on what is longer ago.
Horizon == HEARTBEAT_TIMEOUT + MaxDelay + 3 * INTERVAL

Capped(t) == IF t < Horizon THEN t + 1 ELSE t

TypeOK ==
  /\ due \in [Players -> 1 .. INTERVAL + Jitter]
  /\ pending \in 0 .. Cardinality(Players)
  /\ waited \in 0 .. WAIT
  /\ since \in Nat /\ accum \in 0 .. INTERVAL - 1 /\ debt \in Int
  /\ beatAccum \in 0 .. MaxAccum
  /\ length \in Frames /\ frame \in 0 .. length
  /\ net \subseteq 0 .. MaxDelay
  /\ elapsed \in 0 .. Horizon
  /\ player \in BOOLEAN
  /\ silent \in 0 .. Horizon

\* MSG_CONNECT_ACK resets m_heartbeatAccum up to MaxDelay after the server has started
\* to count.
Init ==
  /\ due \in [Players -> 1 .. INTERVAL]
  /\ pending = 0 /\ waited = 0
  /\ since = 0 /\ accum = 0 /\ debt = 0
  /\ beatAccum = 0
  /\ length \in Frames /\ frame = length
  /\ net = {}
  /\ elapsed \in 0 .. MaxDelay
  /\ player = TRUE
  /\ silent = 0

---------------------------------------------------------------------------
\* Time passes while enet_host_service waits for a datagram.  A heartbeat arrives
\* while it is at most MaxDelay old.
Wait ==
  /\ pending = 0 /\ waited < WAIT /\ debt < MaxDebt
  /\ silent = 0 => frame > 0
  /\ MaxDelay \notin net
  /\ waited' = waited + 1
  /\ since' = since + 1
  /\ debt' = debt + 1
  /\ pending' = Cardinality({p \in Players : due[p] = 1})
  /\ \E shift \in [Players -> -Jitter .. Jitter] :
       due' = [p \in Players |-> IF due[p] = 1 THEN INTERVAL + shift[p] ELSE due[p] - 1]
  /\ frame' = IF silent = 0 THEN frame - 1 ELSE frame
  /\ net' = {age + 1 : age \in net}
  /\ elapsed' = IF player THEN Capped(elapsed) ELSE elapsed
  /\ silent' = IF silent = 0 THEN 0 ELSE Capped(silent)
  /\ UNCHANGED <<accum, beatAccum, length, player>>

\* A snapshot is handled: the inner loop goes on, with a new time to wait.
Serve ==
  /\ pending > 0
  /\ pending' = pending - 1
  /\ waited' = 0
  /\ UNCHANGED <<due, since, accum, debt, clientVars, net, elapsed, player, silent>>

\* MSG_HEARTBEAT is another event.  The time is that of the arrival; they come in
\* order, as they are reliable.
Receive ==
  /\ net # {}
  /\ LET oldest == CHOOSE a \in net : \A b \in net : b <= a
     IN net' = net \ {oldest}
  /\ waited' = 0
  /\ elapsed' = IF player THEN 0 ELSE elapsed
  /\ UNCHANGED <<loopVars, clientVars, player, silent>>

\* Fault: however many broadcasts there are, one interval is taken off.
AccumOnce(total) == IF total >= INTERVAL THEN total - INTERVAL ELSE total

\* Every INTERVAL that has accumulated is worth a broadcast.
AccumAfter(total) == total % INTERVAL

\* Fault: the time is only taken when something is broadcast.
SinceLastBroadcast(n) == IF n = 0 THEN since ELSE 0

SinceLastPass(n) == 0

\* Fault: half the time.
ExpiredAtHalf == elapsed > HEARTBEAT_TIMEOUT \div 2

\* Fault: only looked at when something is on its way.
ExpiredOnArrival == elapsed > HEARTBEAT_TIMEOUT /\ net # {}

Expired == elapsed > HEARTBEAT_TIMEOUT

\* No event in time: CheckTimeouts, then the broadcasts that are due.
EndPass ==
  /\ pending = 0 /\ waited = WAIT
  /\ waited' = 0
  /\ player' = (player /\ ~Expired)
  /\ elapsed' = IF player' THEN elapsed ELSE 0
  /\ LET total == accum + since
         n == total \div INTERVAL
     IN  /\ accum' = AccumAfter(total)
         /\ since' = SinceLastPass(n)
         /\ debt' = debt - n * INTERVAL
  /\ UNCHANGED <<due, pending, clientVars, net, silent>>

BeatAccumAfter(total) == total - HEARTBEAT_INTERVAL

\* NetClient::Poll: one heartbeat at most, however many are overdue.
Poll ==
  /\ silent = 0 /\ frame = 0
  /\ LET total == beatAccum + length
     IN  /\ total <= MaxAccum
         /\ IF total >= HEARTBEAT_INTERVAL
            THEN beatAccum' = BeatAccumAfter(total) /\ net' = net \cup {0}
            ELSE beatAccum' = total /\ net' = net
  /\ length' \in Frames /\ frame' = length'
  /\ UNCHANGED <<loopVars, waited, elapsed, player, silent>>

\* The game ends or crashes; what it has sent may still arrive.
Gone ==
  /\ silent = 0
  /\ silent' = 1
  /\ beatAccum' = 0 /\ frame' = 0 /\ length' \in Frames
  /\ UNCHANGED <<loopVars, waited, net, elapsed, player>>

Next == Wait \/ Serve \/ Receive \/ EndPass \/ Poll \/ Gone

Spec == Init /\ [][Next]_vars

---------------------------------------------------------------------------
\* server_main.cpp:336 "Broadcast world snapshots at 30 Hz": there are as many
\* broadcasts as intervals, up to the few that may fall into a pass of the inner loop.
\* Depends on how many players talk: the inner loop only ends when nobody does.
RateKept == debt \in 0 .. 5 * INTERVAL - 1

\* No time is lost or counted twice on the way from the clock to the broadcasts
\* (server_main.cpp:337-343), so that the rate is exact in the long run.
NoDrift == TypeOK /\ debt = accum + since

\* A client that plays on is not dropped, as long as no frame takes too long
\* (net_client.cpp:118-125, server_main.cpp:237-253).
LiveIsKept == silent = 0 => player

\* A client that is gone is dropped by the first pass that ends after its time is up,
\* even if its last heartbeat was under way, and the traffic of the others lets a pass
\* end within two intervals.
DroppedInTime == player => silent <= HEARTBEAT_TIMEOUT + MaxDelay + 2 * INTERVAL
=============================================================================
