---------------------------- MODULE TimingProofs ----------------------------
(***************************************************************************)
(* Proofs about Timing, for every number of players, interval, waiting     *)
(* time, timeout and length of a frame.                                    *)
(***************************************************************************)
EXTENDS Timing, FiniteSetTheorems, TLAPS

\* Quotient and remainder.
LEMMA DivMod ==
  ASSUME NEW n \in Nat \ {0}, NEW a \in Nat
  PROVE  /\ a % n \in 0 .. n - 1 /\ a \div n \in Nat
         /\ a % n = a - (a \div n) * n
  BY Z3

LEMMA PlayersCount == Cardinality(Players) \in Nat
  BY PlayersAssumption, FS_CardinalityType

\* However many players send at once, they are no more than there are.
LEMMA SendersCount ==
  ASSUME NEW S \in SUBSET Players
  PROVE  Cardinality(S) \in 0 .. Cardinality(Players)
<1>1. IsFiniteSet(S) /\ Cardinality(S) <= Cardinality(Players)
  BY PlayersAssumption, FS_Subset
<1> QED BY <1>1, PlayersCount, FS_CardinalityType

LEMMA HorizonType == Horizon \in Nat /\ Horizon >= 2 /\ Horizon >= MaxDelay
  BY TimesAssumption DEF Horizon

LEMMA CappedType ==
  ASSUME NEW t \in 0 .. Horizon
  PROVE  Capped(t) \in 0 .. Horizon
  BY HorizonType DEF Capped

---------------------------------------------------------------------------
LEMMA InitNoDrift == Init => NoDrift
<1> SUFFICES ASSUME Init PROVE NoDrift OBVIOUS
<1> USE TimesAssumption, MaxAccumAssumption, HorizonType DEF Init
<1>1. due \in [Players -> 1 .. INTERVAL + Jitter]
  <2>1. \A n \in 1 .. INTERVAL : n \in 1 .. INTERVAL + Jitter OBVIOUS
  <2>   QED BY <2>1
<1>2. pending \in 0 .. Cardinality(Players) BY PlayersCount
<1>3. length \in Frames /\ frame \in 0 .. length OBVIOUS
<1>4. elapsed \in 0 .. Horizon /\ silent \in 0 .. Horizon OBVIOUS
<1> QED BY <1>1, <1>2, <1>3, <1>4 DEF NoDrift, TypeOK

\* Waiting adds to both sides of the account.
LEMMA WaitNoDrift == NoDrift /\ Wait => NoDrift'
<1> SUFFICES ASSUME NoDrift, Wait PROVE NoDrift' OBVIOUS
<1> USE TimesAssumption DEF NoDrift, TypeOK
<1>1. due' \in [Players -> 1 .. INTERVAL + Jitter]
  <2>1. PICK shift \in [Players -> -Jitter .. Jitter] :
          due' = [p \in Players |-> IF due[p] = 1 THEN INTERVAL + shift[p] ELSE due[p] - 1]
    BY DEF Wait
  <2>2. ASSUME NEW p \in Players
        PROVE  (IF due[p] = 1 THEN INTERVAL + shift[p] ELSE due[p] - 1)
                 \in 1 .. INTERVAL + Jitter
    <3>1. shift[p] \in -Jitter .. Jitter /\ due[p] \in 1 .. INTERVAL + Jitter BY <2>1
    <3>   QED BY <3>1
  <2>   QED BY <2>1, <2>2
<1>2. pending' \in 0 .. Cardinality(Players) BY SendersCount DEF Wait
<1>3. waited' \in 0 .. WAIT BY DEF Wait
<1>4. since' \in Nat /\ debt' \in Int /\ debt' = accum' + since' /\ accum' = accum
  BY DEF Wait
<1>5. length' \in Frames /\ frame' \in 0 .. length' BY DEF Wait
<1>6. net' \subseteq 0 .. MaxDelay
  <2>1. \A age \in net : age + 1 \in 0 .. MaxDelay BY DEF Wait
  <2>   QED BY <2>1 DEF Wait
<1>7. elapsed' \in 0 .. Horizon /\ silent' \in 0 .. Horizon
  BY CappedType, HorizonType DEF Wait
<1>8. beatAccum' \in 0 .. MaxAccum /\ player' \in BOOLEAN BY DEF Wait
<1> QED BY <1>1, <1>2, <1>3, <1>4, <1>5, <1>6, <1>7, <1>8

LEMMA ServeNoDrift == NoDrift /\ Serve => NoDrift'
  BY PlayersCount, TimesAssumption DEF NoDrift, TypeOK, Serve, clientVars

LEMMA ReceiveNoDrift == NoDrift /\ Receive => NoDrift'
<1> SUFFICES ASSUME NoDrift, Receive PROVE NoDrift' OBVIOUS
<1>1. net' \subseteq net BY DEF Receive
<1>2. /\ waited' = 0 /\ elapsed' = (IF player THEN 0 ELSE elapsed)
      /\ UNCHANGED <<loopVars, clientVars, player, silent>>
  BY DEF Receive
<1> QED BY <1>1, <1>2, HorizonType, TimesAssumption
        DEF NoDrift, TypeOK, loopVars, clientVars

\* The pass turns whole intervals into broadcasts and keeps the rest.
LEMMA EndPassNoDrift == NoDrift /\ EndPass => NoDrift'
<1> SUFFICES ASSUME NoDrift, EndPass PROVE NoDrift' OBVIOUS
<1> USE TimesAssumption DEF NoDrift, TypeOK
<1> DEFINE total == accum + since
           n == total \div INTERVAL
<1>1. total \in Nat /\ debt = total OBVIOUS
<1>2. /\ total % INTERVAL \in 0 .. INTERVAL - 1 /\ n \in Nat
      /\ total % INTERVAL = total - n * INTERVAL
  BY <1>1, DivMod
<1>3. accum' = total % INTERVAL /\ since' = 0 /\ debt' = debt - n * INTERVAL
  BY DEF EndPass, AccumAfter, SinceLastPass
<1> HIDE DEF total, n
<1>4. n * INTERVAL \in Int BY <1>2
<1>5. /\ accum' \in 0 .. INTERVAL - 1 /\ since' \in Nat /\ debt' \in Int
      /\ debt' = accum' + since'
  BY <1>1, <1>2, <1>3, <1>4
<1>6. waited' \in 0 .. WAIT /\ player' \in BOOLEAN /\ elapsed' \in 0 .. Horizon
  BY HorizonType DEF EndPass
<1>7. UNCHANGED <<due, pending, beatAccum, frame, length, net, silent>>
  BY DEF EndPass, clientVars
<1> QED BY <1>5, <1>6, <1>7

LEMMA PollNoDrift == NoDrift /\ Poll => NoDrift'
<1> SUFFICES ASSUME NoDrift, Poll PROVE NoDrift' OBVIOUS
<1> USE TimesAssumption, MaxAccumAssumption DEF NoDrift, TypeOK
<1>1. beatAccum' \in 0 .. MaxAccum /\ net' \subseteq 0 .. MaxDelay
  <2> DEFINE total == beatAccum + length
  <2>1. total \in Nat OBVIOUS
  <2>2. CASE total >= HEARTBEAT_INTERVAL
    <3>1. total <= MaxAccum /\ beatAccum' = total - HEARTBEAT_INTERVAL /\ net' = net \cup {0}
      BY <2>2 DEF Poll, BeatAccumAfter
    <3>   HIDE DEF total
    <3>   QED BY <2>1, <2>2, <3>1
  <2>3. CASE ~(total >= HEARTBEAT_INTERVAL)
    <3>1. total <= MaxAccum /\ beatAccum' = total /\ net' = net BY <2>3 DEF Poll
    <3>   HIDE DEF total
    <3>   QED BY <2>1, <3>1
  <2>   QED BY <2>2, <2>3
<1>2. length' \in Frames /\ frame' \in 0 .. length' BY DEF Poll
<1>3. UNCHANGED <<loopVars, waited, elapsed, player, silent>> BY DEF Poll
<1> QED BY <1>1, <1>2, <1>3 DEF loopVars

LEMMA GoneNoDrift == NoDrift /\ Gone => NoDrift'
  BY HorizonType, TimesAssumption, MaxAccumAssumption DEF NoDrift, TypeOK, Gone, loopVars

LEMMA NextNoDrift == NoDrift /\ [Next]_vars => NoDrift'
<1> SUFFICES ASSUME NoDrift, [Next]_vars PROVE NoDrift' OBVIOUS
<1>1. CASE UNCHANGED vars
  BY <1>1 DEF NoDrift, TypeOK, vars, loopVars, clientVars
<1>2. CASE Next
  BY <1>2, WaitNoDrift, ServeNoDrift, ReceiveNoDrift, EndPassNoDrift, PollNoDrift,
     GoneNoDrift DEF Next
<1> QED BY <1>1, <1>2

\* Every unit of time ends up in a broadcast or in the accumulator, whatever the
\* players, the waiting time and the interval are: the 30 Hz of the broadcasts are
\* exact in the long run (server_main.cpp:337-343).
THEOREM TimingNoDrift == Spec => []NoDrift
<1> QED BY InitNoDrift, NextNoDrift, PTL DEF Spec

---------------------------------------------------------------------------
(***************************************************************************)
(* The heartbeats.                                                         *)
(***************************************************************************)

\* What the watched client must keep to: two heartbeats in a row, the first as early
\* and the second as late as can be, are no further apart than the timeout.
FramesShort ==
  \A f \in Frames : (HEARTBEAT_INTERVAL - 1) + f + 2 * MaxDelay <= HEARTBEAT_TIMEOUT

\* When a Poll is over, the last heartbeat was less than an interval ago; so long ago,
\* and a frame, the oldest one on its way may have been preceded by another.
Heard ==
  \/ /\ net = {}
     /\ elapsed <= MaxDelay + beatAccum + (length - frame)
     /\ elapsed <= MaxDelay + (HEARTBEAT_INTERVAL - 1) + (length - frame)
  \/ \E age \in net : \E f \in Frames :
       elapsed <= age + MaxDelay + (HEARTBEAT_INTERVAL - 1) + f

LiveInv == silent = 0 => player /\ Heard

\* A time read from a clock that stops at the horizon.
LEMMA CappedGrows ==
  ASSUME NEW t \in 0 .. Horizon
  PROVE  Capped(t) <= t + 1 /\ (t # Horizon => Capped(t) = t + 1) /\ Capped(t) >= t
  BY HorizonType DEF Capped

LEMMA LiveInit == Init => LiveInv
  BY TimesAssumption DEF Init, LiveInv, Heard

LEMMA LiveNext ==
  ASSUME FramesShort, NoDrift, LiveInv, [Next]_vars
  PROVE  LiveInv'
<1> USE TimesAssumption
<1>1. SUFFICES ASSUME silent' = 0 PROVE player' /\ Heard' BY DEF LiveInv
<1>2. TypeOK BY DEF NoDrift
<1>3. /\ length \in Nat /\ frame \in 0 .. length /\ beatAccum \in Nat /\ net \subseteq 0 .. MaxDelay
      /\ elapsed \in 0 .. Horizon /\ silent \in 0 .. Horizon /\ length \in Frames
      /\ Frames \subseteq Nat
  BY <1>2, MaxAccumAssumption DEF TypeOK
<1>4. silent = 0
  <2>1. CASE Wait
    <3>1. silent' = IF silent = 0 THEN 0 ELSE Capped(silent) BY <2>1 DEF Wait
    <3>   QED BY <1>1, <1>3, <3>1, CappedGrows
  <2>2. CASE ~Wait BY <1>1, <2>2 DEF Next, vars, Serve, Receive, EndPass, Poll, Gone
  <2>   QED BY <2>1, <2>2
<1>5. player /\ Heard BY <1>4 DEF LiveInv
<1>6. elapsed <= HEARTBEAT_TIMEOUT
  <2>1. CASE net = {} /\ elapsed <= MaxDelay + (HEARTBEAT_INTERVAL - 1) + (length - frame)
    <3>1. (HEARTBEAT_INTERVAL - 1) + length + 2 * MaxDelay <= HEARTBEAT_TIMEOUT
      BY <1>3 DEF FramesShort
    <3>   QED BY <1>3, <2>1, <3>1
  <2>2. CASE \E age \in net : \E f \in Frames :
               elapsed <= age + MaxDelay + (HEARTBEAT_INTERVAL - 1) + f
    <3>1. PICK age \in net, f \in Frames :
            elapsed <= age + MaxDelay + (HEARTBEAT_INTERVAL - 1) + f
      BY <2>2
    <3>2. (HEARTBEAT_INTERVAL - 1) + f + 2 * MaxDelay <= HEARTBEAT_TIMEOUT BY DEF FramesShort
    <3>3. age \in 0 .. MaxDelay /\ f \in Nat BY <1>3
    <3>   QED BY <1>3, <3>1, <3>2, <3>3
  <2>   QED BY <1>5, <2>1, <2>2 DEF Heard
<1>7. CASE Wait
  <2>1. /\ player' = player /\ frame' = frame - 1 /\ frame > 0 /\ length' = length
        /\ beatAccum' = beatAccum
        /\ net' = {age + 1 : age \in net} /\ elapsed' = Capped(elapsed)
    BY <1>4, <1>5, <1>7 DEF Wait
  <2>2. elapsed' <= elapsed + 1 /\ elapsed' \in Nat BY <1>3, <2>1, CappedGrows, CappedType, HorizonType
  <2>3. CASE /\ net = {}
             /\ elapsed <= MaxDelay + beatAccum + (length - frame)
             /\ elapsed <= MaxDelay + (HEARTBEAT_INTERVAL - 1) + (length - frame)
    BY <1>3, <1>5, <2>1, <2>2, <2>3 DEF Heard
  <2>4. CASE \E age \in net : \E f \in Frames :
               elapsed <= age + MaxDelay + (HEARTBEAT_INTERVAL - 1) + f
    <3>1. PICK age \in net, f \in Frames :
            elapsed <= age + MaxDelay + (HEARTBEAT_INTERVAL - 1) + f
      BY <2>4
    <3>2. age \in Nat /\ f \in Nat /\ age + 1 \in net' BY <1>3, <2>1
    <3>3. elapsed' <= (age + 1) + MaxDelay + (HEARTBEAT_INTERVAL - 1) + f
      BY <1>3, <2>2, <3>1, <3>2
    <3>   QED BY <1>5, <2>1, <3>2, <3>3 DEF Heard
  <2>   QED BY <1>5, <2>3, <2>4 DEF Heard
<1>8. CASE Serve BY <1>5, <1>8 DEF Serve, Heard, clientVars
<1>9. CASE Receive
  <2>1. /\ player' = player /\ elapsed' = 0
        /\ UNCHANGED <<beatAccum, frame, length>> /\ net' \subseteq net
    BY <1>5, <1>9 DEF Receive, clientVars
  <2>2. CASE net' = {} BY <1>3, <1>5, <2>1, <2>2 DEF Heard
  <2>3. CASE net' # {}
    <3>1. PICK age \in net' : TRUE BY <2>3
    <3>2. age \in Nat BY <1>3, <2>1, <3>1
    <3>3. elapsed' <= age + MaxDelay + (HEARTBEAT_INTERVAL - 1) + length
      BY <1>3, <2>1, <3>2
    <3>   QED BY <1>3, <1>5, <2>1, <3>1, <3>3 DEF Heard
  <2>   QED BY <2>2, <2>3
<1>10. CASE EndPass
  <2>1. ~Expired BY <1>3, <1>6 DEF Expired
  <2>2. /\ player' = (player /\ ~Expired) /\ elapsed' = IF player' THEN elapsed ELSE 0
        /\ UNCHANGED <<beatAccum, frame, length, net>>
    BY <1>10 DEF EndPass, clientVars
  <2>3. player' /\ elapsed' = elapsed BY <1>5, <2>1, <2>2, Zenon
  <2>   QED BY <1>5, <2>2, <2>3 DEF Heard
<1>11. CASE Poll
  <2> DEFINE total == beatAccum + length
  <2>1. /\ frame = 0 /\ length' \in Frames /\ frame' = length' /\ elapsed' = elapsed
        /\ player' = player
        /\ IF total >= HEARTBEAT_INTERVAL
           THEN beatAccum' = total - HEARTBEAT_INTERVAL /\ net' = net \cup {0}
           ELSE beatAccum' = total /\ net' = net
    BY <1>11 DEF Poll, BeatAccumAfter
  <2>2. total \in Nat /\ length' \in Nat BY <1>3, <2>1
  <2>3. CASE \E age \in net : \E f \in Frames :
               elapsed <= age + MaxDelay + (HEARTBEAT_INTERVAL - 1) + f
    BY <1>5, <2>1, <2>3 DEF Heard
  <2>4. CASE /\ net = {}
             /\ elapsed <= MaxDelay + beatAccum + (length - frame)
             /\ elapsed <= MaxDelay + (HEARTBEAT_INTERVAL - 1) + (length - frame)
    <3>1. CASE total >= HEARTBEAT_INTERVAL
      <4>1. 0 \in net' BY <2>1, <3>1
      <4>2. elapsed' <= 0 + MaxDelay + (HEARTBEAT_INTERVAL - 1) + length
        BY <1>3, <2>1, <2>4
      <4>   QED BY <1>3, <1>5, <2>1, <4>1, <4>2 DEF Heard
    <3>2. CASE ~(total >= HEARTBEAT_INTERVAL)
      <4>1. net' = {} /\ beatAccum' = total /\ total <= HEARTBEAT_INTERVAL - 1
        BY <2>1, <2>2, <2>4, <3>2
      <4>2. length' - frame' = 0
        <5>1. length' \in Int /\ frame' = length' BY <2>1, <2>2
        <5>2. \A t \in Int : t - t = 0 OBVIOUS
        <5>   QED BY <5>1, <5>2
      <4>3. elapsed' <= MaxDelay + total BY <1>3, <2>1, <2>4
      <4>4. elapsed' \in Int BY <1>3, <2>1
      <4>5. player' BY <1>5, <2>1
      <4> HIDE DEF total
      <4>6. /\ elapsed' <= MaxDelay + beatAccum' + (length' - frame')
            /\ elapsed' <= MaxDelay + (HEARTBEAT_INTERVAL - 1) + (length' - frame')
        BY <2>2, <4>1, <4>2, <4>3, <4>4
      <4>   QED BY <4>1, <4>5, <4>6 DEF Heard
    <3>   QED BY <3>1, <3>2
  <2>   QED BY <1>5, <2>3, <2>4 DEF Heard
<1>12. CASE Gone BY <1>1, <1>12 DEF Gone
<1>13. CASE UNCHANGED vars BY <1>5, <1>13 DEF vars, clientVars, Heard
<1> QED BY <1>7, <1>8, <1>9, <1>10, <1>11, <1>12, <1>13 DEF Next

\* A client that plays on is not dropped, whatever the traffic of the others does to
\* the server's loop (net_client.cpp:118-125, server_main.cpp:237-253).
THEOREM TimingLiveIsKept ==
  ASSUME FramesShort
  PROVE  Spec => []LiveIsKept
<1>1. Init => LiveInv BY LiveInit
<1>2. NoDrift /\ LiveInv /\ [Next]_vars => LiveInv' BY LiveNext
<1>3. LiveInv => LiveIsKept BY DEF LiveInv, LiveIsKept
<1> QED BY <1>1, <1>2, <1>3, TimingNoDrift, PTL DEF Spec

---------------------------------------------------------------------------
(***************************************************************************)
(* The timeout.                                                            *)
(***************************************************************************)

\* What is still on its way left before the client did; so the server has counted for
\* all but MaxDelay of the time, and it has looked at the count when the pass began,
\* unless that was before everything else.
DropInv ==
  /\ silent # 0 => \A age \in net : age >= silent - 1
  /\ player => /\ silent <= elapsed + MaxDelay + 1
               /\ elapsed <= HEARTBEAT_TIMEOUT + since \/ silent <= since + 1

LEMMA DropInit == Init => DropInv
  BY TimesAssumption DEF Init, DropInv

LEMMA DropNext == NoDrift /\ DropInv /\ [Next]_vars => DropInv'
<1> SUFFICES ASSUME NoDrift, DropInv, [Next]_vars PROVE DropInv' OBVIOUS
<1> USE TimesAssumption
<1>1. TypeOK BY DEF NoDrift
<1>2. /\ net \subseteq 0 .. MaxDelay /\ since \in Nat /\ Horizon \in Nat
      /\ elapsed \in 0 .. Horizon /\ silent \in 0 .. Horizon /\ player \in BOOLEAN
  BY <1>1, HorizonType DEF TypeOK
<1>3. CASE Wait
  <2>1. /\ since' = since + 1 /\ net' = {age + 1 : age \in net} /\ player' = player
        /\ elapsed' = (IF player THEN Capped(elapsed) ELSE elapsed)
        /\ silent' = (IF silent = 0 THEN 0 ELSE Capped(silent))
    BY <1>3 DEF Wait
  <2>2. silent' \in 0 .. Horizon /\ silent' <= silent + 1 /\ (silent' # 0 => silent # 0)
    BY <1>2, <2>1, CappedGrows, CappedType
  <2>3. ASSUME silent' # 0, NEW age \in net' PROVE age >= silent' - 1
    <3>1. PICK a \in net : age = a + 1 BY <2>1, <2>3
    <3>2. a \in Nat /\ a >= silent - 1 BY <1>2, <2>2, <2>3 DEF DropInv
    <3>3. PICK s \in Int : s = silent' BY <2>2
    <3>4. s <= silent + 1 BY <2>2, <3>3
    <3>5. a + 1 >= s - 1 BY <1>2, <3>2, <3>4
    <3>   QED BY <3>1, <3>3, <3>5
  <2>4. ASSUME player'
        PROVE  /\ silent' <= elapsed' + MaxDelay + 1
               /\ elapsed' <= HEARTBEAT_TIMEOUT + since' \/ silent' <= since' + 1
    <3>1. player /\ elapsed' = Capped(elapsed) BY <2>1, <2>4
    <3>2. PICK s \in 0 .. Horizon : s = silent' BY <2>2
    <3>3. PICK e \in 0 .. Horizon : e = elapsed' BY <1>2, <3>1, CappedType
    <3>4. /\ s <= silent + 1 /\ e <= elapsed + 1
          /\ elapsed # Horizon => e = elapsed + 1
          /\ e >= elapsed
      BY <1>2, <2>2, <3>1, <3>2, <3>3, CappedGrows
    <3>5. /\ silent <= elapsed + MaxDelay + 1
          /\ elapsed <= HEARTBEAT_TIMEOUT + since \/ silent <= since + 1
      BY <3>1 DEF DropInv
    <3>6. s <= e + MaxDelay + 1 BY <1>2, <3>4, <3>5
    <3>7. e <= HEARTBEAT_TIMEOUT + (since + 1) \/ s <= (since + 1) + 1
      BY <1>2, <3>4, <3>5
    <3>   QED BY <2>1, <3>2, <3>3, <3>6, <3>7
  <2>   QED BY <2>3, <2>4 DEF DropInv
<1>4. CASE Serve BY <1>4 DEF Serve, DropInv
<1>5. CASE Receive
  <2>1. /\ player' = player /\ silent' = silent /\ since' = since /\ net' \subseteq net
        /\ net # {} /\ elapsed' = (IF player THEN 0 ELSE elapsed)
    BY <1>5 DEF Receive, loopVars
  <2>2. silent <= MaxDelay + 1
    <3>1. PICK age \in net : TRUE BY <2>1
    <3>2. age \in 0 .. MaxDelay /\ (silent # 0 => age >= silent - 1) BY <1>2, <3>1 DEF DropInv
    <3>   QED BY <1>2, <3>2
  <2>3. player' => /\ silent' <= elapsed' + MaxDelay + 1
                   /\ elapsed' <= HEARTBEAT_TIMEOUT + since'
    BY <1>2, <2>1, <2>2
  <2>   QED BY <2>1, <2>3 DEF DropInv
<1>6. CASE EndPass
  <2>1. /\ player' = (player /\ ~Expired) /\ elapsed' = IF player' THEN elapsed ELSE 0
        /\ since' = 0 /\ net' = net /\ silent' = silent
    BY <1>6 DEF EndPass, SinceLastPass
  <2>2. ASSUME player' PROVE player /\ ~Expired /\ elapsed' = elapsed
    BY <2>1, <2>2, Zenon
  <2>3. ASSUME player' PROVE elapsed' <= HEARTBEAT_TIMEOUT + since'
    BY <1>2, <2>1, <2>2, <2>3 DEF Expired
  <2>   QED BY <2>1, <2>2, <2>3 DEF DropInv
<1>7. CASE Poll BY <1>2, <1>7 DEF Poll, DropInv, loopVars
<1>8. CASE Gone
  <2>1. /\ silent' = 1 /\ since' = since /\ net' = net /\ elapsed' = elapsed
        /\ player' = player
    BY <1>8 DEF Gone, loopVars
  <2>2. \A age \in net : age >= 1 - 1 BY <1>2
  <2>   QED BY <1>2, <2>1, <2>2 DEF DropInv
<1>9. CASE UNCHANGED vars BY <1>9 DEF vars, loopVars, DropInv
<1> QED BY <1>3, <1>4, <1>5, <1>6, <1>7, <1>8, <1>9 DEF Next

\* A client that is gone is dropped by the first pass that ends after its time is up,
\* however long that pass is (server_main.cpp:237-253).
THEOREM TimingDropsAtPass ==
  Spec => [](player => silent <= HEARTBEAT_TIMEOUT + MaxDelay + since + 1)
<1>1. Init => DropInv BY DropInit
<1>2. NoDrift /\ DropInv /\ [Next]_vars => DropInv' BY DropNext
<1>3. NoDrift /\ DropInv => (player => silent <= HEARTBEAT_TIMEOUT + MaxDelay + since + 1)
  BY HorizonType, TimesAssumption DEF NoDrift, TypeOK, DropInv
<1> QED BY <1>1, <1>2, <1>3, TimingNoDrift, PTL DEF Spec

---------------------------------------------------------------------------
(***************************************************************************)
(* How long a pass takes, for a number C of snapshots of one player.       *)
(***************************************************************************)

\* Two snapshots of a player are at least so far apart.
Gap == INTERVAL - Jitter

\* The wait of the loop starts anew for every snapshot and for one heartbeat.
LongestPass(C) == WAIT * (Cardinality(Players) * C + 2)

\* What the loop's traffic must keep to: no player sends more than C snapshots during
\* a pass, were it as long as this, ...
FewSnapshots(C) == LongestPass(C) <= C * Gap

\* ... and no two heartbeats arrive.
SlowBeats(C) == \A f \in Frames : f + MaxDelay + LongestPass(C) < HEARTBEAT_INTERVAL

\* The snapshots of this pass, numbered for each player, if player p has sent s[p].
Sent(s, C) == {x \in Players \X (1 .. C) : x[2] <= s[x[1]]}

SpacedInv(s) == \A p \in Players : s[p] * Gap + 1 <= since + due[p]

\* What the pass has taken is paid for by the snapshots sent, less those not handled
\* yet, and r heartbeats.
PaidInv(s, r, C) == since + WAIT * pending <= WAIT * (Cardinality(Sent(s, C)) + r) + waited

\* While the pass has seen a heartbeat, or one is on its way, the next one is not near.
BeatInv(r) ==
  /\ \A a, b \in net : a = b
  /\ r = 1 => net = {}
  /\ silent = 0 =>
       /\ beatAccum < HEARTBEAT_INTERVAL
       /\ \A a \in net : \E f \in Frames : beatAccum + (length - frame) <= f + a
       /\ r = 1 => \E f \in Frames : beatAccum + (length - frame) <= f + MaxDelay + since

PassInv(C) ==
  /\ since <= LongestPass(C)
  /\ \E r \in 0 .. 1 : \E s \in [Players -> 0 .. C] :
       SpacedInv(s) /\ PaidInv(s, r, C) /\ BeatInv(r)

LEMMA GapType == Gap \in Nat \ {0}
  BY TimesAssumption DEF Gap

LEMMA LongestPassType ==
  ASSUME NEW C \in Nat
  PROVE  LongestPass(C) \in Nat \ {0}
<1> DEFINE m == Cardinality(Players) * C
<1>1. m \in Nat BY PlayersCount
<1> HIDE DEF m
<1>2. WAIT * (m + 2) \in Nat \ {0} BY <1>1, TimesAssumption
<1> QED BY <1>2 DEF LongestPass, m

\* No more snapshots are counted than can be sent.
LEMMA SentCount ==
  ASSUME NEW C \in Nat, NEW s \in [Players -> 0 .. C]
  PROVE  /\ IsFiniteSet(Sent(s, C)) /\ Cardinality(Sent(s, C)) \in Nat
         /\ Cardinality(Sent(s, C)) <= Cardinality(Players) * C
<1>1. IsFiniteSet(1 .. C) /\ Cardinality(1 .. C) = C
  BY FS_Interval
<1>2. /\ IsFiniteSet(Players \X (1 .. C))
      /\ Cardinality(Players \X (1 .. C)) = Cardinality(Players) * C
  BY <1>1, PlayersAssumption, FS_Product
<1>3. Sent(s, C) \in SUBSET (Players \X (1 .. C)) BY DEF Sent
<1> QED BY <1>2, <1>3, FS_Subset, FS_CardinalityType

\* One more snapshot of each player in S.
LEMMA SentGrows ==
  ASSUME NEW C \in Nat, NEW s \in [Players -> 0 .. C], NEW t \in [Players -> 0 .. C],
         NEW S \in SUBSET Players,
         \A p \in Players : t[p] = IF p \in S THEN s[p] + 1 ELSE s[p]
  PROVE  Cardinality(Sent(s, C)) + Cardinality(S) <= Cardinality(Sent(t, C))
<1> DEFINE f == [p \in S |-> <<p, t[p]>>]
           new == {<<p, t[p]>> : p \in S}
<1>1. IsFiniteSet(Sent(s, C)) /\ IsFiniteSet(Sent(t, C)) BY SentCount
<1>2. new \subseteq Sent(t, C)
  <2>1. ASSUME NEW p \in S PROVE <<p, t[p]>> \in Sent(t, C)
    <3>1. p \in Players /\ t[p] = s[p] + 1 /\ s[p] \in 0 .. C /\ t[p] \in 0 .. C OBVIOUS
    <3>2. t[p] \in 1 .. C /\ t[p] <= t[p] BY <3>1
    <3>   QED BY <3>1, <3>2 DEF Sent
  <2>   QED BY <2>1
<1>3. Sent(s, C) \subseteq Sent(t, C)
  <2>1. ASSUME NEW p \in Players, NEW i \in 1 .. C, i <= s[p] PROVE i <= t[p]
    <3>1. s[p] \in Int /\ (t[p] = s[p] + 1 \/ t[p] = s[p]) OBVIOUS
    <3>   QED BY <2>1, <3>1
  <2>   QED BY <2>1 DEF Sent
<1>4. new \cap Sent(s, C) = {}
  <2>1. ASSUME NEW p \in S PROVE <<p, t[p]>> \notin Sent(s, C)
    <3>1. p \in Players /\ t[p] = s[p] + 1 /\ s[p] \in Int OBVIOUS
    <3>2. ~ (t[p] <= s[p]) BY <3>1
    <3>   QED BY <3>2 DEF Sent
  <2>   QED BY <2>1
<1>5. IsFiniteSet(new) /\ Cardinality(S) <= Cardinality(new)
  <2>1. IsFiniteSet(new) BY <1>1, <1>2, FS_Subset
  <2>2. f \in [S -> new] OBVIOUS
  <2>3. \A p, q \in S : f[p] = f[q] => p = q OBVIOUS
  <2>4. IsInjective(f) BY <2>3 DEF IsInjective
  <2>5. f \in Injection(S, new) BY <2>2, <2>4 DEF Injection
  <2>   QED BY <2>1, <2>5, FS_Injection
<1>6. /\ IsFiniteSet(Sent(s, C) \cup new)
      /\ Cardinality(Sent(s, C) \cup new) = Cardinality(Sent(s, C)) + Cardinality(new)
  <2>1. Sent(s, C) \cap new = {} BY <1>4
  <2>2. Cardinality(Sent(s, C)) \in Nat /\ Cardinality(new) \in Nat
    BY <1>1, <1>5, FS_CardinalityType
  <2>3. Cardinality(Sent(s, C) \cap new) = 0 BY <2>1, FS_EmptySet
  <2> HIDE DEF new
  <2>4. /\ IsFiniteSet(Sent(s, C) \cup new)
        /\ Cardinality(Sent(s, C) \cup new) =
             Cardinality(Sent(s, C)) + Cardinality(new) - Cardinality(Sent(s, C) \cap new)
    BY <1>1, <1>5, FS_Union
  <2>   QED BY <2>2, <2>3, <2>4
<1>7. Cardinality(Sent(s, C) \cup new) <= Cardinality(Sent(t, C))
  <2>1. Sent(s, C) \cup new \in SUBSET Sent(t, C) BY <1>2, <1>3
  <2>   QED BY <1>1, <2>1, FS_Subset
<1>8. IsFiniteSet(S) BY PlayersAssumption, FS_Subset
<1>9. /\ Cardinality(Sent(s, C)) \in Nat /\ Cardinality(new) \in Nat
      /\ Cardinality(Sent(t, C)) \in Nat /\ Cardinality(S) \in Nat
  BY <1>1, <1>5, <1>8, FS_CardinalityType
<1> QED BY <1>5, <1>6, <1>7, <1>9

\* Multiplication, where the provers need to be told.
LEMMA OneMore ==
  ASSUME NEW n \in Int, NEW k \in Nat
  PROVE  (n + 1) * k = n * k + k /\ k * (n + 1) = k * n + k
  BY Z3

LEMMA PlusTimes ==
  ASSUME NEW k \in Nat, NEW a \in Nat, NEW b \in Nat
  PROVE  k * (a + b) = k * a + k * b /\ k * a \in Nat
  BY Z3

LEMMA TimesGrows ==
  ASSUME NEW k \in Nat, NEW a \in Nat, NEW b \in Nat, a <= b
  PROVE  k * a <= k * b
<1>1. PICK d \in Nat : b = a + d BY Z3
<1> QED BY <1>1, PlusTimes

LEMMA PassInit ==
  ASSUME NEW C \in Nat, Init
  PROVE  PassInv(C)
<1> DEFINE none == [p \in Players |-> 0]
<1> USE TimesAssumption
<1>1. none \in [Players -> 0 .. C] OBVIOUS
<1>2. SpacedInv(none) BY GapType DEF Init, SpacedInv
<1>3. PaidInv(none, 0, C)
  <2>1. WAIT * Cardinality(Sent(none, C)) \in Nat BY <1>1, SentCount, PlusTimes
  <2>   QED BY <2>1, <1>1, SentCount DEF Init, PaidInv
<1>4. BeatInv(0) BY DEF Init, BeatInv
<1>5. since <= LongestPass(C) BY LongestPassType DEF Init
<1> HIDE DEF none
<1> QED BY <1>1, <1>2, <1>3, <1>4, <1>5 DEF PassInv

LEMMA PassWait ==
  ASSUME NEW C \in Nat, FewSnapshots(C), NoDrift, PassInv(C), Wait
  PROVE  PassInv(C)'
<1> USE TimesAssumption
<1>1. PICK r \in 0 .. 1, s \in [Players -> 0 .. C] :
        SpacedInv(s) /\ PaidInv(s, r, C) /\ BeatInv(r)
  BY DEF PassInv
<1>2. /\ since \in Nat /\ waited \in 0 .. WAIT /\ due \in [Players -> 1 .. INTERVAL + Jitter]
      /\ net \subseteq 0 .. MaxDelay /\ beatAccum \in Int /\ length \in Int /\ frame \in Int
      /\ silent \in 0 .. Horizon
  BY MaxAccumAssumption DEF NoDrift, TypeOK
<1> DEFINE S == {p \in Players : due[p] = 1}
<1>3. PICK shift \in [Players -> -Jitter .. Jitter] :
        due' = [p \in Players |-> IF due[p] = 1 THEN INTERVAL + shift[p] ELSE due[p] - 1]
  BY DEF Wait
<1>4. /\ pending = 0 /\ waited < WAIT /\ waited' = waited + 1 /\ since' = since + 1
      /\ pending' = Cardinality(S) /\ net' = {age + 1 : age \in net}
      /\ frame' = (IF silent = 0 THEN frame - 1 ELSE frame)
      /\ silent' = (IF silent = 0 THEN 0 ELSE Capped(silent))
      /\ UNCHANGED <<beatAccum, length>>
  BY DEF Wait
<1>5. Cardinality(S) \in Nat /\ S \in SUBSET Players BY SendersCount, PlayersCount
<1> DEFINE n == Cardinality(Sent(s, C))
<1>6. /\ n \in Nat /\ n <= Cardinality(Players) * C /\ Cardinality(Players) * C \in Nat
  BY SentCount, PlayersCount
<1>7. since' <= LongestPass(C)
  <2> DEFINE all == Cardinality(Players) * C
  <2>1. n + r \in Nat /\ all + 1 \in Nat /\ n + r <= all + 1 BY <1>6
  <2>2. WAIT * (n + r) <= WAIT * (all + 1) BY <2>1, TimesGrows
  <2>3. WAIT * (all + 2) = WAIT * (all + 1) + WAIT /\ WAIT * (all + 1) \in Nat
    <3>1. (all + 1) + 1 = all + 2 BY <1>6
    <3>   QED BY <1>6, <2>1, <3>1, OneMore, PlusTimes
  <2>4. since + WAIT * pending <= WAIT * (n + r) + waited BY <1>1 DEF PaidInv
  <2>5. WAIT * (n + r) \in Nat BY <2>1, PlusTimes
  <2>6. LongestPass(C) = WAIT * (all + 2) BY DEF LongestPass
  <2> HIDE DEF n, all
  <2>7. WAIT * pending = 0 BY <1>4
  <2>8. since + 1 <= WAIT * (all + 2) BY <1>2, <1>4, <2>2, <2>3, <2>4, <2>5, <2>7
  <2>   QED BY <1>4, <2>6, <2>8
<1>8. since < C * Gap
  <2>1. C * Gap \in Nat /\ LongestPass(C) \in Nat BY GapType, LongestPassType
  <2>2. since + 1 <= LongestPass(C) BY <1>4, <1>7
  <2>   QED BY <1>2, <2>1, <2>2 DEF FewSnapshots
<1>9. ASSUME NEW p \in Players, NEW k \in Int, k = IF p \in S THEN s[p] + 1 ELSE s[p]
      PROVE  k \in 0 .. C /\ k * Gap + 1 <= (since + 1) + due'[p]
  <2>1. s[p] \in 0 .. C /\ due[p] \in Nat BY <1>2
  <2>2. s[p] * Gap + 1 <= since + due[p] BY <1>1 DEF SpacedInv
  <2>3. s[p] * Gap \in Int /\ C * Gap \in Int BY <2>1, GapType
  <2>4. CASE p \in S
    <3>1. s[p] * Gap <= since BY <1>2, <2>1, <2>2, <2>3, <2>4
    <3>2. s[p] # C BY <1>2, <1>8, <2>3, <3>1
    <3>3. due'[p] >= Gap /\ due'[p] \in Int
      <4>1. shift[p] \in -Jitter .. Jitter /\ due'[p] = INTERVAL + shift[p]
        BY <1>3, <2>4
      <4>   QED BY <4>1 DEF Gap
    <3>4. (s[p] + 1) * Gap = s[p] * Gap + Gap BY <2>1, GapType, OneMore
    <3>5. k = s[p] + 1 BY <1>9, <2>4
    <3>6. s[p] + 1 \in 0 .. C BY <2>1, <3>2
    <3> PICK d \in Int : d = due'[p] /\ d >= Gap BY <3>3
    <3>7. (s[p] + 1) * Gap + 1 <= (since + 1) + d BY <1>2, <2>3, <3>1, <3>4, GapType
    <3>   QED BY <2>4, <3>5, <3>6, <3>7
  <2>5. CASE p \notin S
    <3>1. due'[p] = due[p] - 1 /\ k = s[p] BY <1>3, <1>9, <2>5
    <3>2. s[p] * Gap + 1 <= (since + 1) + (due[p] - 1) BY <1>2, <2>1, <2>2, <2>3
    <3>   QED BY <2>1, <2>5, <3>1, <3>2
  <2>   QED BY <2>4, <2>5
<1>10. PICK t \in [Players -> 0 .. C] :
         \A p \in Players : t[p] = IF p \in S THEN s[p] + 1 ELSE s[p]
  <2> DEFINE u == [p \in Players |-> IF p \in S THEN s[p] + 1 ELSE s[p]]
  <2>1. ASSUME NEW p \in Players PROVE u[p] \in 0 .. C
    <3>1. s[p] \in Int /\ u[p] = IF p \in S THEN s[p] + 1 ELSE s[p] OBVIOUS
    <3>2. u[p] \in Int BY <3>1
    <3>   QED BY <1>9, <3>1, <3>2
  <2>2. u \in [Players -> 0 .. C] BY <2>1
  <2>   QED BY <2>2
<1>11. SpacedInv(t)'
  <2>1. \A p \in Players : t[p] \in Int /\ t[p] = IF p \in S THEN s[p] + 1 ELSE s[p]
    BY <1>10
  <2> HIDE DEF S
  <2>2. \A p \in Players : t[p] * Gap + 1 <= (since + 1) + due'[p] BY <1>9, <2>1
  <2>   QED BY <1>4, <2>2 DEF SpacedInv
<1>12. PaidInv(t, r, C)'
  <2> DEFINE m == Cardinality(Sent(t, C))
  <2>1. m \in Nat BY <1>10, SentCount
  <2>2. n + Cardinality(S) <= m
    <3> HIDE DEF S
    <3>   QED BY <1>5, <1>10, SentGrows
  <2>3. since + WAIT * pending <= WAIT * (n + r) + waited BY <1>1 DEF PaidInv
  <2>4. PICK c \in Nat : c = Cardinality(S) BY <1>5
  <2>5. pending' = c BY <1>4, <2>4
  <2> HIDE DEF n, m, S
  <2>6. WAIT * (m + r) >= WAIT * ((n + r) + c)
    <3>1. (n + r) + c \in Nat /\ m + r \in Nat /\ (n + r) + c <= m + r
      BY <1>6, <2>1, <2>2, <2>4
    <3>   QED BY <3>1, TimesGrows
  <2>7. /\ WAIT * ((n + r) + c) = WAIT * (n + r) + WAIT * c
        /\ WAIT * (n + r) \in Nat /\ WAIT * c \in Nat /\ WAIT * (m + r) \in Nat
    <3>1. n + r \in Nat /\ m + r \in Nat BY <1>6, <2>1
    <3>   QED BY <2>4, <3>1, PlusTimes
  <2>8. WAIT * pending = 0 BY <1>4
  <2>9. (since + 1) + WAIT * c <= WAIT * (m + r) + (waited + 1)
    BY <1>2, <2>3, <2>6, <2>7, <2>8
  <2>   QED BY <1>4, <2>5, <2>9 DEF PaidInv, m
<1>13. BeatInv(r)'
  <2>1. \A a, b \in net' : a = b BY <1>1, <1>4 DEF BeatInv
  <2>2. r = 1 => net' = {} BY <1>1, <1>4 DEF BeatInv
  <2>3. ASSUME silent' = 0
        PROVE  /\ beatAccum' < HEARTBEAT_INTERVAL
               /\ \A a \in net' : \E f \in Frames : beatAccum' + (length' - frame') <= f + a
               /\ r = 1 => \E f \in Frames :
                             beatAccum' + (length' - frame') <= f + MaxDelay + since'
    <3>1. silent = 0 BY <1>2, <1>4, <2>3, CappedGrows
    <3>2. frame' = frame - 1 BY <1>4, <3>1
    <3>3. ASSUME NEW a \in net' PROVE \E f \in Frames : beatAccum + (length - (frame - 1)) <= f + a
      <4>1. PICK b \in net : a = b + 1 BY <1>4, <3>3
      <4>2. PICK f \in Frames : beatAccum + (length - frame) <= f + b
        BY <1>1, <3>1, <4>1 DEF BeatInv
      <4>   QED BY <1>2, <4>1, <4>2
    <3>4. ASSUME r = 1
          PROVE  \E f \in Frames : beatAccum + (length - (frame - 1)) <= f + MaxDelay + (since + 1)
      <4>1. PICK f \in Frames : beatAccum + (length - frame) <= f + MaxDelay + since
        BY <1>1, <3>1, <3>4 DEF BeatInv
      <4>   QED BY <1>2, <4>1
    <3>5. beatAccum < HEARTBEAT_INTERVAL BY <1>1, <3>1 DEF BeatInv
    <3>   QED BY <1>4, <3>2, <3>3, <3>4, <3>5
  <2>   QED BY <2>1, <2>2, <2>3 DEF BeatInv
<1> QED BY <1>7, <1>10, <1>11, <1>12, <1>13 DEF PassInv

LEMMA PassServe ==
  ASSUME NEW C \in Nat, NoDrift, PassInv(C), Serve
  PROVE  PassInv(C)'
<1> USE TimesAssumption
<1>1. PICK r \in 0 .. 1, s \in [Players -> 0 .. C] :
        SpacedInv(s) /\ PaidInv(s, r, C) /\ BeatInv(r)
  BY DEF PassInv
<1>2. /\ since \in Nat /\ waited \in 0 .. WAIT /\ pending \in Nat /\ pending > 0
      /\ pending' = pending - 1 /\ waited' = 0
      /\ UNCHANGED <<due, since, beatAccum, frame, length, net, silent>>
  BY PlayersCount DEF NoDrift, TypeOK, Serve, clientVars
<1>3. SpacedInv(s)' BY <1>1, <1>2 DEF SpacedInv
<1>4. PaidInv(s, r, C)'
  <2>1. PICK n \in Nat : n = Cardinality(Sent(s, C)) BY SentCount
  <2>2. PICK k \in Nat : pending = k + 1
    <3>1. pending - 1 \in Nat /\ pending = (pending - 1) + 1 BY <1>2
    <3>   QED BY <3>1
  <2>3. since + WAIT * pending <= WAIT * (n + r) + waited BY <1>1, <2>1 DEF PaidInv
  <2>4. WAIT * (k + 1) = WAIT * k + WAIT BY OneMore
  <2>5. WAIT * (n + r) \in Nat /\ WAIT * k \in Nat
    <3>1. n + r \in Nat OBVIOUS
    <3>   QED BY <3>1, PlusTimes
  <2>6. since + WAIT * k <= WAIT * (n + r) + 0 BY <1>2, <2>2, <2>3, <2>4, <2>5
  <2>7. pending' = k BY <1>2, <2>2
  <2>   QED BY <1>2, <2>1, <2>6, <2>7 DEF PaidInv
<1>5. BeatInv(r)' BY <1>1, <1>2 DEF BeatInv
<1>6. since' <= LongestPass(C) BY <1>2 DEF PassInv
<1> QED BY <1>3, <1>4, <1>5, <1>6 DEF PassInv

LEMMA PassReceive ==
  ASSUME NEW C \in Nat, NoDrift, PassInv(C), Receive
  PROVE  PassInv(C)'
<1> USE TimesAssumption
<1>1. PICK r \in 0 .. 1, s \in [Players -> 0 .. C] :
        SpacedInv(s) /\ PaidInv(s, r, C) /\ BeatInv(r)
  BY DEF PassInv
<1>2. PICK a \in net : TRUE BY DEF Receive
<1>3. net' = {}
  <2>1. net = {a} BY <1>1, <1>2 DEF BeatInv
  <2>2. PICK oldest : oldest = (CHOOSE x \in net : \A y \in net : y <= x) /\ net' = net \ {oldest}
    BY DEF Receive
  <2>3. a <= a BY <1>2 DEF NoDrift, TypeOK
  <2>4. oldest \in net BY <2>1, <2>2, <2>3
  <2>   QED BY <2>1, <2>2, <2>4
<1>4. r = 0 BY <1>1, <1>2 DEF BeatInv
<1>5. /\ since \in Nat /\ waited \in 0 .. WAIT /\ pending \in Nat /\ a \in 0 .. MaxDelay
      /\ beatAccum \in Int /\ length \in Int /\ frame \in Int
  BY <1>2, PlayersCount, MaxAccumAssumption DEF NoDrift, TypeOK
<1>6. /\ waited' = 0
      /\ UNCHANGED <<due, pending, since, beatAccum, frame, length, silent>>
  BY DEF Receive, loopVars, clientVars
<1>7. SpacedInv(s)' BY <1>1, <1>6 DEF SpacedInv
<1>8. PaidInv(s, 1, C)'
  <2>1. PICK n \in Nat : n = Cardinality(Sent(s, C)) BY SentCount
  <2>2. since + WAIT * pending <= WAIT * n + waited
    <3>1. n + 0 = n OBVIOUS
    <3>   QED BY <1>1, <1>4, <2>1, <3>1 DEF PaidInv
  <2>3. WAIT * (n + 1) = WAIT * n + WAIT BY OneMore
  <2>4. WAIT * n \in Nat /\ WAIT * pending \in Nat BY <1>5, <2>1, PlusTimes
  <2>5. since + WAIT * pending <= WAIT * (n + 1) + 0 BY <1>5, <2>2, <2>3, <2>4
  <2>   QED BY <1>6, <2>1, <2>5 DEF PaidInv
<1>9. BeatInv(1)'
  <2>1. ASSUME silent = 0
        PROVE  /\ beatAccum < HEARTBEAT_INTERVAL
               /\ \E f \in Frames : beatAccum + (length - frame) <= f + MaxDelay + since
    <3>1. PICK f \in Frames : beatAccum + (length - frame) <= f + a
      BY <1>1, <1>2, <2>1 DEF BeatInv
    <3>2. beatAccum + (length - frame) <= f + MaxDelay + since BY <1>5, <3>1
    <3>   QED BY <1>1, <2>1, <3>2 DEF BeatInv
  <2>   QED BY <1>3, <1>6, <2>1 DEF BeatInv
<1>10. since' <= LongestPass(C) BY <1>6 DEF PassInv
<1> QED BY <1>7, <1>8, <1>9, <1>10 DEF PassInv

\* The next pass starts with nothing sent and no heartbeat.
LEMMA PassEnd ==
  ASSUME NEW C \in Nat, NoDrift, PassInv(C), EndPass
  PROVE  PassInv(C)'
<1> DEFINE none == [p \in Players |-> 0]
<1> USE TimesAssumption
<1>1. PICK r \in 0 .. 1 : BeatInv(r) BY DEF PassInv
<1>2. /\ due \in [Players -> 1 .. INTERVAL + Jitter]
      /\ since' = 0 /\ pending = 0 /\ waited' = 0
      /\ UNCHANGED <<due, pending, beatAccum, frame, length, net, silent>>
  BY DEF NoDrift, TypeOK, EndPass, clientVars, SinceLastPass
<1>3. none \in [Players -> 0 .. C] OBVIOUS
<1>4. SpacedInv(none)' BY <1>2, GapType DEF SpacedInv
<1>5. PaidInv(none, 0, C)'
  <2>1. PICK n \in Nat : n = Cardinality(Sent(none, C)) BY <1>3, SentCount
  <2>2. WAIT * n \in Nat BY PlusTimes
  <2>3. 0 + WAIT * 0 <= WAIT * (n + 0) + 0 BY <2>2
  <2>   QED BY <1>2, <2>1, <2>3 DEF PaidInv
<1>6. BeatInv(0)' BY <1>1, <1>2 DEF BeatInv
<1>7. since' <= LongestPass(C) BY <1>2, LongestPassType
<1> HIDE DEF none
<1> QED BY <1>3, <1>4, <1>5, <1>6, <1>7 DEF PassInv

\* The next heartbeat is sent in another pass.
LEMMA PassPoll ==
  ASSUME NEW C \in Nat, SlowBeats(C), NoDrift, PassInv(C), Poll
  PROVE  PassInv(C)'
<1> USE TimesAssumption
<1>1. PICK r \in 0 .. 1, s \in [Players -> 0 .. C] :
        SpacedInv(s) /\ PaidInv(s, r, C) /\ BeatInv(r)
  BY DEF PassInv
<1>2. /\ beatAccum \in Nat /\ length \in Frames /\ length \in Nat /\ net \subseteq 0 .. MaxDelay
      /\ since \in Nat /\ since <= LongestPass(C) /\ silent = 0 /\ frame = 0
  BY MaxAccumAssumption DEF NoDrift, TypeOK, Poll, PassInv
<1>3. /\ beatAccum < HEARTBEAT_INTERVAL
      /\ \A a \in net : \E f \in Frames : beatAccum + (length - frame) <= f + a
      /\ r = 1 => \E f \in Frames : beatAccum + (length - frame) <= f + MaxDelay + since
  BY <1>1, <1>2 DEF BeatInv
<1>4. \A f \in Frames : f \in Nat /\ f + MaxDelay + LongestPass(C) < HEARTBEAT_INTERVAL
  BY DEF SlowBeats
<1>5. PICK total \in Nat : total = beatAccum + length BY <1>2
<1>6. beatAccum + (length - frame) = total BY <1>2, <1>5
<1>7. LongestPass(C) \in Nat BY LongestPassType
<1>8. UNCHANGED <<due, pending, waited, since, silent>> /\ length' \in Frames /\ frame' = length'
  BY DEF Poll, loopVars
<1>9. length' - frame' = 0
  <2>1. length' \in Int BY <1>4, <1>8
  <2>2. \A t \in Int : t - t = 0 OBVIOUS
  <2>   QED BY <1>8, <2>1, <2>2
<1>10. BeatInv(r)'
  <2>1. CASE total >= HEARTBEAT_INTERVAL
    <3>1. net = {}
      <4>1. SUFFICES ASSUME NEW a \in net PROVE FALSE OBVIOUS
      <4>2. PICK f \in Frames : total <= f + a BY <1>3, <1>6
      <4>3. a \in 0 .. MaxDelay /\ f \in Nat /\ f + MaxDelay + LongestPass(C) < HEARTBEAT_INTERVAL
        BY <1>2, <1>4
      <4>   QED BY <1>7, <2>1, <4>2, <4>3
    <3>2. r # 1
      <4>1. SUFFICES ASSUME r = 1 PROVE FALSE OBVIOUS
      <4>2. PICK f \in Frames : total <= f + MaxDelay + since BY <1>3, <1>6, <4>1
      <4>3. f \in Nat /\ f + MaxDelay + LongestPass(C) < HEARTBEAT_INTERVAL BY <1>4
      <4>   QED BY <1>2, <1>7, <2>1, <4>2, <4>3
    <3>3. beatAccum' = total - HEARTBEAT_INTERVAL /\ net' = {0}
      BY <1>5, <2>1, <3>1 DEF Poll, BeatAccumAfter
    <3>4. PICK b \in Nat : b = total - HEARTBEAT_INTERVAL BY <2>1
    <3>5. b < HEARTBEAT_INTERVAL /\ b + 0 <= length + 0
      <4>1. length < HEARTBEAT_INTERVAL BY <1>2, <1>4, <1>7
      <4>   QED BY <1>2, <1>3, <1>5, <3>4, <4>1
    <3>   QED BY <1>2, <1>8, <1>9, <3>2, <3>3, <3>4, <3>5 DEF BeatInv
  <2>2. CASE ~(total >= HEARTBEAT_INTERVAL)
    <3>1. beatAccum' = total /\ net' = net BY <1>5, <2>2 DEF Poll
    <3>2. total < HEARTBEAT_INTERVAL /\ total + 0 = total BY <2>2
    <3>   QED BY <1>1, <1>3, <1>6, <1>8, <1>9, <3>1, <3>2 DEF BeatInv
  <2>   QED BY <2>1, <2>2
<1>11. SpacedInv(s)' /\ PaidInv(s, r, C)' BY <1>1, <1>8 DEF SpacedInv, PaidInv
<1>12. since' <= LongestPass(C) BY <1>2, <1>8
<1> QED BY <1>10, <1>11, <1>12 DEF PassInv

LEMMA PassNext ==
  ASSUME NEW C \in Nat, FewSnapshots(C), SlowBeats(C), NoDrift, PassInv(C), [Next]_vars
  PROVE  PassInv(C)'
<1>1. CASE Wait BY <1>1, PassWait
<1>2. CASE Serve BY <1>2, PassServe
<1>3. CASE Receive BY <1>3, PassReceive
<1>4. CASE EndPass BY <1>4, PassEnd
<1>5. CASE Poll BY <1>5, PassPoll
<1>6. CASE Gone \/ UNCHANGED vars
  <2>1. PICK r \in 0 .. 1, s \in [Players -> 0 .. C] :
          SpacedInv(s) /\ PaidInv(s, r, C) /\ BeatInv(r)
    BY DEF PassInv
  <2>2. UNCHANGED <<due, pending, waited, since, net>>
    BY <1>6 DEF Gone, loopVars, vars
  <2>3. SpacedInv(s)' /\ PaidInv(s, r, C)' BY <2>1, <2>2 DEF SpacedInv, PaidInv
  <2>4. BeatInv(r)'
    <3>1. CASE Gone
      <4>1. silent' # 0 BY <3>1 DEF Gone
      <4>   QED BY <2>1, <2>2, <4>1 DEF BeatInv
    <3>2. CASE UNCHANGED vars BY <2>1, <3>2 DEF BeatInv, vars, loopVars, clientVars
    <3>   QED BY <1>6, <3>1, <3>2
  <2>5. since' <= LongestPass(C) BY <2>2 DEF PassInv
  <2>   QED BY <2>3, <2>4, <2>5 DEF PassInv
<1> QED BY <1>1, <1>2, <1>3, <1>4, <1>5, <1>6 DEF Next

\* The inner loop finds its pauses: a pass ends within the longest time that C
\* snapshots of every player can keep it going (server_main.cpp:258-332).
THEOREM TimingPassesEnd ==
  ASSUME NEW C \in Nat, FewSnapshots(C), SlowBeats(C)
  PROVE  Spec => [](since <= LongestPass(C))
<1>1. Init => PassInv(C) BY PassInit
<1>2. NoDrift /\ PassInv(C) /\ [Next]_vars => PassInv(C)' BY PassNext
<1>3. PassInv(C) => since <= LongestPass(C) BY DEF PassInv
<1> QED BY <1>1, <1>2, <1>3, TimingNoDrift, PTL DEF Spec

\* The broadcasts do not fall behind, if a pass is no longer than four intervals
\* (server_main.cpp:336-343).
THEOREM TimingRateKept ==
  ASSUME NEW C \in Nat, FewSnapshots(C), SlowBeats(C), LongestPass(C) <= 4 * INTERVAL
  PROVE  Spec => []RateKept
<1>1. NoDrift /\ since <= LongestPass(C) => RateKept
  BY TimesAssumption, LongestPassType DEF NoDrift, TypeOK, RateKept
<1>2. Spec => [](since <= LongestPass(C)) BY TimingPassesEnd
<1> QED BY <1>1, <1>2, TimingNoDrift, PTL

\* A client that is gone is dropped in time, if a pass is shorter than two intervals
\* (server_main.cpp:237-253).
THEOREM TimingDroppedInTime ==
  ASSUME NEW C \in Nat, FewSnapshots(C), SlowBeats(C), LongestPass(C) < 2 * INTERVAL
  PROVE  Spec => []DroppedInTime
<1>1. /\ NoDrift /\ since <= LongestPass(C)
      /\ player => silent <= HEARTBEAT_TIMEOUT + MaxDelay + since + 1
      => DroppedInTime
  BY TimesAssumption, LongestPassType, HorizonType DEF NoDrift, TypeOK, DroppedInTime
<1>2. Spec => [](since <= LongestPass(C)) BY TimingPassesEnd
<1> QED BY <1>1, <1>2, TimingNoDrift, TimingDropsAtPass, PTL
=============================================================================
