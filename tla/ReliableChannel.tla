-------------------------- MODULE ReliableChannel --------------------------
(***************************************************************************)
(* One direction of one channel of an ENet connection: how the vendored    *)
(* ENet (enet/peer.c, enet/protocol.c) carries packets sent with           *)
(* ENET_PACKET_FLAG_RELIABLE over UDP, which loses, repeats and reorders   *)
(* datagrams.                                                              *)
(*                                                                         *)
(* Packets are numbered 1, 2, ... in the order they are sent; on the wire  *)
(* number i is the sequence number i modulo 2^16.  What both ends compare  *)
(* are sequence numbers and the windows they fall into.  Packets are       *)
(* shorter than the MTU, so that none is split.  The byte limit on data in *)
(* transit only delays a transmission, which may happen at any time here.  *)
(* The end of the connection after too many timeouts is in EnetConnection. *)
(***************************************************************************)
EXTENDS Naturals, Sequences, FiniteSets, SequencesExt

CONSTANTS
  WINDOWS,       \* ENET_PEER_RELIABLE_WINDOWS (16)
  WINDOW_SIZE,   \* ENET_PEER_RELIABLE_WINDOW_SIZE (0x1000)
  FREE_WINDOWS,  \* ENET_PEER_FREE_RELIABLE_WINDOWS (8)
  MaxLag,        \* how many packets later than its own a datagram may still arrive
  MaxSent,       \* bound: packets sent
  MaxQueued      \* bound: packets waiting for their first transmission

ASSUME WindowsAssumption ==
  /\ WINDOWS \in Nat /\ WINDOW_SIZE \in Nat \ {0} /\ FREE_WINDOWS \in Nat
  /\ FREE_WINDOWS > 2 /\ WINDOWS = 2 * FREE_WINDOWS

ASSUME BoundsAssumption == MaxSent \in Nat /\ MaxQueued \in Nat

\* A datagram that is overtaken by more packets than the free windows hold, and by one
\* window more, is taken for one yet to come.  It is up to the network that there is none.
ASSUME LagAssumption ==
  /\ MaxLag \in Nat
  /\ MaxLag <= (FREE_WINDOWS + 1) * WINDOW_SIZE

VARIABLES
  sent,             \* packets sent; modulo 2^16 outgoingReliableSequenceNumber
  outgoing,         \* outgoingSendReliableCommands
  inTransit,        \* sentReliableCommands
  tried,            \* the unacknowledged packets with sendAttempts > 0
  reliableWindows,  \* ENetChannel.reliableWindows
  net,              \* datagrams with a packet
  acks,             \* datagrams with an acknowledgement
  incoming,         \* ENetChannel.incomingReliableSequenceNumber
  queue,            \* ENetChannel.incomingReliableCommands, sorted by sequence number
  delivered         \* all that went to dispatchedCommands

vars == <<sent, outgoing, inTransit, tried, reliableWindows, net, acks,
          incoming, queue, delivered>>
senderVars == <<sent, outgoing, inTransit, tried, reliableWindows>>
receiverVars == <<incoming, queue, delivered>>

Packets == 1 .. MaxSent

SequenceNumber(i) == i % (WINDOWS * WINDOW_SIZE)

Window(seq) == seq \div WINDOW_SIZE

TypeOK ==
  /\ sent \in 0 .. MaxSent
  /\ outgoing \in Seq(Packets) /\ inTransit \in Seq(Packets)
  /\ tried \subseteq Packets
  /\ reliableWindows \in [0 .. WINDOWS - 1 -> Nat]
  /\ net \subseteq Packets /\ acks \subseteq Packets
  /\ incoming \in 0 .. WINDOWS * WINDOW_SIZE - 1
  /\ queue \subseteq Packets
  /\ delivered \in Seq(Packets)

Init ==
  /\ sent = 0
  /\ outgoing = <<>> /\ inTransit = <<>>
  /\ tried = {}
  /\ reliableWindows = [w \in 0 .. WINDOWS - 1 |-> 0]
  /\ net = {} /\ acks = {}
  /\ incoming = 0
  /\ queue = {}
  /\ delivered = <<>>

---------------------------------------------------------------------------
(* The sender.                                                             *)

Send ==
  /\ sent < MaxSent /\ Cardinality(ToSet(outgoing) \ tried) < MaxQueued
  /\ sent' = sent + 1
  /\ outgoing' = Append(outgoing, sent + 1)
  /\ UNCHANGED <<inTransit, tried, reliableWindows, net, acks, receiverVars>>

\* Before the first packet of a window is sent, the window before must have been
\* acknowledged in part and the ones from here to FREE_WINDOWS + 1 on completely:
\* usedReliableWindows has the windows with a count above zero.
WindowWrap(i) ==
  LET w == Window(SequenceNumber(i))
  IN  /\ i \notin tried
      /\ SequenceNumber(i) % WINDOW_SIZE = 0
      /\ \/ reliableWindows[(w + WINDOWS - 1) % WINDOWS] >= WINDOW_SIZE
         \/ \E k \in 0 .. FREE_WINDOWS + 1 : reliableWindows[(w + k) % WINDOWS] > 0

\* The network does not keep a datagram while more than MaxLag packets are sent.
Fresh(datagrams, i) == {j \in datagrams : j + MaxLag >= i}

\* A packet that has to wait holds up the ones behind it.
Transmit ==
  /\ outgoing # <<>>
  /\ LET i == Head(outgoing)
         w == Window(SequenceNumber(i))
     IN  /\ ~WindowWrap(i)
         /\ outgoing' = Tail(outgoing)
         /\ inTransit' = Append(inTransit, i)
         /\ tried' = tried \cup {i}
         /\ reliableWindows' = [reliableWindows EXCEPT ![w] = IF i \in tried THEN @ ELSE @ + 1]
         /\ net' = Fresh(net, i) \cup {i}
         /\ acks' = Fresh(acks, i)
  /\ UNCHANGED <<sent, receiverVars>>

\* What s has at the positions in K, in that order.
Pick(s, K) ==
  [n \in 1 .. Cardinality(K) |->
     s[CHOOSE k \in K : Cardinality({j \in K : j < k}) = n - 1]]

\* The round trip timeouts of the packets at some positions have passed: they go back to
\* the front of the queue, in the order in which they were sent.
CheckTimeouts(expired) ==
  /\ expired # {}
  /\ outgoing' = Pick(inTransit, expired) \o outgoing
  /\ inTransit' = Pick(inTransit, DOMAIN inTransit \ expired)
  /\ UNCHANGED <<sent, tried, reliableWindows, net, acks, receiverVars>>

\* Where in s the packet with the sequence number seq is: there is never more than one.
Matches(s, seq) == {k \in DOMAIN s : SequenceNumber(s[k]) = seq /\ s[k] \in tried}

\* Packet i needs no further transmission.
Settle(i) ==
  LET w == Window(SequenceNumber(i))
  IN  /\ tried' = tried \ {i}
      /\ reliableWindows' = [reliableWindows EXCEPT ![w] = IF @ > 0 THEN @ - 1 ELSE @]

\* An acknowledgement refers to a packet in transit or, if there is none, to one that
\* waits to be sent again.
ReceiveAcknowledgement(i) ==
  /\ i \in acks
  /\ LET seq == SequenceNumber(i)
     IN  \/ \E k \in Matches(inTransit, seq) :
              /\ inTransit' = RemoveAt(inTransit, k)
              /\ Settle(inTransit[k])
              /\ UNCHANGED outgoing
         \/ /\ Matches(inTransit, seq) = {}
            /\ \E k \in Matches(outgoing, seq) :
                 /\ outgoing' = RemoveAt(outgoing, k)
                 /\ Settle(outgoing[k])
                 /\ UNCHANGED inTransit
         \/ /\ Matches(inTransit, seq) \cup Matches(outgoing, seq) = {}
            /\ UNCHANGED senderVars
  /\ UNCHANGED <<sent, net, acks, receiverVars>>

---------------------------------------------------------------------------
(* The receiver.                                                           *)

\* The window of seq, counted on from the one of the last packet delivered.
RelativeWindow(seq, last) == Window(seq) + IF seq < last THEN WINDOWS ELSE 0

\* Out of the window (old, or too far ahead), the last one delivered, or queued.
Discard(seq) ==
  \/ RelativeWindow(seq, incoming) >= Window(incoming) + FREE_WINDOWS - 1
  \/ seq = incoming
  \/ \E j \in queue : SequenceNumber(j) = seq

\* Fault: all that is queued is delivered, gaps or not.
ReadyDespiteGaps(q) ==
  [k \in 1 .. Cardinality(q) |->
     CHOOSE i \in q : Cardinality({j \in q : j < i}) = k - 1]

\* The queued packets that follow the last one delivered without a gap.
Ready(q) ==
  LET at(k) == {i \in q : SequenceNumber(i) = SequenceNumber(incoming + k)}
      n == CHOOSE n \in 0 .. Cardinality(q) :
             /\ \A k \in 1 .. n : at(k) # {}
             /\ at(n + 1) = {}
  IN  [k \in 1 .. n |-> CHOOSE i \in at(k) : TRUE]

\* Fault: every packet that arrives is acknowledged.
AcknowledgesAll(seq, last) == TRUE

\* Fault: what is discarded is not acknowledged.
AcknowledgesAccepted(seq, last) ==
  RelativeWindow(seq, last) - Window(last) < FREE_WINDOWS - 1

\* Not acknowledged are packets of the two windows right after the ones accepted:
\* what lies further ahead can only be old.
Acknowledges(seq, last) ==
  ~(RelativeWindow(seq, last) - Window(last) \in FREE_WINDOWS - 1 .. FREE_WINDOWS)

Advance(n) == SequenceNumber(incoming + n)

QueueWith(i) == IF Discard(SequenceNumber(i)) THEN queue ELSE queue \cup {i}

IncomingAfter(i) == Advance(Len(Ready(QueueWith(i))))

\* The datagram stays in the network: it may arrive again, or never have arrived.
Receive(i) ==
  /\ i \in net
  /\ LET seq == SequenceNumber(i)
         q == QueueWith(i)
         ready == Ready(q)
     IN  /\ delivered' = delivered \o ready
         /\ queue' = q \ ToSet(ready)
         /\ incoming' = IncomingAfter(i)
         /\ acks' = IF Acknowledges(seq, incoming') THEN acks \cup {i} ELSE acks
  /\ UNCHANGED <<senderVars, net>>

---------------------------------------------------------------------------
Next ==
  \/ Send
  \/ Transmit
  \/ \E expired \in SUBSET DOMAIN inTransit : CheckTimeouts(expired)
  \/ \E i \in acks : ReceiveAcknowledgement(i)
  \/ \E i \in net : Receive(i)

Spec == Init /\ [][Next]_vars

---------------------------------------------------------------------------
\* The channel is a reliable FIFO: despite loss, repetition and reordering, across
\* the wrap of the sequence numbers, each packet is delivered once and in order.
Fifo == INSTANCE FifoChannel WITH
          Packet <- Packets,
          sent <- [i \in 1 .. sent |-> i],
          delivered <- delivered

FifoSpec == Fifo!Spec

\* No packet is stuck for good, behind a window that never opens or at a receiver that
\* neither takes nor acknowledges it: once nothing is in transit the next packet may be
\* sent, and the one in transit that the receiver waits for, or any it has delivered,
\* is acknowledged if it arrives now.
NeverStuck ==
  /\ inTransit = <<>> /\ outgoing # <<>> => ~WindowWrap(Head(outgoing))
  /\ \A i \in ToSet(inTransit) :
       i <= Len(delivered) + 1 => Acknowledges(SequenceNumber(i), IncomingAfter(i))

\* No packet is both in transit and queued to be sent, or twice in a queue.
EachOnce ==
  /\ Len(outgoing) = Cardinality(ToSet(outgoing))
  /\ Len(inTransit) = Cardinality(ToSet(inTransit))
  /\ ToSet(outgoing) \cap ToSet(inTransit) = {}

\* The counts of the windows are those of the unacknowledged packets sent.
WindowsCount ==
  /\ tried \subseteq ToSet(outgoing) \cup ToSet(inTransit)
  /\ \A w \in 0 .. WINDOWS - 1 :
       reliableWindows[w] = Cardinality({i \in tried : Window(SequenceNumber(i)) = w})

\* The sender's books are right through acknowledgements that are lost, late or
\* repeated: lists and counts agree, and a packet is forgotten only when the receiver
\* has it, so none is acknowledged that the receiver discarded as too far ahead.
BooksRight ==
  /\ TypeOK /\ EachOnce /\ WindowsCount
  /\ \A i \in 1 .. sent :
       i \in ToSet(outgoing) \cup ToSet(inTransit) \cup ToSet(delivered) \cup queue
=============================================================================
