---------------------------- MODULE FifoChannel ----------------------------
(***************************************************************************)
(* What an ENet channel promises for reliable packets, and what Server and *)
(* NetClient build on: every packet arrives, once, in the order sent.      *)
(***************************************************************************)
EXTENDS Naturals, Sequences

CONSTANT
  Packet  \* what can be sent

VARIABLES
  sent,      \* all packets sent so far
  delivered  \* all packets handed to the receiving application so far

vars == <<sent, delivered>>

Init == sent = <<>> /\ delivered = <<>>

Send(p) ==
  /\ sent' = Append(sent, p)
  /\ UNCHANGED delivered

\* One or more packets become available at once.
Deliver ==
  /\ \E n \in Len(delivered) + 1 .. Len(sent) : delivered' = SubSeq(sent, 1, n)
  /\ UNCHANGED sent

Next == Deliver \/ \E p \in Packet : Send(p)

Spec == Init /\ [][Next]_vars
=============================================================================
