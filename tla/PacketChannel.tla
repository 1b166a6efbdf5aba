---------------------------- MODULE PacketChannel ----------------------------
(***************************************************************************)
(* What two connected TCPClients promise to the program: packets arrive    *)
(* whole, in the order they were sent and each once, as long as every      *)
(* packet up to them was written whole; a packet over the limit is never   *)
(* delivered, nor is anything after it.  Once a packet was written short,  *)
(* nothing is promised from it on.                                         *)
(***************************************************************************)
EXTENDS Naturals, Sequences

CONSTANTS
  Ends,     \* the two ends of the connection
  Peer(_),  \* the other end
  Sizes,    \* the payload sizes
  Limit     \* the largest payload that is delivered

VARIABLES
  sent,      \* sent[e]: the packets e sent, each with its payload size and
             \* whether it was written whole
  delivered  \* delivered[e]: the packets e received, each by its place in
             \* sent[Peer(e)], or 0 for one that was never sent

vars == <<sent, delivered>>

Init ==
  /\ sent = [e \in Ends |-> <<>>]
  /\ delivered = [e \in Ends |-> <<>>]

Send(e) ==
  /\ \E s \in Sizes, w \in BOOLEAN : sent' = [sent EXCEPT ![e] = Append(@, [size |-> s, whole |-> w])]
  /\ UNCHANGED delivered

\* A packet no later than k was written short.
Short(e, k) == \E i \in 1 .. Len(sent[e]) : i <= k /\ ~sent[e][i].whole

DeliverNext(e) ==
  LET k == Len(delivered[e]) + 1 IN
  /\ k <= Len(sent[Peer(e)])
  /\ sent[Peer(e)][k].size <= Limit
  /\ delivered' = [delivered EXCEPT ![e] = Append(@, k)]
  /\ UNCHANGED sent

DeliverAny(e) ==
  /\ Short(Peer(e), Len(delivered[e]) + 1)
  /\ \E x \in 0 .. Len(sent[Peer(e)]) : delivered' = [delivered EXCEPT ![e] = Append(@, x)]
  /\ UNCHANGED sent

Next == \E e \in Ends : Send(e) \/ DeliverNext(e) \/ DeliverAny(e)

Spec == Init /\ [][Next]_vars
=============================================================================
