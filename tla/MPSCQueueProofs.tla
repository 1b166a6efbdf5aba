-------------------------- MODULE MPSCQueueProofs ---------------------------
(***************************************************************************)
(* MPSCQueue keeps its list whole, deletes each node once and implements   *)
(* MPSCOrder, for any producers, payloads, heap and number of calls.       *)
(***************************************************************************)
EXTENDS MPSCQueue, TLAPS

\* The places in `order' of the nodes from _tail to _head.
List == taken + 1 .. Len(order)

\* The list and its histories describe the same thing.
Shape ==
  /\ Len(order) = Len(log) + 1
  /\ taken <= Len(log)
  /\ tail = order[taken + 1]
  /\ head = order[Len(order)]
  /\ \A i, j \in List : order[i] = order[j] => i = j
  /\ \A i \in List : i > 1 => data[order[i]] = log[i - 1]

\* Each link is there or owed by the producer whose call is at its place.
Links ==
  /\ next[order[Len(order)]] = Null
  /\ \A i \in List : i < Len(order) =>
       \/ next[order[i]] = order[i + 1]
       \/ next[order[i]] = Null /\ \E p \in Producers : open[p] = i

\* A producer that has exchanged owes one link, at a place of its own.
Owing ==
  \A p \in Producers :
    /\ pc[p] = "link" <=> open[p] # 0
    /\ pc[p] = "link" =>
         /\ open[p] \in List
         /\ open[p] < Len(order)
         /\ prevHead[p] = order[open[p]]
         /\ node[p] = order[open[p] + 1]
         /\ next[order[open[p]]] = Null
    /\ \A q \in Producers : open[p] = open[q] /\ open[p] # 0 => p = q

\* A producer that has not exchanged has a node that nobody else can reach.
Private ==
  \A p \in Producers : pc[p] = "exchange" =>
    /\ node[p] \in allocated
    /\ next[node[p]] = Null
    /\ data[node[p]] \in Payloads
    /\ \A i \in List : order[i] # node[p]
    /\ \A q \in Producers : pc[q] = "exchange" /\ node[q] = node[p] => p = q

\* What the consumer holds.
Consumer ==
  /\ consumer = "take" => seen \in Nodes /\ seen = next[tail]
  /\ consumer = "delete" =>
       /\ old \in allocated
       /\ \A i \in List : order[i] # old
       /\ \A p \in Producers : pc[p] = "exchange" => node[p] # old
  /\ closing => \A p \in Producers : pc[p] = "idle"
  /\ consumer = "gone" => closing /\ allocated = {}

\* What is allocated, and why.
Heap ==
  /\ consumer # "gone" => \A i \in List : order[i] \in allocated
  /\ \A n \in allocated :
       \/ \E i \in List : order[i] = n
       \/ \E p \in Producers : pc[p] = "exchange" /\ node[p] = n
       \/ consumer = "delete" /\ n = old

IInv == TypeOK /\ Shape /\ Links /\ Owing /\ Private /\ Consumer /\ Heap

-----------------------------------------------------------------------------
LEMMA InitIInv == Init => IInv
<1> SUFFICES ASSUME Init PROVE IInv
  OBVIOUS
<1>1. PICK n \in Nodes : order = <<n>> /\ head = n /\ tail = n /\ allocated = {n}
  BY DEF Init
<1>2. TypeOK
  <2>1. log \in Seq(Payloads) /\ order \in Seq(Nodes)
    BY <1>1 DEF Init
  <2>2. open \in [Producers -> Nat] /\ taken \in Nat
    BY DEF Init
  <2> QED
    BY <1>1, <2>1, <2>2 DEF Init, TypeOK
<1>3. List = {1}
  BY <1>1 DEF Init, List
<1>4. Shape
  BY <1>1, <1>3 DEF Init, Shape
<1>5. Links
  BY <1>1, <1>3 DEF Init, Links
<1>6. Owing /\ Private /\ Consumer
  BY <1>1, <1>3 DEF Init, Owing, Private, Consumer
<1>7. Heap
  BY <1>1, <1>3 DEF Init, Heap
<1> QED
  BY <1>2, <1>4, <1>5, <1>6, <1>7 DEF IInv

\* new Node(input): the address is nobody's, so nothing of the list changes.
LEMMA NewNodeIInv ==
  ASSUME IInv, NEW p \in Producers, NEW n \in Nodes, NEW v \in Payloads, NewNode(p, n, v)
  PROVE  IInv'
<1> USE DEF IInv
<1>1. n # Null /\ n \notin allocated /\ consumer # "gone"
  BY NodesAssumption DEF NewNode, MayEnqueue, Consumer
<1>2. \A i \in List : order[i] # n /\ order[i] \in Nodes
  BY <1>1 DEF Heap, TypeOK, List
<1>3. TypeOK'
  BY DEF NewNode, cons, history, TypeOK
<1>4. List' = List
  BY DEF NewNode, history, List
<1>5. Shape'
  BY <1>2, <1>4 DEF NewNode, history, Shape, TypeOK, List
<1>6. Links'
  BY <1>2, <1>4 DEF NewNode, history, Links, Shape, TypeOK, List
<1>7. Owing'
  BY <1>2, <1>4 DEF NewNode, MayEnqueue, history, Owing, TypeOK
<1>8. Private'
  BY <1>1, <1>2, <1>4 DEF NewNode, history, Private, TypeOK
<1>9. Consumer'
  BY <1>1, <1>2, <1>4 DEF NewNode, MayEnqueue, history, cons, Consumer, TypeOK, Shape, List
<1>10. Heap'
  BY <1>1, <1>2, <1>4 DEF NewNode, MayEnqueue, history, cons, Heap, TypeOK
<1> QED
  BY <1>3, <1>5, <1>6, <1>7, <1>8, <1>9, <1>10

\* _head.exchange(node): the list grows by the producer's own node, and the link to
\* it is owed.
LEMMA ExchangeIInv ==
  ASSUME IInv, NEW p \in Producers, Exchange(p)
  PROVE  IInv'
<1> USE DEF IInv
<1> DEFINE m == node[p]  L == Len(order)
<1>1. /\ m \in Nodes /\ m \in allocated /\ data[m] \in Payloads /\ next[m] = Null
      /\ \A i \in List : order[i] # m
  BY DEF Exchange, Private, TypeOK
<1>2. L \in Nat /\ L = Len(log) + 1 /\ taken < L /\ taken \in Nat
  BY DEF Shape, TypeOK
<1>3. /\ order' = Append(order, m) /\ Len(order') = L + 1 /\ order'[L + 1] = m
      /\ \A i \in 1 .. L : order'[i] = order[i]
  BY <1>1, <1>2 DEF Exchange, TypeOK
<1>4. /\ log' = Append(log, data[m]) /\ Len(log') = L /\ log'[L] = data[m]
      /\ \A i \in 1 .. L - 1 : log'[i] = log[i]
  BY <1>1, <1>2 DEF Exchange, TypeOK
<1>5. List' = List \cup {L + 1} /\ List = taken + 1 .. L /\ L + 1 \notin List
  BY <1>2, <1>3 DEF Exchange, List
<1>6. open[p] = 0 /\ open' = [open EXCEPT ![p] = L] /\ \A q \in Producers : open[q] # L
  BY <1>2 DEF Exchange, Owing
<1>7. TypeOK'
  BY <1>1, <1>2, <1>3, <1>4, <1>6 DEF Exchange, cons, TypeOK
<1>8. Shape'
  BY <1>1, <1>2, <1>3, <1>4, <1>5 DEF Exchange, Shape, TypeOK
<1>9. Links'
  <2>1. next' = next /\ next'[order'[L + 1]] = Null
    BY <1>1, <1>3 DEF Exchange
  <2>2. open'[p] = L /\ \A q \in Producers : q # p => open'[q] = open[q]
    BY <1>6 DEF TypeOK
  <2>3. ASSUME NEW i \in List, i < L
        PROVE  \/ next[order'[i]] = order'[i + 1]
               \/ next[order'[i]] = Null /\ \E q \in Producers : open'[q] = i
    <3>1. order'[i] = order[i] /\ order'[i + 1] = order[i + 1] /\ i # 0
      BY <2>3, <1>2, <1>3, <1>5
    <3> QED
      BY <2>3, <3>1, <2>2, <1>6 DEF Links
  <2>4. next[order'[L]] = Null
    BY <1>2, <1>3 DEF Links
  <2> QED
    BY <2>1, <2>2, <2>3, <2>4, <1>2, <1>3, <1>5 DEF Links
<1>10. Owing'
  BY <1>1, <1>2, <1>3, <1>5, <1>6 DEF Exchange, Owing, Shape, Links, TypeOK
<1>11. Private'
  BY <1>1, <1>2, <1>3, <1>5 DEF Exchange, Private, TypeOK
<1>12. Consumer'
  BY <1>1, <1>2, <1>3, <1>5 DEF Exchange, cons, Consumer, TypeOK
<1>13. Heap'
  <2>1. /\ allocated' = allocated /\ consumer' = consumer /\ old' = old
        /\ \A q \in Producers : q # p => pc'[q] = pc[q] /\ node'[q] = node[q]
    BY DEF Exchange, cons, TypeOK
  <2>2. \A i \in List : i \in List' /\ order'[i] = order[i]
    BY <1>2, <1>3, <1>5
  <2>3. consumer # "gone" => \A i \in List' : order'[i] \in allocated
    BY <2>2, <1>1, <1>3, <1>5 DEF Heap
  <2>4. ASSUME NEW n \in allocated
        PROVE  \/ \E i \in List' : order'[i] = n
               \/ \E q \in Producers : pc'[q] = "exchange" /\ node'[q] = n
               \/ consumer = "delete" /\ n = old
    <3>1. CASE n = m
      BY <3>1, <1>3, <1>5
    <3>2. CASE n # m
      BY <3>2, <2>1, <2>2 DEF Heap
    <3> QED
      BY <3>1, <3>2
  <2> QED
    BY <2>1, <2>3, <2>4 DEF Heap
<1> QED
  BY <1>7, <1>8, <1>9, <1>10, <1>11, <1>12, <1>13

\* prevHead->Next.store(node): the owed link is paid, and no other one is touched
\* because the places of the producers differ and so do the nodes at them.
LEMMA LinkIInv ==
  ASSUME IInv, NEW p \in Producers, Link(p)
  PROVE  IInv'
<1> USE DEF IInv
<1> DEFINE k == open[p]
<1>1. /\ k \in List /\ k < Len(order) /\ prevHead[p] = order[k] /\ node[p] = order[k + 1]
      /\ k + 1 \in List /\ order[k] \in Nodes /\ order[k + 1] \in Nodes
  BY DEF Link, Owing, List, TypeOK
<1>2. List' = List /\ order' = order /\ taken' = taken /\ log' = log
  BY DEF Link, List
<1>3. next' = [next EXCEPT ![order[k]] = order[k + 1]]
  BY <1>1 DEF Link, Linked
<1>4. \A i \in List : i # k => order[i] # order[k] /\ next'[order[i]] = next[order[i]]
  BY <1>1, <1>3 DEF Shape, List, TypeOK
<1>5. next'[order[k]] = order[k + 1]
  BY <1>1, <1>3 DEF TypeOK
<1>6. \A q \in Producers : q # p => open'[q] = open[q] /\ open[q] # k
  BY <1>1 DEF Link, Owing, List, TypeOK
<1>7. TypeOK'
  BY <1>1, <1>3 DEF Link, cons, TypeOK
<1>8. Shape'
  BY <1>1, <1>2 DEF Link, Shape, TypeOK
<1>9. Links'
  <2>1. Len(order) \in List /\ Len(order) # k
    BY <1>1 DEF Shape, List, TypeOK
  <2>2. next'[order[Len(order)]] = Null
    BY <2>1, <1>4 DEF Links
  <2>3. ASSUME NEW i \in List, i < Len(order), i # k
        PROVE  \/ next'[order[i]] = order[i + 1]
               \/ next'[order[i]] = Null /\ \E q \in Producers : open'[q] = i
    BY <2>3, <1>4, <1>6 DEF Links
  <2> QED
    BY <2>2, <2>3, <1>2, <1>5 DEF Links
<1>10. Owing'
  BY <1>1, <1>2, <1>4, <1>6 DEF Link, Owing, TypeOK
<1>11. Private'
  BY <1>1, <1>2, <1>3 DEF Link, Private, TypeOK
<1>12. Consumer'
  <2>1. consumer = "take" => seen \in Nodes /\ seen = next[order[taken + 1]]
    BY DEF Consumer, Shape
  <2>2. consumer = "take" => k # taken + 1
    BY <2>1, <1>1, NodesAssumption DEF Link, Owing
  <2>3. taken + 1 \in List /\ tail = order[taken + 1]
    BY DEF Shape, List, TypeOK
  <2>4. consumer = "take" => next'[tail] = next[tail]
    BY <2>2, <2>3, <1>4
  <2> QED
    BY <2>4, <1>2 DEF Link, cons, Consumer
<1>13. Heap'
  <2>1. /\ allocated' = allocated /\ consumer' = consumer /\ old' = old /\ pc[p] = "link"
        /\ \A q \in Producers : q # p => pc'[q] = pc[q] /\ node'[q] = node[q]
    BY DEF Link, cons, TypeOK
  <2> QED
    BY <1>2, <2>1 DEF Heap
<1> QED
  BY <1>7, <1>8, <1>9, <1>10, <1>11, <1>12, <1>13

LEMMA LoadNextIInv ==
  ASSUME IInv, LoadNext
  PROVE  IInv'
<1> USE DEF IInv
<1>1. List' = List /\ tail = order[taken + 1] /\ tail \in Nodes
  BY DEF LoadNext, history, List, Shape, TypeOK
<1>2. TypeOK'
  BY <1>1 DEF LoadNext, prod, history, TypeOK
<1>3. Shape' /\ Links' /\ Owing' /\ Private'
  BY <1>1 DEF LoadNext, prod, history, Shape, Links, Owing, Private
<1>4. Consumer'
  BY <1>1 DEF LoadNext, prod, history, Consumer, TypeOK
<1>5. Heap'
  BY <1>1 DEF LoadNext, prod, history, Heap
<1> QED
  BY <1>2, <1>3, <1>4, <1>5

\* result = next->Data; _tail.store(next): the list gets one shorter, and no link of
\* its first node is owed, since it was there to be followed.
LEMMA TakeIInv ==
  ASSUME IInv, Take
  PROVE  IInv'
<1> USE DEF IInv
<1>1. /\ taken \in Nat /\ Len(order) \in Nat /\ Len(order) = Len(log) + 1 /\ taken < Len(order)
      /\ tail = order[taken + 1] /\ tail \in Nodes
  BY DEF Shape, TypeOK
<1>2. seen \in Nodes /\ seen = next[order[taken + 1]] /\ seen # Null
  BY <1>1, NodesAssumption DEF Take, Consumer
<1>3. taken + 1 < Len(order) /\ seen = order[taken + 2]
  BY <1>1, <1>2 DEF Links, List
<1>4. \A p \in Producers : open[p] # taken + 1
  <2>1. SUFFICES ASSUME NEW p \in Producers, open[p] = taken + 1 PROVE FALSE
    OBVIOUS
  <2>2. pc[p] = "link"
    BY <2>1, <1>1 DEF Owing
  <2>3. next[order[open[p]]] = Null
    BY <2>2 DEF Owing
  <2> QED
    BY <2>1, <2>3, <1>2
<1>5. List' = List \ {taken + 1} /\ taken + 1 \in List
  BY <1>1, <1>3 DEF Take, List
<1>6. \A i \in List' : order[i] # tail
  BY <1>1, <1>5 DEF Shape
<1>7. data[seen] = log[taken + 1] /\ data[seen] \in Payloads
  BY <1>1, <1>3 DEF Shape, List, TypeOK
<1>8. TypeOK'
  BY <1>1, <1>2, <1>7 DEF Take, Result, NewTail, prod, TypeOK
<1>9. Shape'
  BY <1>1, <1>3, <1>5 DEF Take, NewTail, Shape
<1>10. Links'
  BY <1>5 DEF Take, Links
<1>11. Owing'
  BY <1>4, <1>5 DEF Take, prod, Owing
<1>12. Private'
  BY <1>5 DEF Take, prod, Private
<1>13. Consumer'
  BY <1>1, <1>5, <1>6 DEF Take, prod, Consumer, Private, Heap
<1>14. Heap'
  BY <1>1, <1>5 DEF Take, prod, Heap
<1> QED
  BY <1>8, <1>9, <1>10, <1>11, <1>12, <1>13, <1>14

LEMMA DeleteTailIInv ==
  ASSUME IInv, DeleteTail
  PROVE  IInv'
<1> USE DEF IInv
<1>1. List' = List /\ Deleted = {old}
  BY DEF DeleteTail, history, List, Deleted
<1>2. TypeOK'
  BY <1>1 DEF DeleteTail, prod, history, TypeOK
<1>3. Shape' /\ Links' /\ Owing'
  BY <1>1 DEF DeleteTail, prod, history, Shape, Links, Owing
<1>4. Private'
  BY <1>1 DEF DeleteTail, prod, history, Private, Consumer
<1>5. Consumer'
  BY <1>1 DEF DeleteTail, prod, history, Consumer
<1>6. Heap'
  BY <1>1 DEF DeleteTail, prod, history, Heap, Consumer
<1> QED
  BY <1>2, <1>3, <1>4, <1>5, <1>6

LEMMA ReturnFalseIInv ==
  ASSUME IInv, ReturnFalse
  PROVE  IInv'
<1> USE DEF IInv
<1>1. List' = List
  BY DEF ReturnFalse, List
<1>2. TypeOK'
  BY DEF ReturnFalse, prod, cons, TypeOK
<1>3. Shape' /\ Links' /\ Owing' /\ Private' /\ Consumer' /\ Heap'
  BY <1>1 DEF ReturnFalse, prod, cons, Shape, Links, Owing, Private, Consumer, Heap
<1> QED
  BY <1>2, <1>3

LEMMA DestroyIInv ==
  ASSUME IInv, Destroy
  PROVE  IInv'
<1> USE DEF IInv
<1>1. List' = List
  BY DEF Destroy, history, List
<1>2. TypeOK'
  BY DEF Destroy, prod, history, TypeOK
<1>3. Shape' /\ Links' /\ Owing' /\ Private' /\ Consumer' /\ Heap'
  BY <1>1 DEF Destroy, MayDestroy, prod, history, Shape, Links, Owing, Private, Consumer, Heap
<1> QED
  BY <1>2, <1>3

\* The destructor's last step: nobody owes a link, so the list is one node, which is
\* all that is allocated.
LEMMA DeleteFrontIInv ==
  ASSUME IInv, DeleteFront
  PROVE  IInv'
<1> USE DEF IInv
<1>1. /\ taken \in Nat /\ Len(order) \in Nat /\ Len(order) = Len(log) + 1 /\ taken < Len(order)
      /\ tail = order[taken + 1] /\ head = order[Len(order)]
  BY DEF Shape, TypeOK
<1>2. \A p \in Producers : pc[p] = "idle" /\ open[p] = 0
  BY DEF DeleteFront, Consumer, Owing
<1>3. taken + 1 = Len(order)
  <2>1. SUFFICES ASSUME taken + 1 < Len(order) PROVE FALSE
    BY <1>1
  <2>2. taken + 1 \in List /\ order[taken + 2] \in Nodes
    BY <1>1, <2>1 DEF List, TypeOK
  <2>3. next[order[taken + 1]] = order[taken + 2]
    BY <1>1, <1>2, <2>1, <2>2 DEF Links
  <2> QED
    BY <1>1, <2>2, <2>3, NodesAssumption DEF DeleteFront
<1>4. List = {taken + 1} /\ List' = List
  BY <1>1, <1>3 DEF DeleteFront, List
<1>5. allocated' = {}
  BY <1>1, <1>2, <1>3, <1>4 DEF DeleteFront, Heap
<1>6. TypeOK'
  BY <1>5 DEF DeleteFront, prod, TypeOK
<1>7. Shape' /\ Links' /\ Owing'
  BY <1>4 DEF DeleteFront, prod, Shape, Links, Owing
<1>8. Private' /\ Consumer' /\ Heap'
  BY <1>2, <1>4, <1>5 DEF DeleteFront, prod, Private, Consumer, Heap
<1> QED
  BY <1>6, <1>7, <1>8

LEMMA NextIInv == IInv /\ [Next]_vars => IInv'
<1> SUFFICES ASSUME IInv, [Next]_vars PROVE IInv'
  OBVIOUS
<1>1. ASSUME NEW p \in Producers, NEW n \in Nodes, NEW v \in Payloads, NewNode(p, n, v)
      PROVE  IInv'
  BY <1>1, NewNodeIInv
<1>2. ASSUME NEW p \in Producers, Enqueue(p) PROVE IInv'
  BY <1>2, ExchangeIInv, LinkIInv DEF Enqueue
<1>3. CASE Dequeue
  BY <1>3, LoadNextIInv, TakeIInv, DeleteTailIInv, ReturnFalseIInv, DeleteFrontIInv DEF Dequeue
<1>4. CASE Destroy
  BY <1>4, DestroyIInv
<1>5. CASE UNCHANGED vars
  <2>1. List' = List
    BY <1>5 DEF vars, history, List
  <2> QED
    BY <1>5, <2>1 DEF vars, prod, cons, history, IInv, TypeOK, Shape, Links, Owing, Private,
                      Consumer, Heap
<1> QED
  BY <1>1, <1>2, <1>3, <1>4, <1>5 DEF Next, Terminated

LEMMA InductiveInvariant == Safe => []IInv
  BY InitIInv, NextIInv, PTL DEF Safe
-----------------------------------------------------------------------------
\* Every variable keeps its type.
THEOREM TypeCorrect == Safe => []TypeOK
  BY InductiveInvariant, PTL DEF IInv

\* Each node is deleted once, and when nobody can reach it any more.
LEMMA Deletion == IInv => FreedOnce
<1> SUFFICES ASSUME IInv, consumer = "delete" PROVE FreedOnce
  BY DEF FreedOnce
<1> USE DEF IInv
<1>1. taken + 1 \in List /\ Len(order) \in List
  BY DEF Shape, List, TypeOK
<1>2. old \in allocated /\ old # head /\ old # tail
  BY <1>1 DEF Consumer, Shape
<1>3. ASSUME NEW p \in Producers, pc[p] = "link" PROVE prevHead[p] # old /\ node[p] # old
  <2>1. open[p] \in List /\ open[p] + 1 \in List
    BY <1>3 DEF Owing, List, TypeOK
  <2> QED
    BY <1>3, <2>1 DEF Owing, Consumer
<1>4. \A p \in Producers : pc[p] = "exchange" => node[p] # old
  BY DEF Consumer
<1>5. \A p \in Producers : pc[p] # "idle" => pc[p] \in {"exchange", "link"}
  BY DEF TypeOK
<1> QED
  BY <1>2, <1>3, <1>4, <1>5 DEF FreedOnce

\* No producer and no consumer follows a pointer to a node that was deleted.
THEOREM MemorySafe == Safe => []NoUseAfterFree
<1>1. IInv => NoUseAfterFree
  <2> SUFFICES ASSUME IInv PROVE NoUseAfterFree
    OBVIOUS
  <2> USE DEF IInv
  <2>1. taken + 1 \in List /\ Len(order) \in List
    BY DEF Shape, List, TypeOK
  <2>2. consumer # "gone" => head \in allocated /\ tail \in allocated
    BY <2>1 DEF Shape, Heap
  <2>3. consumer = "take" => seen \in allocated
    <3>1. consumer = "take" => taken + 1 < Len(order) /\ seen = order[taken + 2]
      BY <2>1, NodesAssumption DEF Consumer, Shape, Links, List, TypeOK
    <3> QED
      BY <3>1, <2>1 DEF Heap, List, TypeOK
  <2>4. ASSUME NEW p \in Producers, pc[p] = "link"
        PROVE  prevHead[p] \in allocated /\ node[p] \in allocated
    <3>1. open[p] \in List /\ open[p] + 1 \in List
      BY <2>4 DEF Owing, List, TypeOK
    <3>2. consumer # "gone"
      BY <2>4 DEF Consumer
    <3> QED
      BY <2>4, <3>1, <3>2 DEF Owing, Heap
  <2>5. ASSUME NEW p \in Producers, pc[p] = "exchange" PROVE node[p] \in allocated
    BY <2>5 DEF Private
  <2>6. \A p \in Producers : pc[p] # "idle" => pc[p] \in {"exchange", "link"}
    BY DEF TypeOK
  <2> QED
    BY <2>2, <2>3, <2>4, <2>5, <2>6, Deletion DEF NoUseAfterFree
<1> QED
  BY <1>1, InductiveInvariant, PTL

\* The destructor frees every node.
THEOREM DestructorFrees == Safe => []NoLeak
<1>1. IInv => NoLeak
  BY DEF IInv, Consumer, NoLeak
<1> QED
  BY <1>1, InductiveInvariant, PTL

\* A break in the list is always one that a producer is about to close.
THEOREM ListSafe == Safe => []ListIntact
<1>1. IInv => ListIntact
  <2> SUFFICES ASSUME IInv, NEW i \in taken + 1 .. Len(order) - 1
               PROVE  \/ next[order[i]] = order[i + 1] /\ \A p \in Producers : open[p] # i
                      \/ /\ next[order[i]] = Null
                         /\ \E p \in Producers :
                              /\ pc[p] = "link" /\ prevHead[p] = order[i] /\ node[p] = order[i + 1]
                              /\ \A q \in Producers \ {p} :
                                   ~(pc[q] = "link" /\ prevHead[q] = order[i])
    BY DEF ListIntact
  <2> USE DEF IInv
  <2>1. i \in List /\ i < Len(order) /\ i # 0 /\ order[i + 1] \in Nodes
    BY DEF List, TypeOK
  <2>2. CASE next[order[i]] = order[i + 1]
    <3>1. ASSUME NEW p \in Producers, open[p] = i PROVE FALSE
      BY <3>1, <2>1, <2>2, NodesAssumption DEF Owing
    <3> QED
      BY <2>2, <3>1
  <2>3. CASE next[order[i]] = Null /\ \E p \in Producers : open[p] = i
    <3>1. PICK p \in Producers : open[p] = i
      BY <2>3
    <3>2. pc[p] = "link" /\ prevHead[p] = order[i] /\ node[p] = order[i + 1]
      BY <3>1, <2>1 DEF Owing
    <3>3. ASSUME NEW q \in Producers, pc[q] = "link", prevHead[q] = order[i] PROVE q = p
      <4>1. open[q] \in List /\ order[open[q]] = order[i]
        BY <3>3 DEF Owing
      <4>2. open[q] = i
        BY <4>1, <2>1 DEF Shape
      <4> QED
        BY <4>2, <3>1, <2>1 DEF Owing
    <3> QED
      BY <2>3, <3>2, <3>3
  <2> QED
    BY <2>1, <2>2, <2>3 DEF Links
<1> QED
  BY <1>1, InductiveInvariant, PTL

\* The queue implements the ordered log: an exchange is a Put, a link the Return of
\* the call, a Dequeue a Get or a Miss; the rest is not visible.
THEOREM Implementation == Safe => ImplementsOrder
<1>1. Init => Abstract!Init
  BY DEF Init, Abstract!Init
<1>2. IInv /\ [Next]_vars => [Abstract!Next]_Abstract!vars
  <2> SUFFICES ASSUME IInv, [Next]_vars PROVE [Abstract!Next]_Abstract!vars
    OBVIOUS
  <2> USE DEF IInv
  <2>1. taken \in Nat /\ Len(order) \in Nat /\ Len(order) = Len(log) + 1 /\ taken < Len(order)
        /\ taken + 1 \in List
    BY DEF Shape, List, TypeOK
  <2>2. ASSUME NEW p \in Producers, Exchange(p) PROVE Abstract!Put(p, data[node[p]])
    BY <2>2 DEF Exchange, Abstract!Put, Owing
  <2>3. ASSUME NEW p \in Producers, Exchange(p) PROVE data[node[p]] \in Payloads
    BY <2>3 DEF Exchange, Private
  <2>4. ASSUME NEW p \in Producers, Link(p) PROVE Abstract!Return(p)
    BY <2>4 DEF Link, Abstract!Return, Owing
  <2>5. ASSUME Take PROVE Abstract!Get
    <3>1. seen \in Nodes /\ seen = next[order[taken + 1]] /\ seen # Null
      BY <2>5, NodesAssumption DEF Take, Consumer, Shape
    <3>2. taken + 1 < Len(order) /\ seen = order[taken + 2]
      BY <2>1, <3>1 DEF Links, List
    <3>3. data[seen] = log[taken + 1]
      BY <2>1, <3>2 DEF Shape, List
    <3> QED
      BY <2>1, <2>5, <3>2, <3>3 DEF Take, Result, Abstract!Get
  <2>6. ASSUME next[tail] = Null PROVE taken = Len(log) \/ Abstract!Unfinished
    <3>1. CASE taken + 1 < Len(order)
      <4>1. order[taken + 2] \in Nodes
        BY <2>1, <3>1 DEF TypeOK
      <4>2. \E p \in Producers : open[p] = taken + 1
        BY <2>1, <2>6, <3>1, <4>1, NodesAssumption DEF Links, Shape
      <4> QED
        BY <4>2 DEF Abstract!Unfinished
    <3> QED
      BY <3>1, <2>1
  <2>7. ASSUME ReturnFalse PROVE Abstract!Miss
    BY <2>6, <2>7 DEF ReturnFalse, Abstract!Miss
  <2>8. ASSUME DeleteFront PROVE Abstract!Miss
    BY <2>6, <2>8 DEF DeleteFront, Abstract!Miss
  <2>9. ASSUME NEW p \in Producers, NEW n \in Nodes, NEW v \in Payloads, NewNode(p, n, v)
        PROVE  UNCHANGED Abstract!vars
    BY <2>9 DEF NewNode, history, Abstract!vars
  <2>10. ASSUME LoadNext \/ DeleteTail \/ Destroy \/ UNCHANGED vars PROVE UNCHANGED Abstract!vars
    BY <2>10 DEF LoadNext, DeleteTail, Destroy, vars, history, Abstract!vars
  <2> QED
    BY <2>2, <2>3, <2>4, <2>5, <2>7, <2>8, <2>9, <2>10
    DEF Next, Enqueue, Dequeue, Terminated, Abstract!Next
<1> QED
  BY <1>1, <1>2, InductiveInvariant, PTL DEF Safe, ImplementsOrder, Abstract!Spec
=============================================================================
