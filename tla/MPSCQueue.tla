----------------------------- MODULE MPSCQueue ------------------------------
(***************************************************************************)
(* MPSCQueue<T>: a linked list of nodes whose _head producers exchange and *)
(* whose _tail is the consumer's.  The node at _tail is a dummy: its       *)
(* payload has been delivered.  One action is one access to memory that    *)
(* another thread may touch; each payload and each null Next is written    *)
(* before the release (exchange or store) that publishes its node, so      *)
(* interleaving these accesses is all the memory model allows.             *)
(*                                                                         *)
(* Nodes are addresses: `new' returns any that is not allocated, so that   *)
(* one freed a moment ago can come back.                                   *)
(***************************************************************************)
EXTENDS Naturals, Sequences

CONSTANTS
  Producers,   \* the threads that call Enqueue
  Payloads,    \* what they enqueue
  Nothing,     \* the consumer's answer when Dequeue returns false, and before
  Nodes,       \* the addresses of the heap
  Null,        \* nullptr
  MaxEnqueues  \* bound: no call of Enqueue begins once this many are in the list

ASSUME NodesAssumption == Nodes # {} /\ Null \notin Nodes
ASSUME PayloadsAssumption == Nothing \notin Payloads
ASSUME BoundAssumption == MaxEnqueues \in Nat

VARIABLES
  head,       \* _head
  tail,       \* _tail
  next,       \* Node::Next of every address
  data,       \* Node::Data of every address
  allocated,  \* the addresses new has returned and delete has not freed
  pc,         \* pc[p]: where the producer p is
  node,       \* p's locals `node'
  prevHead,   \* and `prevHead'
  consumer,   \* where the consumer is: in Dequeue, or in the destructor
  seen,       \* its local `next'
  closing,    \* the destructor is running
  old,        \* Dequeue's local `tail', to be deleted
  log,        \* history: the payloads in the order of the exchanges
  order,      \* history: the first node, then theirs
  open,       \* history: open[p] is the place in log of p's call while it links, or 0
  taken,      \* history: how many payloads were delivered
  answer      \* history: the result of the last Dequeue

prod == <<pc, node, prevHead>>
cons == <<consumer, seen, old, closing>>
history == <<log, order, open, taken, answer>>
vars == <<head, tail, next, data, allocated, prod, cons, history>>

\* MPSCQueue(): head and tail share a node.
Init ==
  \E n \in Nodes :
    /\ head = n
    /\ tail = n
    /\ next = [m \in Nodes |-> Null]
    /\ data = [m \in Nodes |-> Nothing]
    /\ allocated = {n}
    /\ pc = [p \in Producers |-> "idle"]
    /\ node = [p \in Producers |-> Null]
    /\ prevHead = [p \in Producers |-> Null]
    /\ consumer = "idle"
    /\ seen = Null
    /\ old = Null
    /\ closing = FALSE
    /\ log = <<>>
    /\ order = <<n>>
    /\ open = [p \in Producers |-> 0]
    /\ taken = 0
    /\ answer = Nothing

-----------------------------------------------------------------------------
(* Enqueue.                                                                *)

\* The program may call Enqueue: the queue is not being destroyed.
MayEnqueue(p) == pc[p] = "idle" /\ ~closing

\* new Node(input)
NewNode(p, n, v) ==
  /\ MayEnqueue(p)
  /\ n \notin allocated
  /\ Len(log) < MaxEnqueues
  /\ allocated' = allocated \cup {n}
  /\ next' = [next EXCEPT ![n] = Null]
  /\ data' = [data EXCEPT ![n] = v]
  /\ node' = [node EXCEPT ![p] = n]
  /\ pc' = [pc EXCEPT ![p] = "exchange"]
  /\ UNCHANGED <<head, tail, prevHead, cons, history>>

\* _head.exchange(node)
Exchange(p) ==
  /\ pc[p] = "exchange"
  /\ prevHead' = [prevHead EXCEPT ![p] = head]
  /\ head' = node[p]
  /\ pc' = [pc EXCEPT ![p] = "link"]
  /\ log' = Append(log, data[node[p]])
  /\ order' = Append(order, node[p])
  /\ open' = [open EXCEPT ![p] = Len(log) + 1]
  /\ UNCHANGED <<tail, next, data, allocated, node, cons, taken, answer>>

LinkedAtHead(p) == head  \* mutant: _head is read again instead of prevHead

\* The node whose Next the producer writes.
Linked(p) == prevHead[p]

\* prevHead->Next.store(node), and Enqueue returns.
Link(p) ==
  /\ pc[p] = "link"
  /\ next' = [next EXCEPT ![Linked(p)] = node[p]]
  /\ pc' = [pc EXCEPT ![p] = "idle"]
  /\ node' = [node EXCEPT ![p] = Null]
  /\ prevHead' = [prevHead EXCEPT ![p] = Null]
  /\ open' = [open EXCEPT ![p] = 0]
  /\ UNCHANGED <<head, tail, data, allocated, cons, log, order, taken, answer>>

-----------------------------------------------------------------------------
(* Dequeue, called by the consumer or by the destructor.                   *)

\* mutant: the pointer is not tested
LoadNextUnchecked ==
  /\ consumer = "idle"
  /\ seen' = next[tail]
  /\ consumer' = "take"
  /\ UNCHANGED <<head, tail, next, data, allocated, prod, old, closing, history>>

\* tail->Next.load(): there is a node.
LoadNext ==
  /\ consumer = "idle"
  /\ next[tail] # Null
  /\ seen' = next[tail]
  /\ consumer' = "take"
  /\ UNCHANGED <<head, tail, next, data, allocated, prod, old, closing, history>>

ResultOfTail == data[tail]  \* mutant: the payload of the dummy

\* result = next->Data
Result == data[seen]

SkipSeen == next[seen]  \* mutant: one node too far

\* _tail.store(next)
NewTail == seen

Take ==
  /\ consumer = "take"
  /\ answer' = Result
  /\ old' = tail
  /\ tail' = NewTail
  /\ consumer' = "delete"
  /\ taken' = taken + 1
  /\ UNCHANGED <<head, next, data, allocated, prod, seen, closing, log, order, open>>

NoDelete == {}  \* mutant: the old node is forgotten

\* What `delete tail' frees.
Deleted == {old}

\* delete tail, and Dequeue returns true.
DeleteTail ==
  /\ consumer = "delete"
  /\ allocated' = allocated \ Deleted
  /\ consumer' = "idle"
  /\ old' = Null
  /\ seen' = Null
  /\ UNCHANGED <<head, tail, next, data, prod, closing, history>>

\* tail->Next.load() is null: Dequeue returns false.
ReturnFalse ==
  /\ consumer = "idle"
  /\ ~closing
  /\ next[tail] = Null
  /\ answer' = Nothing
  /\ UNCHANGED <<head, tail, next, data, allocated, prod, cons, log, order, open, taken>>

-----------------------------------------------------------------------------
(* The destructor.                                                         *)

\* The program destroys a queue that nobody uses.
MayDestroy == \A p \in Producers : pc[p] = "idle"

\* ~MPSCQueue() begins: from here on the results of Dequeue are dropped.
Destroy ==
  /\ consumer = "idle"
  /\ ~closing
  /\ MayDestroy
  /\ closing' = TRUE
  /\ UNCHANGED <<head, tail, next, data, allocated, prod, consumer, seen, old, history>>

\* Its loop ends when Dequeue returns false; it deletes the node at _head.
DeleteFront ==
  /\ consumer = "idle"
  /\ closing
  /\ next[tail] = Null
  /\ answer' = Nothing
  /\ allocated' = allocated \ {head}
  /\ consumer' = "gone"
  /\ UNCHANGED <<head, tail, next, data, prod, seen, old, closing, log, order, open, taken>>

Terminated == consumer = "gone" /\ UNCHANGED vars

-----------------------------------------------------------------------------
Enqueue(p) == Exchange(p) \/ Link(p)
Dequeue == LoadNext \/ Take \/ DeleteTail \/ ReturnFalse \/ DeleteFront

Next ==
  \/ \E p \in Producers, n \in Nodes, v \in Payloads : NewNode(p, n, v)
  \/ \E p \in Producers : Enqueue(p)
  \/ Dequeue
  \/ Destroy
  \/ Terminated

\* A producer inside Enqueue goes on, and the consumer goes on calling Dequeue.
Fairness == (\A p \in Producers : WF_vars(Enqueue(p))) /\ WF_vars(Dequeue)

Safe == Init /\ [][Next]_vars
Spec == Safe /\ Fairness

-----------------------------------------------------------------------------
\* Every variable has a value of its type; _tail is never null.
TypeOK ==
  /\ head \in Nodes
  /\ tail \in Nodes
  /\ next \in [Nodes -> Nodes \cup {Null}]
  /\ data \in [Nodes -> Payloads \cup {Nothing}]
  /\ allocated \subseteq Nodes
  /\ pc \in [Producers -> {"idle", "exchange", "link"}]
  /\ node \in [Producers -> Nodes \cup {Null}]
  /\ prevHead \in [Producers -> Nodes \cup {Null}]
  /\ consumer \in {"idle", "take", "delete", "gone"}
  /\ seen \in Nodes \cup {Null}
  /\ old \in Nodes \cup {Null}
  /\ closing \in BOOLEAN
  /\ log \in Seq(Payloads)
  /\ order \in Seq(Nodes)
  /\ open \in [Producers -> Nat]
  /\ taken \in Nat
  /\ answer \in Payloads \cup {Nothing}

\* delete frees what is allocated, and what is freed is nobody's: it is not in the
\* list and not about to enter it.
FreedOnce ==
  consumer = "delete" =>
    /\ old \in allocated \ {head, tail}
    /\ \A p \in Producers :
         /\ pc[p] # "idle" => node[p] # old
         /\ pc[p] = "link" => prevHead[p] # old

\* No thread touches a node after its deletion: not a producer that still has to
\* write prevHead->Next, not the consumer; and each node is deleted once.
NoUseAfterFree ==
  /\ consumer # "gone" => {head, tail} \subseteq allocated
  /\ consumer = "take" => seen \in allocated
  /\ \A p \in Producers :
       /\ pc[p] # "idle" => node[p] \in allocated
       /\ pc[p] = "link" => prevHead[p] \in allocated
  /\ FreedOnce

\* The destructor leaves no node allocated.
NoLeak == consumer = "gone" => allocated = {}

\* The list is whole up to the links that producers still owe: from one node to the
\* next the link is there, or exactly one producer is about to write it, whose two
\* nodes they are.  This is why a payload can only be late, never lost.
ListIntact ==
  \A i \in taken + 1 .. Len(order) - 1 :
    \/ next[order[i]] = order[i + 1] /\ \A p \in Producers : open[p] # i
    \/ /\ next[order[i]] = Null
       /\ \E p \in Producers :
            /\ pc[p] = "link" /\ prevHead[p] = order[i] /\ node[p] = order[i + 1]
            /\ \A q \in Producers \ {p} : ~(pc[q] = "link" /\ prevHead[q] = order[i])

\* The queue is the ordered log its interface promises; see MPSCOrder.
Abstract == INSTANCE MPSCOrder
ImplementsOrder == Abstract!Spec

\* Every payload whose place in the order is taken is delivered (to the consumer or,
\* after it, to the destructor), although Dequeue may return false meanwhile.
EverythingDelivered ==
  \A k \in 1 .. MaxEnqueues : (Len(log) >= k) ~> (taken >= k)
=============================================================================
