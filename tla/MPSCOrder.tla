----------------------------- MODULE MPSCOrder ------------------------------
(***************************************************************************)
(* What a multi-producer, single-consumer queue promises.  The calls of    *)
(* Enqueue fall into one order; the consumer receives the payloads in that *)
(* order, each once; and it is told that there is nothing only if it has   *)
(* received everything, or the call that is next in the order has not      *)
(* returned yet.                                                           *)
(***************************************************************************)
EXTENDS Naturals, Sequences

CONSTANTS
  Producers,  \* the threads that call Enqueue
  Payloads,   \* what they enqueue
  Nothing     \* the consumer's answer when Dequeue returns false, and before

VARIABLES
  log,        \* the payloads of all calls of Enqueue, in their order
  open,       \* open[p]: the place in log of p's call that has not returned, or 0
  taken,      \* how many payloads the consumer has received
  answer      \* the last answer to the consumer

vars == <<log, open, taken, answer>>

Init ==
  /\ log = <<>>
  /\ open = [p \in Producers |-> 0]
  /\ taken = 0
  /\ answer = Nothing

Put(p, v) ==
  /\ open[p] = 0
  /\ log' = Append(log, v)
  /\ open' = [open EXCEPT ![p] = Len(log) + 1]
  /\ UNCHANGED <<taken, answer>>

Return(p) ==
  /\ open[p] # 0
  /\ open' = [open EXCEPT ![p] = 0]
  /\ UNCHANGED <<log, taken, answer>>

\* The next call in the order has not returned.
Unfinished == \E p \in Producers : open[p] = taken + 1

Get ==
  /\ taken < Len(log)
  /\ answer' = log[taken + 1]
  /\ taken' = taken + 1
  /\ UNCHANGED <<log, open>>

Miss ==
  /\ taken = Len(log) \/ Unfinished
  /\ answer' = Nothing
  /\ UNCHANGED <<log, open, taken>>

Next ==
  \/ \E p \in Producers, v \in Payloads : Put(p, v)
  \/ \E p \in Producers : Return(p)
  \/ Get
  \/ Miss

Spec == Init /\ [][Next]_vars
=============================================================================
