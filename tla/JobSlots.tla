------------------------------ MODULE JobSlots ------------------------------
(***************************************************************************)
(* What a thread pool promises, without its locks: every thread has one    *)
(* slot, a slot holds at most one job, a job leaves its slot only by being *)
(* executed, and once the pool is stopped no slot is ever filled again.    *)
(***************************************************************************)
EXTENDS Naturals

CONSTANTS
  Slots,     \* one per thread of the pool
  Outside,   \* the program's threads that may execute a job themselves
  Jobs,      \* the functions handed to the pool
  NoJob      \* the empty slot

VARIABLES
  slot,      \* slot[s]: the job accepted by thread s and not yet executed
  ran,       \* ran[j][a]: how many times a executed j
  stopped    \* the pool has been told to stop, and obeyed

vars == <<slot, ran, stopped>>

Init ==
  /\ slot = [s \in Slots |-> NoJob]
  /\ ran = [j \in Jobs |-> [a \in Slots \cup Outside |-> 0]]
  /\ stopped = FALSE

Accept(s, j) ==
  /\ ~stopped
  /\ slot[s] = NoJob
  /\ slot' = [slot EXCEPT ![s] = j]
  /\ UNCHANGED <<ran, stopped>>

Finish(s) ==
  /\ slot[s] # NoJob
  /\ ran' = [ran EXCEPT ![slot[s]][s] = @ + 1]
  /\ slot' = [slot EXCEPT ![s] = NoJob]
  /\ UNCHANGED stopped

RunOutside(a, j) ==
  /\ ran' = [ran EXCEPT ![j][a] = @ + 1]
  /\ UNCHANGED <<slot, stopped>>

Stop ==
  /\ ~stopped
  /\ \A s \in Slots : slot[s] = NoJob
  /\ stopped' = TRUE
  /\ UNCHANGED <<slot, ran>>

Next ==
  \/ \E s \in Slots, j \in Jobs : Accept(s, j)
  \/ \E s \in Slots : Finish(s)
  \/ \E a \in Outside, j \in Jobs : RunOutside(a, j)
  \/ Stop

Spec == Init /\ [][Next]_vars
=============================================================================
