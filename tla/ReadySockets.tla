---------------------------- MODULE ReadySockets -----------------------------
(***************************************************************************)
(* What a one-shot monitor of sockets promises: it reports only a socket   *)
(* that is watched and ready, and a socket that was reported is its        *)
(* handler's alone until the handler has it watched again or closes it.    *)
(***************************************************************************)
EXTENDS Naturals

CONSTANTS
  Sockets  \* the descriptors

VARIABLES
  open,     \* the descriptors in use
  ready,    \* those with something to read
  watched,  \* those to be reported
  handed    \* those that were reported, and have a handler

vars == <<open, ready, watched, handed>>

Init ==
  /\ open = {}
  /\ ready = {}
  /\ watched = {}
  /\ handed = {}

Open(s) ==
  /\ s \notin open
  /\ open' = open \cup {s}
  /\ UNCHANGED <<ready, watched, handed>>

Close(s) ==
  /\ s \in open \ watched
  /\ open' = open \ {s}
  /\ ready' = ready \ {s}
  /\ handed' = handed \ {s}
  /\ UNCHANGED watched

Arrive(s) ==
  /\ s \in open
  /\ ready' = ready \cup {s}
  /\ UNCHANGED <<open, watched, handed>>

Watch(s) ==
  /\ s \in open \ watched
  /\ watched' = watched \cup {s}
  /\ handed' = handed \ {s}
  /\ UNCHANGED <<open, ready>>

Unwatch(s) ==
  /\ watched' = watched \ {s}
  /\ UNCHANGED <<open, ready, handed>>

Report(s) ==
  /\ s \in watched \cap ready
  /\ watched' = watched \ {s}
  /\ handed' = handed \cup {s}
  /\ UNCHANGED <<open, ready>>

Read(s) ==
  /\ s \in handed \cap ready
  /\ ready' = ready \ {s}
  /\ UNCHANGED <<open, watched, handed>>

Next ==
  \E s \in Sockets :
    \/ Open(s) \/ Close(s) \/ Arrive(s)
    \/ Watch(s) \/ Unwatch(s) \/ Report(s) \/ Read(s)

Spec == Init /\ [][Next]_vars
=============================================================================
