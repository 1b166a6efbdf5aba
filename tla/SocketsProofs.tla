---------------------------- MODULE SocketsProofs ----------------------------
(***************************************************************************)
(* Proofs about Sockets, for any objects and descriptors: an object holds  *)
(* only its own descriptor, and what leaks comes from calls that failed.   *)
(***************************************************************************)
EXTENDS Sockets, TLAPS

Places == {"idle", "handshake", "using"}

Types ==
  /\ made \subseteq Objects
  /\ isOpen \in [Objects -> BOOLEAN] /\ closing \in [Objects -> BOOLEAN]
  /\ sock \in [Objects -> Fds \cup {None}]
  /\ pc \in [Objects -> Places]
  /\ owner \in [Fds -> Objects \cup {Free}]
  /\ failed \subseteq Fds

\* An object that does not exist is not used, a Connect is on an object that is not
\* open, Close has the lock of an open one, and the failed calls' descriptors are open.
Orderly ==
  /\ \A o \in Objects \ made : ~isOpen[o] /\ ~closing[o] /\ pc[o] = "idle"
  /\ \A o \in Objects : pc[o] = "handshake" => ~isOpen[o]
  /\ \A o \in Objects : closing[o] => isOpen[o]
  /\ \A f \in failed : owner[f] # Free

IInv == Types /\ Orderly /\ OwnDescriptor /\ LeaksHaveCause

\* No descriptor is open at the start.
LEMMA InitIInv == Init => IInv
<1> SUFFICES ASSUME Init PROVE IInv
  OBVIOUS
<1>1. Types
  BY DEF Init, Types, Objects, Places
<1>2. Orderly
  BY DEF Init, Orderly
<1>3. OwnDescriptor /\ LeaksHaveCause
  BY DEF Init, OwnDescriptor, LeaksHaveCause, Holds, Objects
<1> QED
  BY <1>1, <1>2, <1>3 DEF IInv

\* Each step preserves it.
LEMMA NextIInv == IInv /\ [Next]_vars => IInv'
<1> SUFFICES ASSUME IInv, [Next]_vars PROVE IInv'
  OBVIOUS
<1> USE KindsAssumption, NamesAssumption
    DEF IInv, Types, Orderly, OwnDescriptor, LeaksHaveCause, Holds, Places, Objects, Unused, Idle,
        Goto, Opens
<1>1. ASSUME NEW o \in Objects, NoSocket(o) PROVE IInv'
  BY <1>1 DEF NoSocket
<1>2. ASSUME NEW o \in Objects, Connect(o) PROVE IInv'
  BY <1>2 DEF Connect
<1>3. ASSUME NEW o \in Objects, Refused(o) PROVE IInv'
  BY <1>3 DEF Refused
<1>4. ASSUME NEW o \in Objects, Shaken(o) PROVE IInv'
  <2>1. o \in made /\ ~isOpen[o] /\ ~closing[o] /\ sock[o] \in Fds /\ owner[sock[o]] = o
    BY <1>4 DEF Shaken
  <2>2. CASE isOpen' = [isOpen EXCEPT ![o] = TRUE] /\ UNCHANGED failed
    BY <1>4, <2>1, <2>2 DEF Shaken
  <2>3. CASE isOpen' = [isOpen EXCEPT ![o] = FALSE] /\ failed' = failed \cup {sock[o]}
    <3>1. Types' /\ Orderly'
      BY <1>4, <2>1, <2>3 DEF Shaken
    <3>2. OwnDescriptor'
      BY <1>4, <2>1, <2>3 DEF Shaken
    <3>3. LeaksHaveCause'
      BY <1>4, <2>1, <2>3 DEF Shaken
    <3> QED
      BY <3>1, <3>2, <3>3
  <2> QED
    BY <1>4, <2>2, <2>3 DEF Shaken
<1>5. ASSUME NEW o \in Objects, Open(o) PROVE IInv'
  BY <1>5 DEF Open
<1>6. ASSUME NEW o \in Objects, Use(o) PROVE IInv'
  BY <1>6 DEF Use
<1>7. ASSUME NEW o \in Objects, Used(o) PROVE IInv'
  BY <1>7 DEF Used
<1>8. ASSUME NEW o \in Objects, Accept(o) PROVE IInv'
  BY <1>8 DEF Accept
<1>9. ASSUME NEW o \in Objects, AcceptFails(o) PROVE IInv'
  BY <1>9 DEF AcceptFails
<1>10. ASSUME NEW o \in Objects, Close(o) PROVE IInv'
  BY <1>10 DEF Close, LockFree
<1>11. ASSUME NEW o \in Objects, Closed(o) PROVE IInv'
  BY <1>11 DEF Closed
<1>12. ASSUME NEW o \in Objects, Delete(o) PROVE IInv'
  BY <1>12 DEF Delete, ClosesAtEnd
<1>13. CASE UNCHANGED vars
  BY <1>13 DEF vars
<1> QED
  BY <1>1, <1>2, <1>3, <1>4, <1>5, <1>6, <1>7, <1>8, <1>9, <1>10, <1>11, <1>12, <1>13 DEF Next

\* However calls, deletions and Closes of other threads interleave, an object never
\* takes the descriptor of another for its own.
THEOREM OwnDescriptors == Spec => []OwnDescriptor
<1>1. IInv => OwnDescriptor
  BY DEF IInv
<1> QED
  BY <1>1, InitIInv, NextIInv, PTL DEF Spec

\* Only calls that failed leave a descriptor that nobody will close.
THEOREM LeaksExplained == Spec => []LeaksHaveCause
<1>1. IInv => LeaksHaveCause
  BY DEF IInv
<1> QED
  BY <1>1, InitIInv, NextIInv, PTL DEF Spec
=============================================================================
