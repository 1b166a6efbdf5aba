------------------------------- MODULE Sockets -------------------------------
(***************************************************************************)
(* The descriptors behind the sockets: who opens, keeps and closes them in *)
(* ASocket, TCPClient, TCPListener and TCPListenerSSL.  The kernel gives a *)
(* closed descriptor to whoever asks next, so that an object that closes   *)
(* or reads a descriptor that is no longer its own disturbs another one.   *)
(*                                                                         *)
(* Each object has a thread that uses it, one call at a time; any thread   *)
(* may call Close, under m_lock.  Connect and Open are called on objects   *)
(* that are not open, WaitNewSocket on a listener that is.                 *)
(***************************************************************************)
CONSTANTS
  Fds,        \* the descriptors the kernel has
  Clients,    \* objects of TCPClient's default constructor
  Listeners,  \* TCPListener
  TLS,        \* those that are a TCPListenerSSL
  Accepted,   \* objects WaitNewSocket creates: a slot is used again after its deletion
  Free,       \* owner of a descriptor that is closed
  None        \* INVALID_SOCKET, and an m_sock never assigned

Objects == Clients \cup Listeners \cup Accepted

ASSUME KindsAssumption ==
  /\ TLS \subseteq Listeners
  /\ Clients \cap Accepted = {} /\ Clients \cap Listeners = {} /\ Listeners \cap Accepted = {}
ASSUME NamesAssumption == Free \notin Objects /\ None \notin Fds

VARIABLES
  made,     \* the objects that exist
  isOpen,   \* m_open
  sock,     \* m_sock
  closing,  \* Close has m_lock, and has closed m_sock
  pc,       \* what the thread that uses the object is in
  owner,    \* history: the object for which the kernel opened each descriptor
  failed    \* history: the descriptors of calls that failed

vars == <<made, isOpen, sock, closing, pc, owner, failed>>

Init ==
  /\ made = Clients \cup Listeners
  /\ isOpen = [o \in Objects |-> FALSE]
  /\ sock = [o \in Objects |-> None]
  /\ closing = [o \in Objects |-> FALSE]
  /\ pc = [o \in Objects |-> "idle"]
  /\ owner = [f \in Fds |-> Free]
  /\ failed = {}

\* socket and accept return any descriptor that is closed.
Unused == {f \in Fds : owner[f] = Free}

Idle(o) == o \in made /\ pc[o] = "idle"
Goto(o, place) == pc' = [pc EXCEPT ![o] = place]
Opens(o, f) == owner' = [owner EXCEPT ![f] = o]

-----------------------------------------------------------------------------
(* Opening.                                                                *)

\* socket fails, in Connect or in Open.
NoSocket(o) ==
  /\ o \in Clients \cup Listeners /\ Idle(o) /\ ~isOpen[o]
  /\ sock' = [sock EXCEPT ![o] = None]
  /\ UNCHANGED <<made, isOpen, closing, pc, owner, failed>>

\* connect succeeds: Connect goes on with InitHandshake, that waits for the answer.
Connect(o) ==
  /\ o \in Clients /\ Idle(o) /\ ~isOpen[o]
  /\ \E f \in Unused : Opens(o, f) /\ sock' = [sock EXCEPT ![o] = f]
  /\ Goto(o, "handshake")
  /\ UNCHANGED <<made, isOpen, closing, failed>>

\* connect, bind or listen fails: the function returns with the descriptor open.
Refused(o) ==
  /\ o \in Clients \cup Listeners /\ Idle(o) /\ ~isOpen[o]
  /\ \E f \in Unused :
       Opens(o, f) /\ sock' = [sock EXCEPT ![o] = f] /\ failed' = failed \cup {f}
  /\ UNCHANGED <<made, isOpen, closing, pc>>

\* m_open becomes what InitHandshake found: on a failure the descriptor stays open.
Shaken(o) ==
  /\ pc[o] = "handshake"
  /\ \/ isOpen' = [isOpen EXCEPT ![o] = TRUE] /\ UNCHANGED failed
     \/ isOpen' = [isOpen EXCEPT ![o] = FALSE] /\ failed' = failed \cup {sock[o]}
  /\ Goto(o, "idle")
  /\ UNCHANGED <<made, sock, closing, owner>>

\* TCPListener::Open.
Open(o) ==
  /\ o \in Listeners /\ Idle(o) /\ ~isOpen[o]
  /\ \E f \in Unused : Opens(o, f) /\ sock' = [sock EXCEPT ![o] = f]
  /\ isOpen' = [isOpen EXCEPT ![o] = TRUE]
  /\ UNCHANGED <<made, closing, pc, failed>>

-----------------------------------------------------------------------------
(* Using.                                                                  *)

\* Receive has read m_open, without the lock, WaitNewSocket was called on an open
\* listener: the thread is about to give m_sock to recv or to accept.
Use(o) ==
  /\ Idle(o) /\ isOpen[o]
  /\ Goto(o, "using")
  /\ UNCHANGED <<made, isOpen, sock, closing, owner, failed>>

\* recv returns, or accept fails.
Used(o) ==
  /\ pc[o] = "using"
  /\ Goto(o, "idle")
  /\ UNCHANGED <<made, isOpen, sock, closing, owner, failed>>

\* The descriptor m_sock names is one of a listener: it may be another's by now.
Listening(o) == owner[sock[o]] \in Listeners /\ sock[o] \notin failed

\* accept returns a connection, and WaitNewSocket an open client for it.
Accept(o) ==
  /\ o \in Listeners /\ pc[o] = "using" /\ Listening(o)
  /\ \E f \in Unused, c \in Accepted \ made :
       /\ Opens(c, f)
       /\ made' = made \cup {c}
       /\ isOpen' = [isOpen EXCEPT ![c] = TRUE]
       /\ sock' = [sock EXCEPT ![c] = f]
  /\ Goto(o, "idle")
  /\ UNCHANGED <<closing, failed>>

\* SSL_accept fails: the session is freed, the descriptor stays open.
AcceptFails(o) ==
  /\ o \in TLS /\ pc[o] = "using" /\ Listening(o)
  /\ \E f \in Unused : Opens(o, f) /\ failed' = failed \cup {f}
  /\ Goto(o, "idle")
  /\ UNCHANGED <<made, isOpen, sock, closing>>

-----------------------------------------------------------------------------
(* Closing.                                                                *)

LockIgnored(o) == TRUE  \* mutant: Close without the lock
LockFree(o) == ~closing[o]

\* closesocket, in a Close that has m_lock and found m_open: any thread may call it.
Close(o) ==
  /\ o \in made /\ LockFree(o) /\ isOpen[o]
  /\ owner' = [owner EXCEPT ![sock[o]] = Free]
  /\ failed' = failed \ {sock[o]}
  /\ closing' = [closing EXCEPT ![o] = TRUE]
  /\ UNCHANGED <<made, isOpen, sock, pc>>

\* m_open is reset, and m_lock released.
Closed(o) ==
  /\ closing[o]
  /\ isOpen' = [isOpen EXCEPT ![o] = FALSE]
  /\ closing' = [closing EXCEPT ![o] = FALSE]
  /\ UNCHANGED <<made, sock, pc, owner, failed>>

NeverCloses(o) == FALSE  \* mutant: the destructor leaves the descriptor
ClosesAtEnd(o) == isOpen[o]

\* ~ASocket closes what is open.  The program deletes an object nobody uses.
Delete(o) ==
  /\ Idle(o) /\ o \in Clients \cup Accepted /\ ~closing[o]
  /\ owner' = IF ClosesAtEnd(o) THEN [owner EXCEPT ![sock[o]] = Free] ELSE owner
  /\ made' = made \ {o}
  /\ isOpen' = [isOpen EXCEPT ![o] = FALSE]
  /\ UNCHANGED <<sock, closing, pc, failed>>

-----------------------------------------------------------------------------
(* The specification.                                                      *)

Next ==
  \E o \in Objects :
    \/ NoSocket(o) \/ Connect(o) \/ Refused(o) \/ Shaken(o) \/ Open(o)
    \/ Use(o) \/ Used(o) \/ Accept(o) \/ AcceptFails(o)
    \/ Close(o) \/ Closed(o) \/ Delete(o)

Spec == Init /\ [][Next]_vars

-----------------------------------------------------------------------------
(* Properties.                                                             *)

\* The object can take its descriptor for its own.
Holds(o) == (isOpen[o] /\ ~closing[o]) \/ pc[o] = "handshake"

\* However calls and a Close of another thread interleave, the descriptor an object
\* will close or read is the one that was opened for it: a Close never takes the
\* connection of another object, and only a call that Close overtook between the
\* test of m_open and recv can reach one.
OwnDescriptor ==
  \A o \in made : Holds(o) => sock[o] \in Fds /\ owner[sock[o]] = o /\ sock[o] \notin failed

\* A descriptor that is open, and that no object will close, is one of a Connect, an
\* Open or an SSL_accept that failed: nothing else leaks.
LeaksHaveCause ==
  \A f \in Fds : owner[f] # Free =>
    f \in failed \/ (owner[f] \in made /\ sock[owner[f]] = f /\ Holds(owner[f]))
=============================================================================
