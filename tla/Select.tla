------------------------------- MODULE Select -------------------------------
(***************************************************************************)
(* Yo::Network::Select, and a program that uses it: one thread calls Wait  *)
(* and, when it returns true, IsSet for each of its sockets; a socket that *)
(* is reported goes to a handler, that reads from it and then adds it      *)
(* again or closes it; other threads add and pop sockets at any time.      *)
(*                                                                         *)
(* m_lock is held from one step to the next only by Wait, from the end of  *)
(* its wait for a first socket to the return of select(); so every other   *)
(* call is one step that finds m_lock free, and m_lockASync is never held  *)
(* between steps.  A socket is its descriptor; a closed descriptor comes   *)
(* back with the next socket.                                              *)
(***************************************************************************)
EXTENDS Integers

CONSTANTS
  Sockets,   \* the descriptors, m_sock of the program's sockets
  Timeouts,  \* the timeouts the program sets
  Careful    \* TRUE: the program asks IsSet only about a socket that it has
             \* neither added with AddSocket nor popped since the last select()

ASSUME SocketsAssumption == Sockets \subseteq Nat
ASSUME TimeoutsAssumption == Timeouts \subseteq Nat
ASSUME CarefulAssumption == Careful \in BOOLEAN

INVALID_SOCKET == -1

VARIABLES
  m_fd,             \* the descriptors that are monitored
  m_fdList,         \* the bits that select() gets and gives
  last_fd,          \* the largest descriptor, more or less
  m_timeout,        \* the timeout that select() gets, and the time left that it gives
  m_timeoutSave,    \* the timeout that the program set
  m_tmpSocketList,  \* the sockets to add on the next Wait
  pc,               \* where the thread of Wait is
  toAsk,            \* the sockets it has still to call IsSet for
  open,             \* the sockets that exist
  ready,            \* those with something to read
  stage,            \* stage[s]: "added", "reported" by IsSet, "received" by its handler,
                    \* or "out"
  touched,          \* the sockets added with AddSocket or popped since the last select()
  selected          \* history: what the last select() returned

fds == <<m_fd, m_fdList, last_fd, m_tmpSocketList>>
times == <<m_timeout, m_timeoutSave>>
dispatcher == <<pc, toAsk>>
vars == <<fds, times, dispatcher, open, ready, stage, touched, selected>>

Init ==
  /\ m_fd = {}
  /\ m_fdList = {}
  /\ last_fd = INVALID_SOCKET
  /\ m_timeout = 0
  /\ m_timeoutSave = 0
  /\ m_tmpSocketList = {}
  /\ pc = "idle"
  /\ toAsk = {}
  /\ open = {}
  /\ ready = {}
  /\ stage = [s \in Sockets |-> "out"]
  /\ touched = {}
  /\ selected = {}

-----------------------------------------------------------------------------
(* Sockets come and go.                                                    *)

Open(s) ==
  /\ s \notin open
  /\ open' = open \cup {s}
  /\ UNCHANGED <<fds, times, dispatcher, ready, stage, touched, selected>>

\* The program closes no socket that Select still monitors or is to monitor.
Close(s) ==
  /\ s \in open
  /\ stage[s] # "added"
  /\ open' = open \ {s}
  /\ ready' = ready \ {s}
  /\ stage' = [stage EXCEPT ![s] = "out"]
  /\ UNCHANGED <<fds, times, dispatcher, touched, selected>>

Arrive(s) ==
  /\ s \in open \ ready
  /\ ready' = ready \cup {s}
  /\ UNCHANGED <<fds, times, dispatcher, open, stage, touched, selected>>

\* A handler's recv() returns: all there was, or a part of it.
Receive(s) ==
  /\ stage[s] = "reported"
  /\ s \in ready
  /\ stage' = [stage EXCEPT ![s] = "received"]
  /\ ready' \in {ready, ready \ {s}}
  /\ UNCHANGED <<fds, times, dispatcher, open, touched, selected>>

-----------------------------------------------------------------------------
(* Adding and removing.                                                    *)

\* m_lock is free.
LockFree == pc # "select"

\* The greatest element, as the loops over m_fd and m_tmpSocketList find it.
Greatest(S) == {m \in S : \A n \in S : n <= m}

\* The program may add a socket that it has not added, or that its handler is
\* done with.
MayAdd(s) == s \in open /\ stage[s] \in {"out", "received"}

AddSocketASync(s) ==
  /\ MayAdd(s)
  /\ m_tmpSocketList' = m_tmpSocketList \cup {s}
  /\ stage' = [stage EXCEPT ![s] = "added"]
  /\ UNCHANGED <<m_fd, m_fdList, last_fd, times, dispatcher, open, ready, touched, selected>>

\* Takes back AddSocketASync, unless Wait was first.
PopSocketFromASync(s) ==
  /\ stage[s] = "added"
  /\ m_tmpSocketList' = m_tmpSocketList \ {s}
  /\ stage' = [stage EXCEPT ![s] = IF s \in m_tmpSocketList THEN "out" ELSE @]
  /\ UNCHANGED <<m_fd, m_fdList, last_fd, times, dispatcher, open, ready, touched, selected>>

AddSocket(s) ==
  /\ MayAdd(s)
  /\ LockFree
  /\ m_fdList' = m_fdList \cup {s}
  /\ last_fd' \in Greatest({last_fd, s})
  /\ m_fd' = m_fd \cup {s}
  /\ stage' = [stage EXCEPT ![s] = "added"]
  /\ touched' = touched \cup {s}
  /\ UNCHANGED <<m_tmpSocketList, times, dispatcher, open, ready, selected>>

KeepPopped(s) == m_fd  \* mutant: IsSet leaves the socket monitored

\* m_fd after PopSocket_intern.
Popped(s) == m_fd \ {s}

\* last_fd after PopSocket_intern: the one before it in m_fd, if s was last_fd.
\* If there is none, what is before begin() is read, which can be anything.
LastAfter(s) ==
  LET before == {n \in m_fd : n < s} IN
  IF s \notin m_fd \/ s # last_fd THEN {last_fd}
  ELSE IF before # {} THEN Greatest(before)
  ELSE Sockets \cup {INVALID_SOCKET}

\* Leaves the bit of s in m_fdList as it is.
PopSocket(s) ==
  /\ s \in open
  /\ LockFree
  /\ m_fd' = Popped(s)
  /\ last_fd' \in LastAfter(s)
  /\ m_tmpSocketList' = m_tmpSocketList \ {s}
  /\ stage' = [stage EXCEPT ![s] = IF @ = "added" THEN "out" ELSE @]
  /\ touched' = touched \cup {s}
  /\ UNCHANGED <<m_fdList, times, dispatcher, open, ready, selected>>

NotSaved(t) == m_timeoutSave  \* mutant: m_timeoutSave is not set

Saved(t) == t

SetTimeout(t) ==
  /\ LockFree
  /\ m_timeout' = t
  /\ m_timeoutSave' = Saved(t)
  /\ UNCHANGED <<fds, dispatcher, open, ready, stage, touched, selected>>

-----------------------------------------------------------------------------
(* Wait.                                                                   *)

Dropped == m_fd  \* mutant: m_tmpSocketList is cleared before it is added

\* m_fd after the sockets of m_tmpSocketList were added to it.
Added == m_fd \cup m_tmpSocketList

KeptLast(S) == {last_fd}  \* mutant: Reset leaves last_fd

\* last_fd after Reset.
LastFd(S) == Greatest(S \cup {0})

\* m_timeout after Reset.
Restored(S) == IF S = {} THEN m_timeout ELSE m_timeoutSave

\* Reset, and select() is called for the sockets S with m_lock held.
EnterSelect(S) ==
  /\ m_fdList' = S
  /\ last_fd' \in LastFd(S)
  /\ m_timeout' = Restored(S)
  /\ touched' = {}
  /\ pc' = "select"

\* Wait, up to select() or, if there is nothing to monitor, to m_socketWaiter.wait_for.
Wait ==
  /\ pc = "idle"
  /\ m_fd' = Added
  /\ m_tmpSocketList' = {}
  /\ \/ /\ Added = {}
        /\ pc' = "waiting"
        /\ UNCHANGED <<m_fdList, last_fd, m_timeout, touched>>
     \/ /\ Added # {}
        /\ EnterSelect(Added)
  /\ UNCHANGED <<m_timeoutSave, toAsk, open, ready, stage, selected>>

\* wait_for returns: AddSocket has added one, or a second is over.
WaitFor ==
  /\ pc = "waiting"
  /\ \/ /\ last_fd = INVALID_SOCKET
        /\ pc' = "idle"
        /\ UNCHANGED <<m_fdList, last_fd, m_timeout, touched>>
     \/ /\ last_fd # INVALID_SOCKET
        /\ EnterSelect(m_fd)
  /\ UNCHANGED <<m_fd, m_tmpSocketList, m_timeoutSave, toAsk, open, ready, stage, selected>>

\* What select() looks at, and what it finds.
Examined == {s \in m_fdList : s <= last_fd}
Hits == Examined \cap ready

TrueUnlessZero(ret) == ret # 0  \* mutant: an error is an event

\* What Wait makes of the result of select().
Event(ret) == ret > 0

\* select() returns ret and leaves the bits in S, and Wait returns.
Return(ret, S) ==
  /\ m_fdList' = S
  /\ selected' = IF ret > 0 THEN S ELSE {}
  /\ IF Event(ret) /\ open # {}
     THEN pc' = "ask" /\ toAsk' = open
     ELSE pc' = "idle" /\ UNCHANGED toAsk
  /\ UNCHANGED <<m_fd, last_fd, m_tmpSocketList, m_timeoutSave, open, ready, stage, touched>>

SelectReady ==
  /\ pc = "select"
  /\ Examined \subseteq open
  /\ Hits # {}
  /\ m_timeout' \in 0 .. m_timeout
  /\ Return(1, Hits)

SelectTimeout ==
  /\ pc = "select"
  /\ Examined \subseteq open
  /\ Hits = {}
  /\ m_timeout' = 0
  /\ Return(0, {})

\* EINTR, or EBADF for a descriptor that is closed: the bits stay as they were.
SelectFails ==
  /\ pc = "select"
  /\ m_timeout' \in 0 .. m_timeout
  /\ Return(-1, m_fdList)

-----------------------------------------------------------------------------
(* IsSet, for one socket after the other when Wait has returned true.      *)

Asked(s) ==
  /\ pc = "ask"
  /\ s \in toAsk
  /\ toAsk' = toAsk \ {s}
  /\ pc' = IF toAsk = {s} THEN "idle" ELSE "ask"
  /\ UNCHANGED <<m_tmpSocketList, times, open, ready, touched, selected>>

IsSet(s) ==
  /\ Asked(s)
  /\ Careful => s \notin touched
  /\ \/ /\ s \in open /\ s \in m_fdList
        /\ m_fdList' = m_fdList \ {s}
        /\ m_fd' = Popped(s)
        /\ last_fd' \in LastAfter(s)
        /\ stage' = [stage EXCEPT ![s] = "reported"]
     \/ /\ s \notin open \/ s \notin m_fdList
        /\ UNCHANGED <<m_fd, m_fdList, last_fd, stage>>

\* A careful program does not ask.
Skip(s) ==
  /\ Asked(s)
  /\ Careful
  /\ s \in touched
  /\ UNCHANGED <<m_fd, m_fdList, last_fd, stage>>

-----------------------------------------------------------------------------
DispatcherStep ==
  \/ Wait \/ WaitFor
  \/ SelectReady \/ SelectTimeout \/ SelectFails
  \/ \E s \in Sockets : IsSet(s) \/ Skip(s)

ProgramStep(s) ==
  \/ Open(s) \/ Close(s) \/ Arrive(s) \/ Receive(s)
  \/ AddSocketASync(s) \/ PopSocketFromASync(s)
  \/ AddSocket(s) \/ PopSocket(s)

Next ==
  \/ DispatcherStep
  \/ \E s \in Sockets : ProgramStep(s)
  \/ \E t \in Timeouts : SetTimeout(t)

\* The thread of Wait goes on, and not every select() is interrupted.
Fairness == WF_vars(DispatcherStep) /\ SF_vars(SelectReady)

Safe == Init /\ [][Next]_vars
Spec == Safe /\ Fairness

-----------------------------------------------------------------------------
\* Every variable has a value of its type; the time left is never more than the
\* timeout that was set.
TypeOK ==
  /\ m_fd \subseteq Sockets
  /\ m_fdList \subseteq Sockets
  /\ last_fd \in Int
  /\ m_timeout \in Nat
  /\ m_timeoutSave \in Nat
  /\ m_timeout <= m_timeoutSave
  /\ m_tmpSocketList \subseteq Sockets
  /\ pc \in {"idle", "waiting", "select", "ask"}
  /\ toAsk \subseteq Sockets
  /\ open \subseteq Sockets
  /\ ready \subseteq open
  /\ stage \in [Sockets -> {"out", "added", "reported", "received"}]
  /\ touched \subseteq Sockets
  /\ selected \subseteq Sockets

\* While the program waits in select() it waits for every socket that is monitored,
\* for none that is closed (one closed descriptor would make every select() fail),
\* and, if there is one at all, as long as it was told to.
SelectSeesAll ==
  pc = "select" =>
    /\ m_fdList = m_fd
    /\ Examined = m_fd
    /\ m_fd \subseteq open
    /\ m_fd # {} => m_timeout = m_timeoutSave

\* A socket that was reported is its handler's alone: it is not monitored and not to
\* be monitored, so that it is not reported to a second one; and the handler's first
\* recv() does not block.
HandlerOwns ==
  \A s \in Sockets : stage[s] # "added" =>
    /\ s \notin m_fd \cup m_tmpSocketList
    /\ stage[s] = "reported" => s \in ready

\* `Check if a socket has been set in previous select' (Select.cpp:93): IsSet returns
\* true only for a socket that the last select() has returned.
ReportsLastSelect ==
  [][\A s \in Sockets : stage'[s] = "reported" /\ stage[s] # "reported" => s \in selected]_vars

Monitor == INSTANCE ReadySockets WITH
  watched <- m_fd \cup m_tmpSocketList,
  handed <- {s \in Sockets : stage[s] \in {"reported", "received"}}

\* Select and its two lists implement the one-shot monitor.
ImplementsMonitor == Monitor!Spec

\* A socket that was added, by either call, and has something to read, is reported,
\* unless the program takes it back.
EventuallyReported ==
  \A s \in Sockets : (stage[s] = "added" /\ s \in ready) ~> stage[s] # "added"
=============================================================================
