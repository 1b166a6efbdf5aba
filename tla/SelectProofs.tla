---------------------------- MODULE SelectProofs -----------------------------
(***************************************************************************)
(* Select monitors what it was told to, and implements ReadySockets for a  *)
(* careful program, for any descriptors and timeouts.                      *)
(***************************************************************************)
EXTENDS Select, TLAPS

Monitored == m_fd \cup m_tmpSocketList

\* The sockets the program has added are those in one of the two lists.
Staged ==
  /\ m_fd \cap m_tmpSocketList = {}
  /\ \A s \in Sockets : stage[s] = "added" <=> s \in Monitored

\* A socket that is closed is nobody's.
Closed == \A s \in Sockets : s \notin open => stage[s] = "out"

\* A handler that has not read yet has something to read.
Readable == \A s \in Sockets : stage[s] = "reported" => s \in ready

\* While the program asks, a bit that was not touched since is a result of select().
Results ==
  pc = "ask" => \A s \in m_fdList \ touched : s \in selected /\ s \in ready /\ s \in m_fd

IInv == TypeOK /\ Staged /\ Closed /\ Readable /\ SelectSeesAll /\ Results

-----------------------------------------------------------------------------
LEMMA InitIInv == Init => IInv
BY DEF Init, IInv, TypeOK, Staged, Closed, Readable, SelectSeesAll, Results, Monitored,
       INVALID_SOCKET

\* Sockets are numbers, and what is taken for the largest is one too.
LEMMA Numbers ==
  /\ INVALID_SOCKET \in Int
  /\ \A s \in Sockets : s \in Nat
  BY SocketsAssumption DEF INVALID_SOCKET

-----------------------------------------------------------------------------
(* The program's steps.                                                    *)

LEMMA SocketStep ==
  ASSUME IInv, NEW s \in Sockets, Open(s) \/ Close(s) \/ Arrive(s) \/ Receive(s)
  PROVE  IInv'
<1> USE DEF IInv
<1>1. /\ UNCHANGED <<fds, times, dispatcher, touched, selected>>
      /\ \A x \in Sockets : x # s => /\ stage'[x] = stage[x]
                                     /\ x \in open' <=> x \in open
                                     /\ x \in ready' <=> x \in ready
  BY DEF Open, Close, Arrive, Receive, TypeOK
<1>2. TypeOK'
  BY <1>1 DEF Open, Close, Arrive, Receive, TypeOK, fds, times, dispatcher
<1>3. /\ stage[s] = "added" <=> stage'[s] = "added"
      /\ s \notin open' => stage'[s] = "out"
      /\ stage'[s] = "reported" => s \in ready'
      /\ s \in ready /\ stage[s] = "added" => s \in ready'
      /\ s \in open /\ stage[s] = "added" => s \in open'
  BY DEF Open, Close, Arrive, Receive, Closed, Readable, TypeOK
<1>4. Staged'
  BY <1>1, <1>3 DEF Staged, Monitored, fds
<1>5. Closed' /\ Readable'
  BY <1>1, <1>3 DEF Closed, Readable
<1>6. SelectSeesAll'
  <2>1. ASSUME NEW x \in m_fd, m_fd \subseteq open PROVE x \in open'
    BY <1>1, <1>3, <2>1 DEF Staged, Monitored, TypeOK
  <2> QED
    BY <1>1, <2>1 DEF SelectSeesAll, Examined, fds, times, dispatcher
<1>7. Results'
  <2>1. ASSUME NEW x \in m_fd, x \in ready PROVE x \in ready'
    BY <1>1, <1>3, <2>1 DEF Staged, Monitored, TypeOK
  <2> QED
    BY <1>1, <2>1 DEF Results, fds, dispatcher
<1> QED
  BY <1>2, <1>4, <1>5, <1>6, <1>7

LEMMA ASyncStep ==
  ASSUME IInv, NEW s \in Sockets, AddSocketASync(s) \/ PopSocketFromASync(s)
  PROVE  IInv'
<1> USE DEF IInv
<1>1. /\ UNCHANGED <<m_fd, m_fdList, last_fd, times, dispatcher, open, ready, touched, selected>>
      /\ \A x \in Sockets : x # s => /\ stage'[x] = stage[x]
                                     /\ x \in m_tmpSocketList' <=> x \in m_tmpSocketList
  BY DEF AddSocketASync, PopSocketFromASync, TypeOK
<1>2. TypeOK'
  BY <1>1 DEF AddSocketASync, PopSocketFromASync, TypeOK, times, dispatcher
<1>3. Staged'
  <2>1. CASE AddSocketASync(s)
    <3>1. s \notin m_fd /\ stage'[s] = "added" /\ m_tmpSocketList' = m_tmpSocketList \cup {s}
      BY <2>1 DEF AddSocketASync, MayAdd, Staged, Monitored, TypeOK
    <3> QED
      BY <1>1, <3>1 DEF Staged, Monitored
  <2>2. CASE PopSocketFromASync(s)
    <3>1. /\ m_tmpSocketList' = m_tmpSocketList \ {s}
          /\ s \in m_tmpSocketList => stage'[s] = "out" /\ s \notin m_fd
          /\ s \notin m_tmpSocketList => stage'[s] = "added" /\ s \in m_fd
      BY <2>2 DEF PopSocketFromASync, Staged, Monitored, TypeOK
    <3> QED
      BY <1>1, <3>1 DEF Staged, Monitored
  <2> QED
    BY <2>1, <2>2
<1>4. Closed' /\ Readable'
  BY <1>1 DEF AddSocketASync, PopSocketFromASync, MayAdd, Closed, Readable, TypeOK
<1>5. SelectSeesAll' /\ Results'
  BY <1>1 DEF SelectSeesAll, Examined, Results, times, dispatcher
<1> QED
  BY <1>2, <1>3, <1>4, <1>5

LEMMA AddStep ==
  ASSUME IInv, NEW s \in Sockets, AddSocket(s)
  PROVE  IInv'
<1> USE DEF IInv
<1>1. /\ m_fd' = m_fd \cup {s} /\ m_fdList' = m_fdList \cup {s} /\ touched' = touched \cup {s}
      /\ UNCHANGED <<m_tmpSocketList, times, dispatcher, open, ready, selected>>
      /\ s \in open /\ s \notin Monitored /\ pc' # "select"
      /\ stage' = [stage EXCEPT ![s] = "added"]
  BY DEF AddSocket, MayAdd, LockFree, Staged, dispatcher
<1>2. last_fd' \in Int
  BY Numbers DEF AddSocket, Greatest, TypeOK
<1>3. TypeOK'
  BY <1>1, <1>2 DEF TypeOK, times, dispatcher
<1>4. Staged' /\ Closed' /\ Readable'
  BY <1>1 DEF Staged, Closed, Readable, Monitored, TypeOK
<1>5. SelectSeesAll' /\ Results'
  BY <1>1 DEF SelectSeesAll, Results, dispatcher
<1> QED
  BY <1>3, <1>4, <1>5

LEMMA LastType ==
  ASSUME TypeOK, NEW s \in Sockets, NEW l \in LastAfter(s)
  PROVE  l \in Int
BY Numbers DEF LastAfter, Greatest, TypeOK

LEMMA PopStep ==
  ASSUME IInv, NEW s \in Sockets, PopSocket(s)
  PROVE  IInv'
<1> USE DEF IInv
<1>1. /\ m_fd' = m_fd \ {s} /\ m_tmpSocketList' = m_tmpSocketList \ {s}
      /\ touched' = touched \cup {s}
      /\ UNCHANGED <<m_fdList, times, dispatcher, open, ready, selected>>
      /\ pc' # "select"
      /\ stage'[s] # "added" /\ (stage[s] # "added" => stage'[s] = stage[s])
      /\ stage[s] = "added" => stage'[s] = "out"
      /\ \A x \in Sockets : x # s => stage'[x] = stage[x]
      /\ stage' \in [Sockets -> {"out", "added", "reported", "received"}]
  BY DEF PopSocket, Popped, LockFree, TypeOK, dispatcher
<1>2. last_fd' \in Int
  BY LastType DEF PopSocket
<1>3. TypeOK'
  BY <1>1, <1>2 DEF TypeOK, times, dispatcher
<1>4. Staged' /\ Closed' /\ Readable'
  BY <1>1 DEF Staged, Closed, Readable, Monitored
<1>5. SelectSeesAll' /\ Results'
  BY <1>1 DEF SelectSeesAll, Results, dispatcher
<1> QED
  BY <1>3, <1>4, <1>5

LEMMA TimeoutStep ==
  ASSUME IInv, NEW t \in Timeouts, SetTimeout(t)
  PROVE  IInv'
<1> USE DEF IInv
<1>1. /\ m_timeout' = t /\ m_timeoutSave' = t /\ t \in Nat /\ t <= t
      /\ UNCHANGED <<fds, dispatcher, open, ready, stage, touched, selected>> /\ pc # "select"
  BY TimeoutsAssumption DEF SetTimeout, Saved, LockFree
<1>2. TypeOK'
  BY <1>1 DEF TypeOK, fds, dispatcher
<1>3. Staged' /\ Closed' /\ Readable' /\ SelectSeesAll' /\ Results'
  BY <1>1 DEF Staged, Closed, Readable, SelectSeesAll, Results, Monitored, fds, dispatcher
<1> QED
  BY <1>2, <1>3

-----------------------------------------------------------------------------
(* The steps of Wait.                                                      *)

LEMMA EnterStep ==
  ASSUME IInv, NEW S \in SUBSET Sockets, EnterSelect(S), m_fd' = S, S \subseteq open,
         UNCHANGED <<m_timeoutSave, toAsk, open, ready, stage, selected>>,
         m_tmpSocketList' \subseteq Sockets
  PROVE  TypeOK' /\ SelectSeesAll' /\ Results'
<1> USE DEF IInv
<1>1. /\ m_fdList' = S /\ touched' = {} /\ pc' = "select"
      /\ last_fd' \in LastFd(S) /\ m_timeout' = Restored(S)
  BY DEF EnterSelect
<1>2. last_fd' \in Int /\ \A s \in S : s <= last_fd'
  BY <1>1, Numbers DEF LastFd, Greatest
<1>3. m_timeout' \in Nat /\ m_timeout' <= m_timeoutSave /\ (S # {} => m_timeout' = m_timeoutSave)
  BY <1>1 DEF Restored, TypeOK
<1>4. TypeOK'
  BY <1>1, <1>2, <1>3 DEF TypeOK
<1>5. SelectSeesAll'
  BY <1>1, <1>2, <1>3 DEF SelectSeesAll, Examined
<1> QED
  BY <1>1, <1>4, <1>5 DEF Results

LEMMA WaitStep ==
  ASSUME IInv, Wait \/ WaitFor
  PROVE  IInv'
<1> USE DEF IInv
<1>1. Monitored \subseteq open /\ Monitored \subseteq Sockets
  BY DEF Staged, Closed, Monitored, TypeOK
<1>2. /\ UNCHANGED <<m_timeoutSave, toAsk, open, ready, stage, selected>>
      /\ m_tmpSocketList' \subseteq Sockets /\ Monitored' = Monitored
      /\ m_fd' \cap m_tmpSocketList' = {} /\ m_fd' \subseteq Monitored
  BY DEF Wait, WaitFor, Added, Monitored, Staged, TypeOK
<1>3. Staged' /\ Closed' /\ Readable'
  BY <1>2 DEF Staged, Closed, Readable
<1>4. \/ EnterSelect(m_fd')
      \/ pc' \in {"waiting", "idle"} /\ UNCHANGED <<m_fdList, last_fd, m_timeout, touched>>
  BY DEF Wait, WaitFor
<1>5. CASE EnterSelect(m_fd')
  <2>1. PICK S \in SUBSET Sockets : S = m_fd'
    BY <1>1, <1>2
  <2> QED
    BY <1>1, <1>2, <1>3, <1>5, <2>1, EnterStep
<1>6. CASE pc' \in {"waiting", "idle"} /\ UNCHANGED <<m_fdList, last_fd, m_timeout, touched>>
  <2>1. TypeOK'
    BY <1>1, <1>2, <1>6 DEF TypeOK
  <2> QED
    BY <1>3, <1>6, <2>1 DEF SelectSeesAll, Results
<1> QED
  BY <1>4, <1>5, <1>6

LEMMA ReturnStep ==
  ASSUME IInv, pc = "select", NEW ret \in Int, NEW S \in SUBSET Sockets, Return(ret, S),
         m_timeout' \in 0 .. m_timeout, ret > 0 => S \subseteq Hits
  PROVE  IInv'
<1> USE DEF IInv
<1>1. /\ m_fdList' = S /\ pc' \in {"ask", "idle"} /\ toAsk' \in {open, toAsk}
      /\ selected' \in {S, {}} /\ (pc' = "ask" => selected' = S /\ S \subseteq Hits)
      /\ UNCHANGED <<m_fd, last_fd, m_tmpSocketList, m_timeoutSave, open, ready, stage, touched>>
  BY DEF Return, Event
<1>2. Hits \subseteq m_fd \cap ready
  BY DEF SelectSeesAll, Hits
<1>3. m_timeout' \in Nat /\ m_timeout' <= m_timeoutSave
  BY DEF TypeOK
<1>4. TypeOK'
  BY <1>1, <1>3 DEF TypeOK
<1>5. Staged' /\ Closed' /\ Readable' /\ SelectSeesAll'
  BY <1>1 DEF Staged, Closed, Readable, SelectSeesAll, Monitored
<1>6. Results'
  BY <1>1, <1>2 DEF Results
<1> QED
  BY <1>4, <1>5, <1>6

LEMMA SelectStep ==
  ASSUME IInv, SelectReady \/ SelectTimeout \/ SelectFails
  PROVE  IInv'
<1>1. /\ pc = "select" /\ m_timeout \in Nat /\ m_fdList \in SUBSET Sockets
      /\ Hits \in SUBSET Sockets /\ {} \in SUBSET Sockets
  BY DEF IInv, TypeOK, SelectReady, SelectTimeout, SelectFails, Hits, Examined
<1>2. CASE SelectReady
  BY <1>1, <1>2, ReturnStep DEF SelectReady
<1>3. CASE SelectTimeout
  BY <1>1, <1>3, ReturnStep DEF SelectTimeout
<1>4. CASE SelectFails
  BY <1>1, <1>4, ReturnStep DEF SelectFails
<1> QED
  BY <1>2, <1>3, <1>4

-----------------------------------------------------------------------------
(* The questions of a careful program.                                     *)

\* A socket is reported only when it was selected, is ready and is monitored.
LEMMA ReportSound ==
  ASSUME IInv, Careful, NEW s \in Sockets, IsSet(s), s \in open, s \in m_fdList
  PROVE  s \in selected /\ s \in ready /\ s \in m_fd /\ s \notin m_tmpSocketList
<1>1. pc = "ask" /\ s \notin touched
  BY DEF IsSet, Asked
<1> QED
  BY <1>1 DEF IInv, Results, Staged

LEMMA AskStep ==
  ASSUME IInv, Careful, NEW s \in Sockets, IsSet(s) \/ Skip(s)
  PROVE  IInv'
<1> USE DEF IInv
<1>1. /\ pc = "ask" /\ pc' \in {"ask", "idle"} /\ toAsk' \subseteq Sockets
      /\ UNCHANGED <<m_tmpSocketList, times, open, ready, touched, selected>>
  BY DEF IsSet, Skip, Asked, TypeOK
<1>2. CASE UNCHANGED <<m_fd, m_fdList, last_fd, stage>>
  <2>1. TypeOK'
    BY <1>1, <1>2 DEF TypeOK, times
  <2>2. Staged' /\ Closed' /\ Readable' /\ SelectSeesAll' /\ Results'
    BY <1>1, <1>2 DEF Staged, Closed, Readable, SelectSeesAll, Results, Monitored
  <2> QED
    BY <2>1, <2>2
<1>3. CASE /\ IsSet(s) /\ s \in open /\ s \in m_fdList
           /\ m_fdList' = m_fdList \ {s} /\ m_fd' = Popped(s) /\ last_fd' \in LastAfter(s)
           /\ stage' = [stage EXCEPT ![s] = "reported"]
  <2>1. s \in ready /\ s \in m_fd /\ s \notin m_tmpSocketList
    BY <1>3, ReportSound
  <2>2. last_fd' \in Int
    BY <1>3, LastType
  <2>3. TypeOK'
    BY <1>1, <1>3, <2>2 DEF TypeOK, Popped, times
  <2>4. Staged' /\ Closed' /\ Readable'
    BY <1>1, <1>3, <2>1 DEF Staged, Closed, Readable, Monitored, Popped, TypeOK
  <2>5. SelectSeesAll' /\ Results'
    BY <1>1, <1>3 DEF SelectSeesAll, Results, Popped
  <2> QED
    BY <2>3, <2>4, <2>5
<1> QED
  BY <1>2, <1>3 DEF IsSet, Skip

LEMMA StepIInv ==
  ASSUME Careful
  PROVE  IInv /\ [Next]_vars => IInv'
<1> SUFFICES ASSUME IInv, [Next]_vars PROVE IInv'
  OBVIOUS
<1>1. CASE UNCHANGED vars
  <2>1. TypeOK'
    BY <1>1 DEF IInv, TypeOK, vars, fds, times, dispatcher
  <2>2. Staged' /\ Closed' /\ Readable'
    BY <1>1 DEF IInv, Staged, Closed, Readable, Monitored, vars, fds
  <2>3. SelectSeesAll' /\ Results'
    BY <1>1 DEF IInv, SelectSeesAll, Examined, Results, vars, fds, times, dispatcher
  <2> QED
    BY <2>1, <2>2, <2>3 DEF IInv
<1>2. CASE DispatcherStep
  BY <1>2, WaitStep, SelectStep, AskStep DEF DispatcherStep
<1>3. ASSUME NEW s \in Sockets, ProgramStep(s) PROVE IInv'
  BY <1>3, SocketStep, ASyncStep, AddStep, PopStep DEF ProgramStep
<1>4. ASSUME NEW t \in Timeouts, SetTimeout(t) PROVE IInv'
  BY <1>4, TimeoutStep
<1> QED
  BY <1>1, <1>2, <1>3, <1>4 DEF Next

LEMMA Inductive ==
  ASSUME Careful
  PROVE  Spec => []IInv
<1>1. IInv /\ [Next]_vars => IInv'
  BY StepIInv
<1> QED
  BY InitIInv, <1>1, PTL DEF Spec, Safe

-----------------------------------------------------------------------------
\* Every variable keeps its type, and the time left never exceeds the timeout.
THEOREM TypeCorrect ==
  ASSUME Careful
  PROVE  Spec => []TypeOK
<1>1. IInv => TypeOK
  BY DEF IInv
<1> QED
  BY <1>1, Inductive, PTL

\* select() is called for exactly the sockets that are monitored, all of them open,
\* below the bound it is given and with the whole timeout.
THEOREM MonitorSafe ==
  ASSUME Careful
  PROVE  Spec => []SelectSeesAll
<1>1. IInv => SelectSeesAll
  BY DEF IInv
<1> QED
  BY <1>1, Inductive, PTL

\* A socket that was reported is in neither list of Select and has something to read.
THEOREM HandlerSafe ==
  ASSUME Careful
  PROVE  Spec => []HandlerOwns
<1>1. IInv => HandlerOwns
  BY DEF IInv, Staged, Readable, HandlerOwns, Monitored
<1> QED
  BY <1>1, Inductive, PTL

\* Only IsSet gives a socket to a handler, and only one that has its bit.
LEMMA ReportedStep ==
  ASSUME TypeOK, Next, NEW s \in Sockets, stage'[s] = "reported", stage[s] # "reported"
  PROVE  IsSet(s) /\ s \in open /\ s \in m_fdList
<1>1. ASSUME NEW x \in Sockets, ProgramStep(x) PROVE FALSE
  <2>1. \/ UNCHANGED stage
        \/ \E v \in {"out", "added", "received"} : stage' = [stage EXCEPT ![x] = v]
        \/ PopSocketFromASync(x) \/ PopSocket(x)
    BY <1>1 DEF ProgramStep, Open, Close, Arrive, Receive, AddSocketASync, AddSocket
  <2>2. CASE PopSocketFromASync(x) \/ PopSocket(x)
    BY <2>2 DEF PopSocketFromASync, PopSocket, TypeOK
  <2> QED
    BY <2>1, <2>2 DEF TypeOK
<1>2. ASSUME NEW t \in Timeouts, SetTimeout(t) PROVE FALSE
  BY <1>2 DEF SetTimeout
<1>3. CASE Wait \/ WaitFor \/ SelectReady \/ SelectTimeout \/ SelectFails
  BY <1>3 DEF Wait, WaitFor, SelectReady, SelectTimeout, SelectFails, Return
<1>4. ASSUME NEW x \in Sockets, IsSet(x) \/ Skip(x)
      PROVE  IsSet(s) /\ s \in open /\ s \in m_fdList
  <2>1. stage' = [stage EXCEPT ![x] = "reported"] /\ IsSet(x) /\ x \in open /\ x \in m_fdList
    BY <1>4 DEF IsSet, Skip
  <2> QED
    BY <2>1 DEF TypeOK
<1> QED
  BY <1>1, <1>2, <1>3, <1>4 DEF Next, DispatcherStep

\* A careful program learns from IsSet only what the last select() returned.
THEOREM ReportsSafe ==
  ASSUME Careful
  PROVE  Spec => ReportsLastSelect
<1>1. IInv /\ [Next]_vars =>
        [\A s \in Sockets : stage'[s] = "reported" /\ stage[s] # "reported" => s \in selected]_vars
  <2> SUFFICES ASSUME IInv, Next, NEW s \in Sockets,
                      stage'[s] = "reported", stage[s] # "reported"
               PROVE  s \in selected
    OBVIOUS
  <2>1. IsSet(s) /\ s \in open /\ s \in m_fdList
    BY ReportedStep DEF IInv
  <2> QED
    BY <2>1, ReportSound
<1> QED
  BY <1>1, Inductive, PTL DEF Spec, Safe, ReportsLastSelect

-----------------------------------------------------------------------------
(* The one-shot monitor.                                                   *)

LEMMA InitMaps == Init => Monitor!Init
BY DEF Init, Monitor!Init

LEMMA ProgramMaps ==
  ASSUME IInv, NEW s \in Sockets, ProgramStep(s)
  PROVE  [Monitor!Next]_(Monitor!vars)
<1> USE DEF IInv
<1> DEFINE handed == {x \in Sockets : stage[x] \in {"reported", "received"}}
<1>1. CASE Open(s)
  <2>1. Monitor!Open(s)
    BY <1>1 DEF Open, Monitor!Open, fds
  <2> QED
    BY <2>1 DEF Monitor!Next
<1>2. CASE Close(s)
  <2>1. s \notin Monitored /\ handed' = handed \ {s}
    BY <1>2 DEF Close, Staged, TypeOK
  <2>2. Monitor!Close(s)
    BY <1>2, <2>1 DEF Close, Monitor!Close, Monitored, fds
  <2> QED
    BY <2>2 DEF Monitor!Next
<1>3. CASE Arrive(s)
  <2>1. Monitor!Arrive(s)
    BY <1>3 DEF Arrive, Monitor!Arrive, fds
  <2> QED
    BY <2>1 DEF Monitor!Next
<1>4. CASE Receive(s)
  <2>1. handed' = handed /\ s \in handed
    BY <1>4 DEF Receive, TypeOK
  <2>2. Monitor!Read(s) \/ UNCHANGED Monitor!vars
    BY <1>4, <2>1 DEF Receive, Monitor!Read, Monitor!vars, fds
  <2> QED
    BY <2>2 DEF Monitor!Next
<1>5. CASE AddSocketASync(s) \/ AddSocket(s)
  <2>1. /\ s \in open /\ s \notin Monitored /\ Monitored' = Monitored \cup {s}
        /\ UNCHANGED <<open, ready>> /\ stage' = [stage EXCEPT ![s] = "added"]
    BY <1>5 DEF AddSocketASync, AddSocket, MayAdd, Staged, Monitored
  <2>2. handed' = handed \ {s}
    BY <2>1 DEF TypeOK
  <2>3. Monitor!Watch(s)
    BY <2>1, <2>2 DEF Monitor!Watch, Monitored
  <2> QED
    BY <2>3 DEF Monitor!Next
<1>6. CASE PopSocketFromASync(s) \/ PopSocket(s)
  <2>1. /\ UNCHANGED <<open, ready>>
        /\ Monitored' = Monitored \ {s} \/ Monitored' = Monitored
    BY <1>6 DEF PopSocketFromASync, PopSocket, Popped, Staged, Monitored
  <2>2. handed' = handed
    BY <1>6 DEF PopSocketFromASync, PopSocket, TypeOK
  <2>3. Monitor!Unwatch(s) \/ UNCHANGED Monitor!vars
    BY <2>1, <2>2 DEF Monitor!Unwatch, Monitor!vars, Monitored
  <2> QED
    BY <2>3 DEF Monitor!Next
<1> QED
  BY <1>1, <1>2, <1>3, <1>4, <1>5, <1>6 DEF ProgramStep

LEMMA DispatcherMaps ==
  ASSUME IInv, Careful, DispatcherStep
  PROVE  [Monitor!Next]_(Monitor!vars)
<1> USE DEF IInv
<1>1. CASE Wait \/ WaitFor \/ SelectReady \/ SelectTimeout \/ SelectFails
  <2>1. UNCHANGED <<open, ready, stage>> /\ Monitored' = Monitored
    BY <1>1
    DEF Wait, WaitFor, SelectReady, SelectTimeout, SelectFails, Return, Added, Monitored
  <2> QED
    BY <2>1 DEF Monitor!vars, Monitored
<1>2. ASSUME NEW s \in Sockets, IsSet(s) \/ Skip(s) PROVE [Monitor!Next]_(Monitor!vars)
  <2>1. UNCHANGED <<open, ready, m_tmpSocketList>>
    BY <1>2 DEF IsSet, Skip, Asked
  <2>2. CASE UNCHANGED <<m_fd, stage>>
    BY <2>1, <2>2 DEF Monitor!vars
  <2>3. CASE /\ IsSet(s) /\ s \in open /\ s \in m_fdList
             /\ m_fd' = Popped(s) /\ stage' = [stage EXCEPT ![s] = "reported"]
    <3>1. s \in ready /\ s \in m_fd /\ s \notin m_tmpSocketList
      BY <2>3, ReportSound
    <3>2. Monitored' = Monitored \ {s} /\ s \in Monitored
      BY <2>1, <2>3, <3>1 DEF Popped, Monitored
    <3>3. {x \in Sockets : stage[x] \in {"reported", "received"}}' =
          {x \in Sockets : stage[x] \in {"reported", "received"}} \cup {s}
      BY <2>3 DEF TypeOK
    <3>4. Monitor!Report(s)
      BY <2>1, <3>1, <3>2, <3>3 DEF Monitor!Report, Monitored
    <3> QED
      BY <3>4 DEF Monitor!Next
  <2> QED
    BY <1>2, <2>2, <2>3 DEF IsSet, Skip
<1> QED
  BY <1>1, <1>2 DEF DispatcherStep

LEMMA StepMaps ==
  ASSUME Careful
  PROVE  IInv /\ [Next]_vars => [Monitor!Next]_(Monitor!vars)
<1> SUFFICES ASSUME IInv, [Next]_vars PROVE [Monitor!Next]_(Monitor!vars)
  OBVIOUS
<1>1. CASE UNCHANGED vars \/ \E t \in Timeouts : SetTimeout(t)
  BY <1>1 DEF vars, fds, SetTimeout, Monitor!vars
<1> QED
  BY <1>1, ProgramMaps, DispatcherMaps DEF Next

\* Select, asked by a careful program, is a one-shot monitor: it reports only what is
\* watched and ready, and nothing twice.
THEOREM Implementation ==
  ASSUME Careful
  PROVE  Spec => ImplementsMonitor
<1>1. IInv /\ [Next]_vars => [Monitor!Next]_(Monitor!vars)
  BY StepMaps
<1> QED
  BY <1>1, InitMaps, Inductive, PTL DEF Spec, Safe, ImplementsMonitor, Monitor!Spec
=============================================================================
