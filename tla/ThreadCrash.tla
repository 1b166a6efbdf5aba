----------------------------- MODULE ThreadCrash -----------------------------
(***************************************************************************)
(* What happens to a pool when a function crashes: Thread::SignalHandler,  *)
(* its static variables, Thread::AskForRestart, and the mutexes they meet, *)
(* that of the Thread, which its worker holds while it executes a          *)
(* function, and that of Log, which every thread takes to write a line.    *)
(*                                                                         *)
(* A Thread begins with worker 0; a restart gives it the next one.  The    *)
(* handler returns to the instruction that crashed, so that a thread that  *)
(* crashed stays at "fault" and enters the handler again and again.  Time  *)
(* is in seconds.  How functions reach a worker is ThreadPool's matter.    *)
(***************************************************************************)
EXTENDS Integers

CONSTANTS
  Threads,     \* the Threads of the pool
  Outsider,    \* a thread of the program that is not one of the pool
  Nobody,
  SegReport,   \* the library was built with SEGREPORT
  MaxRestarts, \* bound on the restarts of a Thread
  MaxJobs,     \* bound on the functions executed
  MaxTime      \* bound on the clock

Workers == Threads \X (0 .. MaxRestarts)
Everyone == Workers \cup {Outsider}

ASSUME ActorsAssumption == Outsider \notin Workers /\ Nobody \notin Everyone
ASSUME BoundsAssumption == {MaxRestarts, MaxJobs, MaxTime} \subseteq Nat /\ SegReport \in BOOLEAN

VARIABLES
  alive,       \* the program has not terminated
  worker,      \* worker[t]: the number of the worker m_thread of t stands for
  mutex,       \* who holds m_lock of each Thread
  logLock,     \* who holds Log::lock
  pc,          \* where each thread is
  start,       \* SignalHandler's static start, -1 before the first call
  luck,        \* luck
  prevThread,  \* and prevThread
  now,         \* now of each call
  clock,
  restarted,   \* history: the threads whose crash got their Thread restarted
  stalled,     \* history: time went by while a thread was in the handler
  torn,        \* history: a thread crashed while it held Log::lock
  jobs         \* how many functions were executed

statics == <<start, luck, prevThread>>
vars == <<alive, worker, mutex, logLock, pc, statics, now, clock, restarted, stalled, torn, jobs>>

HandlerPC == {"look", "judge", "report", "verdict", "restart", "terminate"}
PC == {"unborn", "begin", "free", "run", "log", "logging", "fault"} \cup HandlerPC

maxLuckOne == 1  \* mutant: one crash is forgiven
maxLuck == 0

Init ==
  /\ alive = TRUE
  /\ worker = [t \in Threads |-> 0]
  /\ mutex = [t \in Threads |-> Nobody]
  /\ logLock = Nobody
  /\ pc = [w \in Everyone |-> IF w = Outsider THEN "run" ELSE IF w[2] = 0 THEN "begin" ELSE "unborn"]
  /\ start = -1 /\ luck = maxLuck /\ prevThread = Nobody
  /\ now = [w \in Everyone |-> 0] /\ clock = 0
  /\ restarted = {} /\ stalled = FALSE /\ torn = FALSE /\ jobs = 0

Goto(w, place) == pc' = [pc EXCEPT ![w] = place]

-----------------------------------------------------------------------------
(* Functions and the lines they log.                                       *)

\* Run takes m_lock, and Lock gives it up to wait in the pool's list.
Begin(w) ==
  /\ pc[w] = "begin" /\ mutex[w[1]] = Nobody
  /\ Goto(w, "free")
  /\ UNCHANGED <<alive, worker, mutex, logLock, statics, now, clock, restarted, stalled, torn, jobs>>

\* Lock returns with m_lock: the worker executes a function.
Run(w) ==
  /\ pc[w] = "free" /\ mutex[w[1]] = Nobody /\ jobs < MaxJobs
  /\ mutex' = [mutex EXCEPT ![w[1]] = w]
  /\ jobs' = jobs + 1
  /\ Goto(w, "run")
  /\ UNCHANGED <<alive, worker, logLock, statics, now, clock, restarted, stalled, torn>>

\* The function returns.
Finish(w) ==
  /\ pc[w] = "run"
  /\ mutex' = [mutex EXCEPT ![w[1]] = Nobody]
  /\ Goto(w, "free")
  /\ UNCHANGED <<alive, worker, logLock, statics, now, clock, restarted, stalled, torn, jobs>>

\* A thread calls one of the functions of Log ...
CallLog(w) ==
  /\ pc[w] = "run" /\ jobs < MaxJobs
  /\ jobs' = jobs + 1
  /\ Goto(w, "log")
  /\ UNCHANGED <<alive, worker, mutex, logLock, statics, now, clock, restarted, stalled, torn>>

\* ... which takes the lock ...
TakeLog(w) ==
  /\ pc[w] = "log" /\ logLock = Nobody
  /\ logLock' = w
  /\ Goto(w, "logging")
  /\ UNCHANGED <<alive, worker, mutex, statics, now, clock, restarted, stalled, torn, jobs>>

\* ... writes, and releases it.
EndLog(w) ==
  /\ pc[w] = "logging"
  /\ logLock' = Nobody
  /\ Goto(w, "run")
  /\ UNCHANGED <<alive, worker, mutex, statics, now, clock, restarted, stalled, torn, jobs>>

\* SIGSEGV, in the function or while it writes.
Crash(w) ==
  /\ pc[w] \in {"run", "logging"}
  /\ torn' = (torn \/ pc[w] = "logging")
  /\ Goto(w, "fault")
  /\ UNCHANGED <<alive, worker, mutex, logLock, statics, now, clock, restarted, stalled, jobs>>

-----------------------------------------------------------------------------
(* SignalHandler.                                                          *)

\* The handler is entered: the first call initialises start.  A thread that comes
\* back without another having crashed since is sent back at once.
Enter(w) ==
  /\ pc[w] = "fault" /\ prevThread # w
  /\ start' = IF start = -1 THEN clock ELSE start
  /\ Goto(w, "look")
  /\ UNCHANGED <<alive, worker, mutex, logLock, luck, prevThread, now, clock, restarted, stalled, torn, jobs>>

\* now, and prevThread.
Look(w) ==
  /\ pc[w] = "look"
  /\ now' = [now EXCEPT ![w] = clock]
  /\ prevThread' = w
  /\ Goto(w, "judge")
  /\ UNCHANGED <<alive, worker, mutex, logLock, start, luck, clock, restarted, stalled, torn, jobs>>

\* Has a second gone by since start?
Judge(w) ==
  /\ pc[w] = "judge"
  /\ \/ now[w] - start < 1 /\ luck' = luck - 1 /\ UNCHANGED start
     \/ now[w] - start >= 1 /\ luck' = maxLuck /\ start' = clock
  /\ Goto(w, IF SegReport THEN "report" ELSE "verdict")
  /\ UNCHANGED <<alive, worker, mutex, logLock, prevThread, now, clock, restarted, stalled, torn, jobs>>

ReportHolds(w) == w  \* mutant: the report keeps Log::lock

\* Log::lock after writeError.
Reported(w) == Nobody

\* The report of SEGREPORT.
Report(w) ==
  /\ pc[w] = "report" /\ logLock = Nobody
  /\ logLock' = Reported(w)
  /\ Goto(w, "verdict")
  /\ UNCHANGED <<alive, worker, mutex, statics, now, clock, restarted, stalled, torn, jobs>>

\* What luck is by now.
Verdict(w) ==
  /\ pc[w] = "verdict"
  /\ Goto(w, IF luck >= 0 THEN "restart" ELSE "terminate")
  /\ UNCHANGED <<alive, worker, mutex, logLock, statics, now, clock, restarted, stalled, torn, jobs>>

FreeAfterRestart(w) == Nobody  \* mutant: m_lock is released for the new worker

\* m_lock after Restart: the crashed worker's unique_lock still holds it.
LockAfterRestart(w) == mutex[w[1]]

\* A line is logged, and AskForRestart starts a new worker; the handler returns.
AskForRestart(w) ==
  /\ w # Outsider /\ worker[w[1]] < MaxRestarts
  /\ pc[w] = "restart" /\ logLock = Nobody
  /\ worker' = [worker EXCEPT ![w[1]] = @ + 1]
  /\ pc' = [pc EXCEPT ![w] = "fault", ![<<w[1], worker[w[1]] + 1>>] = "begin"]
  /\ mutex' = [mutex EXCEPT ![w[1]] = LockAfterRestart(w)]
  /\ restarted' = restarted \cup {w}
  /\ UNCHANGED <<alive, logLock, statics, now, clock, stalled, torn, jobs>>

\* A line is logged and the program ends: no luck is left, or there is no Thread
\* to restart.
Terminate(w) ==
  /\ pc[w] = "terminate" \/ (pc[w] = "restart" /\ w = Outsider)
  /\ logLock = Nobody
  /\ alive' = FALSE
  /\ UNCHANGED <<worker, mutex, logLock, pc, statics, now, clock, restarted, stalled, torn, jobs>>

-----------------------------------------------------------------------------
(* The specification.                                                      *)

\* A second goes by.
Tick ==
  /\ clock < MaxTime
  /\ clock' = clock + 1
  /\ stalled' = (stalled \/ \E w \in Everyone : pc[w] \in HandlerPC)
  /\ UNCHANGED <<alive, worker, mutex, logLock, pc, statics, now, restarted, torn, jobs>>

Handler(w) ==
  Enter(w) \/ Look(w) \/ Judge(w) \/ Report(w) \/ Verdict(w) \/ AskForRestart(w) \/ Terminate(w)

\* What a thread does unless it is blocked.
Step(w) == TakeLog(w) \/ EndLog(w) \/ Handler(w)

Next ==
  /\ alive
  /\ \/ \E w \in Workers : Begin(w) \/ Run(w) \/ Finish(w)
     \/ \E w \in Everyone : CallLog(w) \/ Crash(w) \/ Step(w)
     \/ Tick

\* A thread that can go on is eventually scheduled; a function may run for ever.
Fairness == \A w \in Everyone : WF_vars(alive /\ Step(w))

Safe == Init /\ [][Next]_vars
Spec == Safe /\ Fairness

-----------------------------------------------------------------------------
(* Properties.                                                             *)

Crashed(w) == pc[w] = "fault" \/ pc[w] \in HandlerPC

\* Nobody but the worker that crashed is past m_lock of its Thread: the worker that
\* replaces it never takes a function, nor does the Thread enter the pool's list
\* while the function it was given is not done.  Its thread is lost to the pool.
CrashedKeepsOut ==
  \A w, v \in Workers : Crashed(w) /\ v # w /\ v[1] = w[1] => pc[v] \in {"unborn", "begin"}

\* A Thread is restarted only if a second went by while a thread was in the handler:
\* start is the time of the first crash, so that one has no luck.
RestartNeedsDelay == restarted # {} => stalled

\* A crash ends the program or gets the Thread restarted, unless a thread has crashed
\* while it was writing to the log: then every handler waits for Log::lock.
CrashAnswered ==
  \A w \in Everyone :
    pc[w] = "fault" ~>
      ~alive \/ w \in restarted \/ torn \/ (w # Outsider /\ worker[w[1]] = MaxRestarts)
=============================================================================
