----------------------------- MODULE ThreadPool -----------------------------
(***************************************************************************)
(* Yo::ThreadPool, Yo::Thread and Yo::SharedThreadPool: a pool of workers  *)
(* that each wait on their own mutex and condition variables for one       *)
(* function at a time, and a list, under the pool's mutex, of the workers  *)
(* that wait.  One action is one critical section, or the part of one that *)
(* ends at another lock or at a wait on a condition variable.              *)
(*                                                                         *)
(* A condition variable has no state but its sleepers: `asleep' holds the  *)
(* actors blocked on the one their program counter designates; notify_all  *)
(* takes them out, and an actor out of it takes its mutex again and tests  *)
(* its predicate once more.  notify_all is always called under the mutex   *)
(* of the waiters, and Spurious wakes any of them at any time.             *)
(***************************************************************************)
EXTENDS Naturals, Sequences, FiniteSets, Functions

CONSTANTS
  NbMaxThreads,  \* m_nbMaxThreads
  Callers,       \* the program's threads that hand functions to the pool
  Owner,         \* the program's thread that starts and stops the pool
  Nobody,        \* the owner of a free mutex
  Jobs,          \* the functions, each handed over by one call: the bound on calls
  NoJob,         \* the empty m_lambdaFunc
  Ops,           \* the calls the program makes: a subset of AllOps
  MaxUsage,      \* in how many cases, of 0, 1, 2... busy threads, the test of
                 \* SharedThreadPool::Execute against m_allowedPercent is true
  Quiesce        \* TRUE: the program makes no call during or after Stop

Threads == 1 .. NbMaxThreads
Clients == Callers \cup {Owner}
Actors == Threads \cup Clients

AllOps == {"Execute", "ExecuteAll", "TryExecute", "Shared"}
Blocking == {"Execute", "ExecuteAll"}

ASSUME NAssumption == NbMaxThreads \in Nat \ {0}
ASSUME ActorsAssumption ==
  /\ IsFiniteSet(Callers)
  /\ Owner \notin Callers
  /\ Nobody \notin Actors
  /\ Threads \cap Clients = {}
ASSUME JobsAssumption == NoJob \notin Jobs
ASSUME OpsAssumption == Ops \subseteq AllOps
ASSUME ConfigAssumption == MaxUsage \in Nat /\ Quiesce \in BOOLEAN

VARIABLES
  poolLock,      \* who holds ThreadPool::m_lock
  available,     \* m_availableThread
  lock,          \* who holds Thread::m_lock
  waitFunction,  \* Thread::waitFunction
  lambda,        \* Thread::m_lambdaFunc
  pc,            \* where each actor is
  asleep,        \* who is blocked on a condition variable
  thread,        \* a client's local `thread', 0 for none; Owner's loop index
  job,           \* the function a caller hands over
  left,          \* the iterations left of a caller's ExecuteAll, 1 for one Execute
  op,            \* history: how each function was handed over
  ran,           \* history: how many times each actor executed each function
  whole          \* history: functions whose ExecuteAll began with every thread available

vars == <<poolLock, available, lock, waitFunction, lambda, pc, asleep, thread,
          job, left, op, ran, whole>>

worker == <<lock, waitFunction, lambda>>
history == <<op, ran, whole>>

ThreadPC == {"unborn", "begin", "indicate", "wait", "run", "done", "deleted"}
CallerPC == {"idle", "share", "take", "hand", "unlock", "inline"}
OwnerPC == {"start", "ready", "stop", "delete", "unlock", "unlock2", "join", "stopped"}

Init ==
  /\ poolLock = Nobody
  /\ available = <<>>
  /\ lock = [t \in Threads |-> Nobody]
  /\ waitFunction = [t \in Threads |-> TRUE]
  /\ lambda = [t \in Threads |-> NoJob]
  /\ pc = [a \in Actors |-> IF a \in Threads THEN "unborn"
                            ELSE IF a = Owner THEN "start" ELSE "idle"]
  /\ asleep = {}
  /\ thread = [c \in Clients |-> IF c = Owner THEN 1 ELSE 0]
  /\ job = [c \in Callers |-> NoJob]
  /\ left = [c \in Callers |-> 0]
  /\ op = [j \in Jobs |-> "none"]
  /\ ran = [j \in Jobs |-> [a \in Threads \cup Callers |-> 0]]
  /\ whole = {}

-----------------------------------------------------------------------------
(* m_availableThread and what is asked of it.                              *)

PushFront(t) == <<t>> \o available  \* mutant: the last to be free is the first taken

\* m_availableThread after push_back.
PushBack(t) == Append(available, t)

KeepFront == available  \* mutant: front() without pop_front()

\* m_availableThread after pop_front.
PopFront == Tail(available)

SomeAvailable == available # <<>>  \* mutant: Stop waits for one thread, not for all

\* m_runningLock: no thread is used.
AllAvailable == Len(available) = NbMaxThreads

\* The test of SharedThreadPool::Execute.
UsageAllowed == NbMaxThreads - Len(available) < MaxUsage

-----------------------------------------------------------------------------
(* Workers: Thread::Run.                                                   *)

\* The thread begins and takes its own mutex.
Begin(t) ==
  /\ pc[t] = "begin"
  /\ lock[t] = Nobody
  /\ lock' = [lock EXCEPT ![t] = t]
  /\ pc' = [pc EXCEPT ![t] = "indicate"]
  /\ UNCHANGED <<poolLock, available, waitFunction, lambda, asleep, thread, job, left, history>>

NoPoolSleepers == {c \in Clients : pc[c] = "stop"}  \* mutant: Execute is not notified

\* Those blocked on m_invRunningWait and on m_runningWait.
PoolSleepers == {c \in Clients : pc[c] \in {"take", "stop"}}

\* ThreadPool::IndicateFree, called with the worker's own mutex held.
IndicateFree(t) ==
  /\ pc[t] = "indicate"
  /\ poolLock = Nobody
  /\ available' = PushBack(t)
  /\ asleep' = asleep \ PoolSleepers
  /\ pc' = [pc EXCEPT ![t] = "wait"]
  /\ UNCHANGED <<poolLock, worker, thread, job, left, history>>

NoUnlockSleepers(t) == {}  \* mutant: Lock does not notify m_invRunWaiter

\* Those blocked on t's m_invRunWaiter.
UnlockSleepers(t) == {c \in Clients : pc[c] \in {"unlock", "unlock2"} /\ thread[c] = t}

\* Thread::Lock: m_runWaiter.wait finds nothing to run and releases the mutex.
WaitRun(t) ==
  /\ pc[t] = "wait"
  /\ t \notin asleep
  /\ lock[t] \in {t, Nobody}
  /\ waitFunction[t]
  /\ lock' = [lock EXCEPT ![t] = Nobody]
  /\ asleep' = asleep \cup {t}
  /\ UNCHANGED <<poolLock, available, waitFunction, lambda, pc, thread, job, left, history>>

\* mutant: Lock returns without setting waitFunction again
WakeUnmarked(t) ==
  /\ pc[t] = "wait"
  /\ t \notin asleep
  /\ lock[t] \in {t, Nobody}
  /\ ~waitFunction[t]
  /\ asleep' = asleep \ UnlockSleepers(t)
  /\ lock' = [lock EXCEPT ![t] = IF lambda[t] # NoJob THEN t ELSE Nobody]
  /\ pc' = [pc EXCEPT ![t] = IF lambda[t] # NoJob THEN "run" ELSE "done"]
  /\ UNCHANGED <<poolLock, available, waitFunction, lambda, thread, job, left, history>>

\* Thread::Lock returns: go and execute the function, or leave Run (and release
\* the mutex) if there is none.
Wake(t) ==
  /\ pc[t] = "wait"
  /\ t \notin asleep
  /\ lock[t] \in {t, Nobody}
  /\ ~waitFunction[t]
  /\ waitFunction' = [waitFunction EXCEPT ![t] = TRUE]
  /\ asleep' = asleep \ UnlockSleepers(t)
  /\ \/ /\ lambda[t] # NoJob
        /\ lock' = [lock EXCEPT ![t] = t]
        /\ pc' = [pc EXCEPT ![t] = "run"]
     \/ /\ lambda[t] = NoJob
        /\ lock' = [lock EXCEPT ![t] = Nobody]
        /\ pc' = [pc EXCEPT ![t] = "done"]
  /\ UNCHANGED <<poolLock, available, lambda, thread, job, left, history>>

\* mutant: the function is not forgotten
RunJobKept(t) ==
  /\ pc[t] = "run"
  /\ ran' = [ran EXCEPT ![lambda[t]][t] = @ + 1]
  /\ pc' = [pc EXCEPT ![t] = "indicate"]
  /\ UNCHANGED <<poolLock, available, worker, asleep, thread, job, left, op, whole>>

\* m_lambdaFunc() returns and is forgotten.
RunJob(t) ==
  /\ pc[t] = "run"
  /\ ran' = [ran EXCEPT ![lambda[t]][t] = @ + 1]
  /\ lambda' = [lambda EXCEPT ![t] = NoJob]
  /\ pc' = [pc EXCEPT ![t] = "indicate"]
  /\ UNCHANGED <<poolLock, available, lock, waitFunction, asleep, thread, job, left, op, whole>>

-----------------------------------------------------------------------------
(* Callers: ThreadPool::Execute, ExecuteAll and TryExecute, and            *)
(* SharedThreadPool::Execute.                                              *)

OneShort(o) == IF o = "ExecuteAll" THEN NbMaxThreads - 1 ELSE 1  \* mutant: loop from 1

\* How many times a call hands its function to the pool.
Iterations(o) == IF o = "ExecuteAll" THEN NbMaxThreads ELSE 1

Call(c, j, o) ==
  /\ pc[c] = "idle"
  /\ op[j] = "none"
  /\ Quiesce => pc[Owner] \in {"start", "ready"}
  /\ op' = [op EXCEPT ![j] = o]
  /\ job' = [job EXCEPT ![c] = j]
  /\ left' = [left EXCEPT ![c] = Iterations(o)]
  /\ pc' = [pc EXCEPT ![c] = IF o = "Shared" THEN "share" ELSE "take"]
  /\ UNCHANGED <<poolLock, available, worker, asleep, thread, ran, whole>>

\* SharedThreadPool::Execute reads GetNbThreadAvailable, and the pool's mutex is
\* released before it acts on the answer.
ReadUsage(c) ==
  /\ pc[c] = "share"
  /\ poolLock = Nobody
  /\ pc' = [pc EXCEPT ![c] = IF UsageAllowed THEN "take" ELSE "inline"]
  /\ UNCHANGED <<poolLock, available, worker, asleep, thread, job, left, history>>

\* c holds m_lock and sees m_availableThread.
AtPool(c) ==
  /\ pc[c] = "take"
  /\ c \notin asleep
  /\ poolLock = Nobody

\* The front of m_availableThread is c's.  Execute releases the pool's mutex,
\* TryExecute keeps it until the function is handed over.
TakeThread(c) ==
  /\ AtPool(c)
  /\ available # <<>>
  /\ thread' = [thread EXCEPT ![c] = Head(available)]
  /\ available' = PopFront
  /\ poolLock' = IF op[job[c]] \in Blocking THEN Nobody ELSE c
  /\ pc' = [pc EXCEPT ![c] = "hand"]
  /\ whole' = IF op[job[c]] = "ExecuteAll" /\ left[c] = Iterations("ExecuteAll")
                 /\ AllAvailable
              THEN whole \cup {job[c]} ELSE whole
  /\ UNCHANGED <<worker, asleep, job, left, op, ran>>

\* m_invRunningWait.wait: no thread is available.
WaitThread(c) ==
  /\ AtPool(c)
  /\ available = <<>>
  /\ op[job[c]] \in Blocking
  /\ asleep' = asleep \cup {c}
  /\ UNCHANGED <<poolLock, available, worker, pc, thread, job, left, history>>

\* TryExecute returns false, to the program or to SharedThreadPool::Execute.
NoThread(c) ==
  /\ AtPool(c)
  /\ available = <<>>
  /\ \/ /\ op[job[c]] = "TryExecute"
        /\ op' = [op EXCEPT ![job[c]] = "refused"]
        /\ pc' = [pc EXCEPT ![c] = "idle"]
        /\ job' = [job EXCEPT ![c] = NoJob]
        /\ left' = [left EXCEPT ![c] = 0]
     \/ /\ op[job[c]] = "Shared"
        /\ pc' = [pc EXCEPT ![c] = "inline"]
        /\ UNCHANGED <<op, job, left>>
  /\ UNCHANGED <<poolLock, available, worker, asleep, thread, ran, whole>>

\* Thread::Execute takes the worker's mutex and stores the function.
Hand(c) ==
  /\ pc[c] = "hand"
  /\ lock[thread[c]] = Nobody
  /\ lock' = [lock EXCEPT ![thread[c]] = c]
  /\ lambda' = [lambda EXCEPT ![thread[c]] = job[c]]
  /\ pc' = [pc EXCEPT ![c] = "unlock"]
  /\ UNCHANGED <<poolLock, available, waitFunction, asleep, thread, job, left, history>>

\* Thread::Unlock has its mutex, for the first time or after a wake-up.
AtUnlock(p) ==
  /\ pc[p] \in {"unlock", "unlock2"}
  /\ p \notin asleep
  /\ lock[thread[p]] \in {p, Nobody}

\* Thread::Unlock: m_invRunWaiter.wait, the worker has not taken the last signal.
UnlockWait(p) ==
  /\ AtUnlock(p)
  /\ ~waitFunction[thread[p]]
  /\ asleep' = asleep \cup {p}
  /\ lock' = [lock EXCEPT ![thread[p]] = Nobody]
  /\ UNCHANGED <<poolLock, available, waitFunction, lambda, pc, thread, job, left, history>>

\* Thread::Unlock signals the worker; Thread::Execute and the pool's Execute or
\* TryExecute return, and ExecuteAll makes its next call.
HandOver(c) ==
  /\ AtUnlock(c)
  /\ waitFunction[thread[c]]
  /\ waitFunction' = [waitFunction EXCEPT ![thread[c]] = FALSE]
  /\ asleep' = asleep \ {thread[c]}
  /\ lock' = [lock EXCEPT ![thread[c]] = Nobody]
  /\ poolLock' = IF poolLock = c THEN Nobody ELSE poolLock
  /\ thread' = [thread EXCEPT ![c] = 0]
  /\ left' = [left EXCEPT ![c] = @ - 1]
  /\ \/ /\ left[c] > 1
        /\ pc' = [pc EXCEPT ![c] = "take"]
        /\ UNCHANGED job
     \/ /\ left[c] <= 1
        /\ pc' = [pc EXCEPT ![c] = "idle"]
        /\ job' = [job EXCEPT ![c] = NoJob]
  /\ UNCHANGED <<available, lambda, history>>

\* SharedThreadPool::Execute calls the function itself.
RunInline(c) ==
  /\ pc[c] = "inline"
  /\ ran' = [ran EXCEPT ![job[c]][c] = @ + 1]
  /\ pc' = [pc EXCEPT ![c] = "idle"]
  /\ job' = [job EXCEPT ![c] = NoJob]
  /\ left' = [left EXCEPT ![c] = 0]
  /\ UNCHANGED <<poolLock, available, worker, asleep, thread, op, whole>>

-----------------------------------------------------------------------------
(* The owner: ThreadPool::Start, ThreadPool::Stop and ~Thread.             *)

\* One iteration of Start.
Start ==
  /\ pc[Owner] = "start"
  /\ LET i == thread[Owner] IN
       /\ pc' = [pc EXCEPT ![i] = "begin",
                           ![Owner] = IF i = NbMaxThreads THEN "ready" ELSE "start"]
       /\ thread' = [thread EXCEPT ![Owner] = IF i = NbMaxThreads THEN 1 ELSE i + 1]
  /\ UNCHANGED <<poolLock, available, worker, asleep, job, left, history>>

StopCall ==
  /\ pc[Owner] = "ready"
  /\ Quiesce => \A c \in Callers : pc[c] = "idle"
  /\ pc' = [pc EXCEPT ![Owner] = "stop"]
  /\ UNCHANGED <<poolLock, available, worker, asleep, thread, job, left, history>>

\* m_runningWait.wait: until every thread is available.  The pool's mutex is then
\* kept to the end of Stop.
StopWait ==
  /\ pc[Owner] = "stop"
  /\ Owner \notin asleep
  /\ poolLock = Nobody
  /\ \/ /\ AllAvailable
        /\ poolLock' = Owner
        /\ pc' = [pc EXCEPT ![Owner] = "delete"]
        /\ UNCHANGED asleep
     \/ /\ ~AllAvailable
        /\ asleep' = asleep \cup {Owner}
        /\ UNCHANGED <<poolLock, pc>>
  /\ UNCHANGED <<available, worker, thread, job, left, history>>

\* ~Thread of m_threadPool[i] takes the worker's mutex.
Delete ==
  /\ pc[Owner] = "delete"
  /\ lock[thread[Owner]] = Nobody
  /\ lock' = [lock EXCEPT ![thread[Owner]] = Owner]
  /\ pc' = [pc EXCEPT ![Owner] = "unlock"]
  /\ UNCHANGED <<poolLock, available, waitFunction, lambda, asleep, thread, job, left, history>>

\* Either Unlock of ~Thread signals the worker; the mutex is kept.
DestroyUnlock ==
  /\ AtUnlock(Owner)
  /\ waitFunction[thread[Owner]]
  /\ waitFunction' = [waitFunction EXCEPT ![thread[Owner]] = FALSE]
  /\ asleep' = asleep \ {thread[Owner]}
  /\ lock' = [lock EXCEPT ![thread[Owner]] = Owner]
  /\ pc' = [pc EXCEPT ![Owner] = IF pc[Owner] = "unlock" THEN "unlock2" ELSE "join"]
  /\ UNCHANGED <<poolLock, available, lambda, thread, job, left, history>>

\* m_thread->join() returns, the Thread is destroyed, and Stop goes to the next one
\* or returns.  m_availableThread keeps the pointers.
Join ==
  /\ pc[Owner] = "join"
  /\ LET i == thread[Owner] IN
       /\ pc[i] = "done"
       /\ \/ /\ i < NbMaxThreads
             /\ pc' = [pc EXCEPT ![i] = "deleted", ![Owner] = "delete"]
             /\ thread' = [thread EXCEPT ![Owner] = i + 1]
             /\ UNCHANGED poolLock
          \/ /\ i = NbMaxThreads
             /\ pc' = [pc EXCEPT ![i] = "deleted", ![Owner] = "stopped"]
             /\ poolLock' = Nobody
             /\ UNCHANGED thread
  /\ UNCHANGED <<available, worker, asleep, job, left, history>>

-----------------------------------------------------------------------------
\* std::condition_variable may wake an actor that nobody notified.
Spurious(a) ==
  /\ a \in asleep
  /\ asleep' = asleep \ {a}
  /\ UNCHANGED <<poolLock, available, worker, pc, thread, job, left, history>>

\* The pool is stopped and nobody is inside a call: the only state to end in.
Terminated ==
  /\ pc[Owner] = "stopped"
  /\ \A c \in Callers : pc[c] = "idle"
  /\ UNCHANGED vars

ThreadStep(t) == Begin(t) \/ IndicateFree(t) \/ WaitRun(t) \/ Wake(t) \/ RunJob(t)

CallStep(c) ==
  \/ ReadUsage(c) \/ TakeThread(c) \/ WaitThread(c) \/ NoThread(c)
  \/ Hand(c) \/ UnlockWait(c) \/ HandOver(c) \/ RunInline(c)

OwnerStep == Start \/ StopWait \/ Delete \/ UnlockWait(Owner) \/ DestroyUnlock \/ Join

Next ==
  \/ \E t \in Threads : ThreadStep(t)
  \/ \E c \in Callers : CallStep(c)
  \/ \E c \in Callers, j \in Jobs, o \in Ops : Call(c, j, o)
  \/ OwnerStep
  \/ StopCall
  \/ \E a \in Actors : Spurious(a)
  \/ Terminated

\* A runnable thread is eventually scheduled; nothing forces the program to call.
Fairness ==
  /\ \A t \in Threads : WF_vars(ThreadStep(t))
  /\ \A c \in Callers : WF_vars(CallStep(c))
  /\ WF_vars(OwnerStep)

Safe == Init /\ [][Next]_vars
Spec == Safe /\ Fairness

-----------------------------------------------------------------------------
\* Every variable has a value of its type; m_availableThread never holds more
\* entries than the pool has threads.
TypeOK ==
  /\ poolLock \in Clients \cup {Nobody}
  /\ available \in Seq(Threads)
  /\ Len(available) <= NbMaxThreads
  /\ lock \in [Threads -> Actors \cup {Nobody}]
  /\ waitFunction \in [Threads -> BOOLEAN]
  /\ lambda \in [Threads -> Jobs \cup {NoJob}]
  /\ pc \in [Actors -> ThreadPC \cup CallerPC \cup OwnerPC]
  /\ \A t \in Threads : pc[t] \in ThreadPC
  /\ \A c \in Callers : pc[c] \in CallerPC
  /\ pc[Owner] \in OwnerPC
  /\ asleep \subseteq Actors
  /\ thread \in [Clients -> 0 .. NbMaxThreads]
  /\ job \in [Callers -> Jobs \cup {NoJob}]
  /\ left \in [Callers -> 0 .. NbMaxThreads]
  /\ op \in [Jobs -> AllOps \cup {"none", "refused"}]
  /\ ran \in [Jobs -> [Threads \cup Callers -> Nat]]
  /\ whole \subseteq Jobs

\* Nobody sleeps through the event it waits for: whoever is blocked on a condition
\* variable would, if it looked now, find its predicate false.
NoLostWakeup ==
  \A a \in asleep :
    \/ a \in Threads /\ pc[a] = "wait" /\ waitFunction[a]
    \/ a \in Callers /\ pc[a] = "take" /\ op[job[a]] \in Blocking /\ available = <<>>
    \/ a = Owner /\ pc[a] = "stop" /\ ~AllAvailable
    \/ a = Owner /\ pc[a] \in {"unlock", "unlock2"} /\ ~waitFunction[thread[a]]

\* c was given the worker t and has not signalled it yet.
Holds(c, t) == pc[c] \in {"hand", "unlock"} /\ thread[c] = t

\* A worker given to a caller waits with nothing to do, is out of the list and is
\* no other caller's: the function stored in it replaces none, and the caller, who
\* in TryExecute holds the pool's mutex, never has to wait in Unlock.
CleanHandOver ==
  \A c \in Callers, t \in Threads : Holds(c, t) =>
    /\ pc[t] = "wait" /\ waitFunction[t]
    /\ lambda[t] = IF pc[c] = "hand" THEN NoJob ELSE job[c]
    /\ \A i \in 1 .. Len(available) : available[i] # t
    /\ \A d \in Callers : Holds(d, t) => d = c

\* How many times j was executed, by workers or by its caller.
Executions(j) == FoldFunction(LAMBDA x, y : x + y, 0, ran[j])

\* How many times its call has to get it executed.
Owed(j) == CASE op[j] \in {"none", "refused"} -> 0
             [] op[j] = "ExecuteAll" -> NbMaxThreads
             [] OTHER -> 1

\* Stop has seen every thread available.
Stopping == pc[Owner] \in {"delete", "unlock", "unlock2", "join", "stopped"}

\* No function is executed more often than it was handed over, and when Stop begins
\* to destroy the threads every function accepted has been executed exactly so often.
ExecutedAsOwed ==
  \A j \in Jobs :
    /\ Executions(j) <= Owed(j)
    /\ Stopping => Executions(j) = Owed(j)

\* Every call is answered and its function executed, whatever the interleaving of
\* callers and workers.
EveryJobRuns ==
  \A j \in Jobs : (op[j] # "none") ~> (Executions(j) = Owed(j))

\* Stop returns, with every thread joined.
StopReturns ==
  (pc[Owner] = "stop") ~> (pc[Owner] = "stopped" /\ \A t \in Threads : pc[t] = "deleted")

\* No other function was handed to the pool.
Alone(j) == \A k \in Jobs \ {j} : op[k] = "none"

\* An ExecuteAll that finds every thread available, and no other caller, gives its
\* function to each thread once: the list is a queue, so a worker that is done
\* early is not taken again.  When Stop destroys the threads each has executed it;
\* that it does so at last also without a Stop is EveryJobRuns.
BroadcastOnce ==
  \A j \in whole : Alone(j) =>
    \A t \in Threads : ran[j][t] <= 1 /\ (Stopping => ran[j][t] = 1)

\* The workers with a function to execute.
InUse == {t \in Threads : lambda[t] # NoJob \/ \E c \in Callers : Holds(c, t)}

\* `Maximal use percentage' (SharedThreadPool.h:26): with no other user of the pool,
\* the workers in use are never more than the limit.
UsageLimit == Cardinality(InUse) <= MaxUsage

\* The functions handed over so far were all handed to SharedThreadPool::Execute.
OnlyShared == \A j \in Jobs : op[j] \in {"none", "Shared"}

\* What the limit does ensure with no other user of the pool: the usage is read and
\* the worker taken under two locks of the mutex, so each further caller may add one
\* worker to those the limit allows, and no more.
UsageBound ==
  OnlyShared /\ InUse # {} => Cardinality(InUse) < MaxUsage + Cardinality(Callers)

\* `Return if no thread are available' (ThreadPool.h:132): a thread taken from the
\* list exists.
TakesLivingThread ==
  \A c \in Callers, t \in Threads : Holds(c, t) => pc[t] # "deleted"

-----------------------------------------------------------------------------
(* The pool implements the abstract one: a worker's slot is filled when it *)
(* is taken from the list, before the function is stored in it.            *)

Slot(t) ==
  IF lambda[t] # NoJob THEN lambda[t]
  ELSE IF \E c \in Callers : Holds(c, t)
       THEN job[CHOOSE c \in Callers : Holds(c, t)]
       ELSE NoJob

Abstract == INSTANCE JobSlots WITH
  Slots <- Threads,
  Outside <- Callers,
  slot <- [t \in Threads |-> Slot(t)],
  stopped <- Stopping

\* Every behaviour of the pool is one of the abstract pool.
ImplementsJobSlots == Abstract!Spec
=============================================================================
