-------------------------- MODULE ThreadCrashProofs --------------------------
(***************************************************************************)
(* Proofs about ThreadCrash, for any number of Threads, restarts, functions *)
(* and seconds: a crashed worker keeps every other out of its Thread, and   *)
(* no Thread is restarted unless the handler took a second.                *)
(***************************************************************************)
EXTENDS ThreadCrash, TLAPS

\* Where a worker has m_lock of its Thread.
Past == {"run", "log", "logging", "fault"} \cup HandlerPC

\* The types of what decides who has m_lock.
Types ==
  /\ pc \in [Everyone -> PC]
  /\ worker \in [Threads -> 0 .. MaxRestarts]
  /\ mutex \in [Threads -> Workers \cup {Nobody}]

\* A worker past m_lock has it; one that does not exist yet is unborn; one that
\* waits for a function is the first of its Thread.
Locked ==
  \A w \in Workers :
    /\ pc[w] \in Past => mutex[w[1]] = w
    /\ w[2] > worker[w[1]] => pc[w] = "unborn"
    /\ pc[w] = "free" => worker[w[1]] = 0

\* The lock of a Thread that was restarted is that of a worker that crashed.
Lost == \A t \in Threads : worker[t] > 0 => mutex[t] \in Workers /\ mutex[t][1] = t /\ Crashed(mutex[t])

LockInv == Types /\ Locked /\ Lost

\* The invariant holds at the start: only the first workers exist.
LEMMA LockInit == Init => LockInv
<1> SUFFICES ASSUME Init PROVE LockInv
  OBVIOUS
<1>1. \A w \in Workers : w \in Everyone /\ w # Outsider /\ w[1] \in Threads /\ w[2] \in Nat
  BY ActorsAssumption, BoundsAssumption DEF Everyone, Workers
<1>2. \A w \in Workers : pc[w] = IF w[2] = 0 THEN "begin" ELSE "unborn"
  BY <1>1 DEF Init
<1>3. pc \in [Everyone -> PC]
  BY DEF Init, PC
<1>4. Types
  BY <1>3, BoundsAssumption DEF Init, Types
<1>5. Locked
  BY <1>1, <1>2 DEF Init, Locked, Past, HandlerPC
<1>6. Lost
  BY DEF Init, Lost
<1> QED
  BY <1>4, <1>5, <1>6 DEF LockInv

\* Each step preserves it: the new worker of a restart finds the lock of one that
\* crashed.
LEMMA LockNext == LockInv /\ [Next]_vars => LockInv'
<1> SUFFICES ASSUME LockInv, [Next]_vars PROVE LockInv'
  OBVIOUS
<1> USE ActorsAssumption, BoundsAssumption
    DEF LockInv, Types, Locked, Lost, Crashed, Everyone, Workers, PC, Past, HandlerPC, Goto
<1>1. ASSUME NEW w \in Workers, Begin(w) PROVE LockInv'
  BY <1>1 DEF Begin
<1>2. ASSUME NEW w \in Workers, Run(w) PROVE LockInv'
  BY <1>2 DEF Run
<1>3. ASSUME NEW w \in Workers, Finish(w) PROVE LockInv'
  BY <1>3 DEF Finish
<1>4. ASSUME NEW w \in Everyone, CallLog(w) PROVE LockInv'
  BY <1>4 DEF CallLog
<1>5. ASSUME NEW w \in Everyone, Crash(w) PROVE LockInv'
  BY <1>5 DEF Crash
<1>6. ASSUME NEW w \in Everyone, TakeLog(w) PROVE LockInv'
  BY <1>6 DEF TakeLog
<1>7. ASSUME NEW w \in Everyone, EndLog(w) PROVE LockInv'
  BY <1>7 DEF EndLog
<1>8. ASSUME NEW w \in Everyone, Enter(w) PROVE LockInv'
  BY <1>8 DEF Enter
<1>9. ASSUME NEW w \in Everyone, Look(w) PROVE LockInv'
  BY <1>9 DEF Look
<1>10. ASSUME NEW w \in Everyone, Judge(w) PROVE LockInv'
  BY <1>10 DEF Judge
<1>11. ASSUME NEW w \in Everyone, Report(w) PROVE LockInv'
  BY <1>11 DEF Report
<1>12. ASSUME NEW w \in Everyone, Verdict(w) PROVE LockInv'
  BY <1>12 DEF Verdict
<1>13. ASSUME NEW w \in Everyone, AskForRestart(w) PROVE LockInv'
  BY <1>13 DEF AskForRestart, LockAfterRestart
<1>14. ASSUME NEW w \in Everyone, Terminate(w) PROVE LockInv'
  BY <1>14 DEF Terminate
<1>15. CASE Tick
  BY <1>15 DEF Tick
<1>16. CASE UNCHANGED vars
  BY <1>16 DEF vars
<1> QED
  BY <1>1, <1>2, <1>3, <1>4, <1>5, <1>6, <1>7, <1>8, <1>9, <1>10, <1>11, <1>12, <1>13, <1>14,
     <1>15, <1>16 DEF Next, Step, Handler

\* Two workers past the lock of one Thread would both hold it.
LEMMA LockMeans == LockInv => CrashedKeepsOut
<1> SUFFICES ASSUME LockInv, NEW w \in Workers, NEW v \in Workers,
                    Crashed(w), v # w, v[1] = w[1]
             PROVE  pc[v] \in {"unborn", "begin"}
  BY DEF CrashedKeepsOut
<1>1. w[1] \in Threads /\ v[1] \in Threads /\ w[2] \in Nat /\ v[2] \in Nat /\ w[2] # v[2]
  BY BoundsAssumption DEF Workers
<1>2. pc[v] \in PC /\ worker[v[1]] \in Nat
  BY <1>1, BoundsAssumption DEF LockInv, Types, Everyone
<1>3. mutex[w[1]] = w /\ pc[v] \notin Past
  BY DEF LockInv, Locked, Crashed, Past, HandlerPC
<1>4. pc[v] # "free"
  <2> SUFFICES ASSUME pc[v] = "free" PROVE FALSE
    OBVIOUS
  <2>1. worker[v[1]] = 0 /\ v[2] <= 0 /\ w[2] <= 0
    BY <1>1, <1>2 DEF LockInv, Locked, Crashed, HandlerPC
  <2> QED
    BY <2>1, <1>1
<1> QED
  BY <1>2, <1>3, <1>4 DEF PC, Past, HandlerPC

\* The worker that replaces one that crashed never takes a function.
THEOREM CrashedLocks == Spec => []CrashedKeepsOut
  BY LockInit, LockNext, LockMeans, PTL DEF Spec, Safe

-----------------------------------------------------------------------------

\* Until time goes by in the handler, a thread that enters it for the first time
\* stays in it, and all the times it compares are the same.
DelayInv ==
  /\ pc \in [Everyone -> PC] /\ clock \in Nat /\ luck \in Int /\ start \in Int
  /\ now \in [Everyone -> Nat]
  /\ ~stalled =>
       /\ restarted = {}
       /\ luck <= maxLuck
       /\ start = -1 => \A w \in Everyone : pc[w] \notin HandlerPC
       /\ start # -1 => start = clock /\ \E w \in Everyone : pc[w] \in HandlerPC
       /\ \A w \in Everyone :
            /\ pc[w] = "judge" => now[w] = clock
            /\ pc[w] \in {"report", "verdict"} => luck < 0
            /\ pc[w] # "restart"

\* The invariant holds at the start: nobody is in the handler.
LEMMA DelayInit == Init => DelayInv
<1> SUFFICES ASSUME Init PROVE DelayInv
  OBVIOUS
<1>1. \A w \in Everyone : pc[w] \in {"run", "begin", "unborn"}
  BY DEF Init
<1>2. pc \in [Everyone -> PC]
  BY DEF Init, PC
<1>3. /\ clock = 0 /\ luck = 0 /\ start = -1 /\ restarted = {}
      /\ now \in [Everyone -> Nat]
  BY DEF Init, maxLuck
<1> QED
  BY <1>1, <1>2, <1>3 DEF DelayInv, maxLuck, HandlerPC

\* Each step preserves it.
LEMMA DelayNext == DelayInv /\ [Next]_vars => DelayInv'
<1> SUFFICES ASSUME DelayInv, [Next]_vars PROVE DelayInv'
  OBVIOUS
<1> USE DEF DelayInv, PC, HandlerPC, Goto, maxLuck, statics
<1>0. Workers \subseteq Everyone
  BY DEF Everyone
<1>1. ASSUME NEW w \in Workers, Begin(w) \/ Run(w) \/ Finish(w) PROVE DelayInv'
  BY <1>0, <1>1 DEF Begin, Run, Finish
<1>2. ASSUME NEW w \in Everyone, CallLog(w) \/ Crash(w) \/ TakeLog(w) \/ EndLog(w) PROVE DelayInv'
  BY <1>2 DEF CallLog, Crash, TakeLog, EndLog
<1>3. ASSUME NEW w \in Everyone, Enter(w) PROVE DelayInv'
  BY <1>3 DEF Enter
<1>4. ASSUME NEW w \in Everyone, Look(w) PROVE DelayInv'
  BY <1>4 DEF Look
<1>5. ASSUME NEW w \in Everyone, Judge(w) PROVE DelayInv'
  BY <1>5 DEF Judge
<1>6. ASSUME NEW w \in Everyone, Report(w) PROVE DelayInv'
  BY <1>6 DEF Report
<1>7. ASSUME NEW w \in Everyone, Verdict(w) PROVE DelayInv'
  BY <1>7 DEF Verdict
<1>8. ASSUME NEW w \in Everyone, AskForRestart(w) PROVE DelayInv'
  BY <1>8 DEF AskForRestart
<1>9. ASSUME NEW w \in Everyone, Terminate(w) PROVE DelayInv'
  BY <1>9 DEF Terminate
<1>10. CASE Tick
  <2>1. /\ stalled' = (stalled \/ \E w \in Everyone : pc[w] \in HandlerPC)
        /\ clock' = clock + 1 /\ UNCHANGED <<pc, statics, now, restarted>>
    BY <1>10 DEF Tick
  <2>2. ~stalled' => ~stalled /\ \A w \in Everyone : pc[w] \notin HandlerPC
    BY <2>1, Zenon
  <2> QED
    BY <2>1, <2>2
<1>11. CASE UNCHANGED vars
  BY <1>11 DEF vars
<1> QED
  BY <1>1, <1>2, <1>3, <1>4, <1>5, <1>6, <1>7, <1>8, <1>9, <1>10, <1>11 DEF Next, Step, Handler

\* No Thread is restarted unless a second goes by while a thread is in the handler.
THEOREM RestartsLate == Spec => []RestartNeedsDelay
<1>1. DelayInv => RestartNeedsDelay
  BY DEF DelayInv, RestartNeedsDelay
<1> QED
  BY <1>1, DelayInit, DelayNext, PTL DEF Spec, Safe
=============================================================================
