-------------------------- MODULE ThreadPoolProofs --------------------------
(***************************************************************************)
(* The pool loses no wake-up, hands functions over cleanly, executes each  *)
(* as often as it is owed, keeps SharedThreadPool near its limit and       *)
(* implements JobSlots, for any number of threads, callers and functions,  *)
(* if the program stops calling before it stops the pool.                  *)
(***************************************************************************)
EXTENDS ThreadPool, Integers, FiniteSetTheorems, WellFoundedInduction, TLAPS

Places == 1 .. Len(available)
InList(t) == \E i \in Places : available[i] = t

\* The list holds workers that wait with nothing to do, each once.
ListInv ==
  /\ \A i, j \in Places : available[i] = available[j] => i = j
  /\ ~Stopping => \A t \in Threads : InList(t) =>
                    pc[t] = "wait" /\ waitFunction[t] /\ lambda[t] = NoJob

\* Outside the list a worker has something to do, or has not said yet that it has not.
ThreadInv ==
  \A t \in Threads :
    /\ pc[t] \in {"unborn", "begin", "indicate"} =>
         lambda[t] = NoJob /\ waitFunction[t] /\ ~InList(t)
    /\ pc[t] = "run" => lambda[t] # NoJob /\ waitFunction[t] /\ ~InList(t)
    /\ pc[t] \in {"done", "deleted"} => Stopping
    /\ ~waitFunction[t] /\ ~Stopping => pc[t] = "wait" /\ lambda[t] # NoJob /\ ~InList(t)

\* A caller inside a call has a function, and the worker it was given.
CallerInv ==
  \A c \in Callers :
    /\ pc[c] # "idle" => job[c] \in Jobs /\ left[c] >= 1
    /\ pc[c] \in {"hand", "unlock"} => thread[c] \in Threads

\* The owner starts the threads in turn, and stops them when nobody uses them.
OwnerInv ==
  /\ thread[Owner] \in Threads
  /\ pc[Owner] = "start" => \A t \in Threads : t >= thread[Owner] => pc[t] = "unborn"
  /\ pc[Owner] \notin {"start", "ready"} => \A c \in Callers : pc[c] = "idle"
  /\ Stopping => \A t \in Threads : lambda[t] = NoJob /\ pc[t] \in {"wait", "done", "deleted"}

IInv ==
  TypeOK /\ NoLostWakeup /\ CleanHandOver /\ ListInv /\ ThreadInv /\ CallerInv /\ OwnerInv

-----------------------------------------------------------------------------
\* A worker, a caller and the owner are different actors.
LEMMA Apart ==
  /\ \A t \in Threads : t \in Actors /\ t # Owner /\ t \notin Callers /\ t \in Nat /\ t # 0
  /\ \A c \in Callers : c \in Actors /\ c \in Clients /\ c # Owner /\ c \notin Threads
  /\ Owner \in Actors /\ Owner \in Clients /\ Owner \notin Threads /\ Owner \notin Callers
  /\ Nobody \notin Actors
  BY ActorsAssumption, NAssumption DEF Actors, Clients, Threads

\* A list in which no worker is twice is not longer than the pool, and if it is as
\* long, every worker is in it.
LEMMA Pigeons ==
  ASSUME NEW q \in Seq(Threads), \A i, j \in 1 .. Len(q) : q[i] = q[j] => i = j
  PROVE  /\ Len(q) <= NbMaxThreads
         /\ Len(q) = NbMaxThreads => \A t \in Threads : \E i \in 1 .. Len(q) : q[i] = t
<1> DEFINE S == 1 .. Len(q)
<1>1. IsFiniteSet(Threads) /\ Cardinality(Threads) = NbMaxThreads
  BY FS_Interval, NAssumption DEF Threads
<1>2. \A n \in Nat : IsFiniteSet(1 .. n) /\ Cardinality(1 .. n) = n
  BY FS_Interval
<1>3. Len(q) \in Nat /\ Cardinality(S) = Len(q)
  BY <1>2
<1>4. q \in Injection(S, Threads)
  BY DEF Injection, IsInjective
<1>5. /\ Cardinality(S) <= Cardinality(Threads)
      /\ Cardinality(S) = Cardinality(Threads) <=> q \in Surjection(S, Threads)
  BY <1>1, <1>4, FS_Injection
<1>6. q \in Surjection(S, Threads) => \A t \in Threads : \E i \in S : q[i] = t
  BY DEF Surjection
<1> QED
  BY <1>1, <1>3, <1>5, <1>6

LEMMA InitIInv == Init => IInv
<1> SUFFICES ASSUME Init PROVE IInv
  OBVIOUS
<1>1. Places = {} /\ available \in Seq(Threads) /\ Len(available) = 0
  BY DEF Init, Places
<1>2. /\ \A t \in Threads : pc[t] = "unborn" /\ lambda[t] = NoJob /\ waitFunction[t]
      /\ \A c \in Callers : pc[c] = "idle"
      /\ pc[Owner] = "start"
  BY Apart DEF Init
<1>3. TypeOK
  BY <1>1, <1>2, Apart, NAssumption
  DEF Init, TypeOK, ThreadPC, CallerPC, OwnerPC, Actors, Clients, Threads
<1>4. NoLostWakeup /\ CleanHandOver
  BY <1>2 DEF Init, NoLostWakeup, CleanHandOver, Holds
<1>5. ListInv /\ ThreadInv /\ CallerInv
  BY <1>1, <1>2 DEF ListInv, ThreadInv, CallerInv, InList, Stopping
<1>6. OwnerInv
  BY <1>2, Apart, NAssumption DEF Init, OwnerInv, Stopping, Threads
<1> QED
  BY <1>3, <1>4, <1>5, <1>6 DEF IInv

\* A worker's step leaves every other actor where it is.
LEMMA WorkerFrame ==
  ASSUME TypeOK, NEW t \in Threads, NEW x \in ThreadPC, pc' = [pc EXCEPT ![t] = x]
  PROVE  /\ pc' \in [Actors -> ThreadPC \cup CallerPC \cup OwnerPC]
         /\ pc'[t] = x
         /\ \A a \in Actors : a # t => pc'[a] = pc[a]
         /\ \A c \in Clients : pc'[c] = pc[c]
         /\ \A u \in Threads : pc'[u] \in ThreadPC
         /\ pc'[Owner] = pc[Owner]
         /\ Stopping' = Stopping
  BY Apart DEF TypeOK, Clients, Stopping

\* The same for a client's step.
LEMMA ClientFrame ==
  ASSUME TypeOK, NEW p \in Clients, NEW x \in CallerPC \cup OwnerPC, pc' = [pc EXCEPT ![p] = x]
  PROVE  /\ pc' \in [Actors -> ThreadPC \cup CallerPC \cup OwnerPC]
         /\ pc'[p] = x
         /\ \A a \in Actors : a # p => pc'[a] = pc[a]
         /\ \A t \in Threads : pc'[t] = pc[t]
         /\ p # Owner => pc'[Owner] = pc[Owner] /\ Stopping' = Stopping
  BY Apart DEF TypeOK, Clients, Stopping

\* A counter of `ran' counts.
LEMMA Counted ==
  ASSUME ran \in [Jobs -> [Threads \cup Callers -> Nat]],
         NEW j \in Jobs, NEW a \in Threads \cup Callers, ran' = [ran EXCEPT ![j][a] = @ + 1]
  PROVE  ran' \in [Jobs -> [Threads \cup Callers -> Nat]]
<1>1. ran[j] \in [Threads \cup Callers -> Nat] /\ ran[j][a] \in Nat
  OBVIOUS
<1>2. [ran[j] EXCEPT ![a] = @ + 1] \in [Threads \cup Callers -> Nat]
  BY <1>1
<1> QED
  BY <1>2

LEMMA BeginIInv ==
  ASSUME IInv, NEW t \in Threads, Begin(t)
  PROVE  IInv'
<1> USE Apart DEF IInv
<1>1. pc[t] = "begin" /\ pc' = [pc EXCEPT ![t] = "indicate"] /\ "indicate" \in ThreadPC
  BY DEF Begin, ThreadPC
<1>2. /\ pc'[t] = "indicate"
      /\ \A a \in Actors : a # t => pc'[a] = pc[a]
      /\ \A c \in Clients : pc'[c] = pc[c]
      /\ Stopping' = Stopping
  BY <1>1, WorkerFrame
<1>3. TypeOK'
  BY <1>1, WorkerFrame DEF Begin, history, TypeOK
<1>4. NoLostWakeup'
  BY <1>1, <1>2 DEF Begin, history, NoLostWakeup, AllAvailable, Clients
<1>5. CleanHandOver'
  BY <1>1, <1>2 DEF Begin, history, CleanHandOver, Holds, Clients
<1>6. ListInv'
  BY <1>1, <1>2 DEF Begin, history, ListInv, InList, Places
<1>7. ThreadInv'
  BY <1>1, <1>2 DEF Begin, history, ThreadInv, InList, Places
<1>8. CallerInv' /\ OwnerInv'
  BY <1>1, <1>2 DEF Begin, history, CallerInv, OwnerInv, Clients
<1> QED
  BY <1>3, <1>4, <1>5, <1>6, <1>7, <1>8

\* The worker enters the list, in which it was not: those who wait for one are woken.
LEMMA IndicateFreeIInv ==
  ASSUME IInv, NEW t \in Threads, IndicateFree(t)
  PROVE  IInv'
<1> USE Apart DEF IInv
<1>1. pc[t] = "indicate" /\ pc' = [pc EXCEPT ![t] = "wait"] /\ "wait" \in ThreadPC
  BY DEF IndicateFree, ThreadPC
<1>2. /\ pc'[t] = "wait"
      /\ \A a \in Actors : a # t => pc'[a] = pc[a]
      /\ \A c \in Clients : pc'[c] = pc[c]
      /\ Stopping' = Stopping
  BY <1>1, WorkerFrame
<1>3. lambda[t] = NoJob /\ waitFunction[t] /\ ~InList(t) /\ ~Stopping
  BY <1>1 DEF ThreadInv, OwnerInv
<1>4. /\ available' \in Seq(Threads) /\ Len(available') = Len(available) + 1
      /\ available'[Len(available) + 1] = t /\ Len(available) \in Nat
      /\ \A i \in Places : available'[i] = available[i]
      /\ Places' = Places \cup {Len(available) + 1}
  BY DEF IndicateFree, PushBack, Places, TypeOK
<1>5. \A u \in Threads : InList(u)' <=> InList(u) \/ u = t
  BY <1>4 DEF InList
<1>6. \A i, j \in Places' : available'[i] = available'[j] => i = j
  BY <1>3, <1>4 DEF ListInv, InList
<1>7. Len(available') <= NbMaxThreads
  BY <1>4, <1>6, Pigeons DEF Places
<1>8. TypeOK'
  <2>1. pc' \in [Actors -> ThreadPC \cup CallerPC \cup OwnerPC] /\ \A u \in Threads : pc'[u] \in ThreadPC
    BY <1>1, WorkerFrame
  <2> QED
    BY <1>2, <1>4, <1>7, <2>1 DEF IndicateFree, worker, history, TypeOK, Clients
<1>9. NoLostWakeup'
  BY <1>1, <1>2 DEF IndicateFree, worker, history, NoLostWakeup, PoolSleepers, Clients
<1>10. CleanHandOver'
  BY <1>1, <1>2, <1>5 DEF IndicateFree, worker, history, CleanHandOver, Holds, Clients, InList, Places
<1>11. ListInv'
  BY <1>2, <1>3, <1>5, <1>6 DEF IndicateFree, worker, ListInv
<1>12. ThreadInv'
  BY <1>1, <1>2, <1>3, <1>5 DEF IndicateFree, worker, ThreadInv
<1>13. CallerInv' /\ OwnerInv'
  BY <1>1, <1>2 DEF IndicateFree, worker, history, CallerInv, OwnerInv, Clients
<1> QED
  BY <1>8, <1>9, <1>10, <1>11, <1>12, <1>13

LEMMA WaitRunIInv ==
  ASSUME IInv, NEW t \in Threads, WaitRun(t)
  PROVE  IInv'
<1> USE Apart DEF IInv
<1>1. pc[t] = "wait" /\ waitFunction[t] /\ asleep' = asleep \cup {t}
      /\ UNCHANGED <<available, waitFunction, lambda, pc, thread, job, left, op>>
  BY DEF WaitRun, history
<1>2. TypeOK'
  BY DEF WaitRun, history, TypeOK
<1>3. NoLostWakeup'
  BY <1>1 DEF NoLostWakeup, AllAvailable
<1>4. CleanHandOver' /\ ListInv' /\ ThreadInv' /\ CallerInv' /\ OwnerInv'
  BY <1>1 DEF CleanHandOver, Holds, ListInv, ThreadInv, CallerInv, OwnerInv, InList, Places, Stopping
<1> QED
  BY <1>2, <1>3, <1>4

\* A signalled worker was given a function, or the pool is being stopped.
LEMMA WakeIInv ==
  ASSUME IInv, NEW t \in Threads, Wake(t)
  PROVE  IInv'
<1> USE Apart DEF IInv
<1> DEFINE x == IF lambda[t] # NoJob THEN "run" ELSE "done"
<1>1. /\ pc[t] = "wait" /\ t \notin asleep /\ ~waitFunction[t]
      /\ pc' = [pc EXCEPT ![t] = x] /\ x \in ThreadPC
      /\ waitFunction' = [waitFunction EXCEPT ![t] = TRUE]
      /\ asleep' = asleep \ UnlockSleepers(t)
      /\ UNCHANGED <<available, lambda, thread, job, left, op>>
  BY DEF Wake, history, ThreadPC
<1>2. /\ pc'[t] = x
      /\ \A a \in Actors : a # t => pc'[a] = pc[a]
      /\ \A c \in Clients : pc'[c] = pc[c]
      /\ Stopping' = Stopping
      /\ waitFunction'[t] /\ \A u \in Threads : u # t => waitFunction'[u] = waitFunction[u]
  BY <1>1, WorkerFrame DEF TypeOK
<1>3. lambda[t] # NoJob => ~Stopping /\ ~InList(t)
  BY <1>1 DEF ThreadInv, OwnerInv
<1>4. lambda[t] = NoJob => Stopping
  BY <1>1 DEF ThreadInv
<1>5. \A c \in Callers : ~Holds(c, t)
  BY <1>1 DEF CleanHandOver
<1>6. TypeOK'
  <2>1. pc' \in [Actors -> ThreadPC \cup CallerPC \cup OwnerPC] /\ \A u \in Threads : pc'[u] \in ThreadPC
    BY <1>1, WorkerFrame
  <2>2. lock' \in [Threads -> Actors \cup {Nobody}]
    <3> HIDE DEF x
    <3>1. PICK y \in {t, Nobody} : lock' = [lock EXCEPT ![t] = y]
      BY DEF Wake
    <3>2. y \in Actors \cup {Nobody} /\ lock \in [Threads -> Actors \cup {Nobody}]
      BY <3>1 DEF TypeOK, Actors
    <3> QED
      BY <3>1, <3>2
  <2>3. waitFunction' \in [Threads -> BOOLEAN]
    BY <1>1 DEF TypeOK
  <2> QED
    BY <1>1, <1>2, <2>1, <2>2, <2>3 DEF Wake, history, TypeOK, Clients
<1>7. NoLostWakeup'
  BY <1>1, <1>2 DEF NoLostWakeup, AllAvailable, UnlockSleepers, Clients, OwnerInv
<1>8. CleanHandOver'
  BY <1>1, <1>2, <1>5 DEF CleanHandOver, Holds, Clients
<1>9. ListInv'
  BY <1>1, <1>2, <1>4 DEF ListInv, ThreadInv, InList, Places
<1>10. ThreadInv'
  BY <1>1, <1>2, <1>3, <1>4 DEF ThreadInv, InList, Places
<1>11. CallerInv'
  BY <1>1, <1>2 DEF CallerInv, Clients
<1>12. OwnerInv'
  BY <1>1, <1>2, <1>3 DEF OwnerInv, Clients
<1> QED
  BY <1>6, <1>7, <1>8, <1>9, <1>10, <1>11, <1>12

LEMMA RunJobIInv ==
  ASSUME IInv, NEW t \in Threads, RunJob(t)
  PROVE  IInv'
<1> USE Apart DEF IInv
<1>1. /\ pc[t] = "run" /\ pc' = [pc EXCEPT ![t] = "indicate"] /\ "indicate" \in ThreadPC
      /\ lambda' = [lambda EXCEPT ![t] = NoJob]
      /\ UNCHANGED <<available, waitFunction, asleep, thread, job, left, op>>
  BY DEF RunJob, ThreadPC
<1>2. /\ pc'[t] = "indicate"
      /\ \A a \in Actors : a # t => pc'[a] = pc[a]
      /\ \A c \in Clients : pc'[c] = pc[c]
      /\ Stopping' = Stopping
      /\ lambda'[t] = NoJob /\ \A u \in Threads : u # t => lambda'[u] = lambda[u]
  BY <1>1, WorkerFrame DEF TypeOK
<1>3. lambda[t] # NoJob /\ waitFunction[t] /\ ~InList(t) /\ ~Stopping
  BY <1>1 DEF ThreadInv, OwnerInv
<1>4. \A c \in Callers : ~Holds(c, t)
  BY <1>1 DEF CleanHandOver
<1>5. TypeOK'
  <2>1. pc' \in [Actors -> ThreadPC \cup CallerPC \cup OwnerPC] /\ \A u \in Threads : pc'[u] \in ThreadPC
    BY <1>1, WorkerFrame
  <2>2. lambda[t] \in Jobs
    BY <1>3 DEF TypeOK
  <2>3. ran' \in [Jobs -> [Threads \cup Callers -> Nat]]
    BY <2>2, Counted DEF RunJob, TypeOK
  <2> QED
    BY <1>1, <1>2, <2>1, <2>3 DEF RunJob, TypeOK, Clients
<1>6. NoLostWakeup'
  BY <1>1, <1>2 DEF NoLostWakeup, AllAvailable, Clients
<1>7. CleanHandOver'
  BY <1>1, <1>2, <1>4 DEF CleanHandOver, Holds, Clients
<1>8. ListInv'
  BY <1>1, <1>2, <1>3 DEF ListInv, InList, Places
<1>9. ThreadInv'
  BY <1>1, <1>2, <1>3 DEF ThreadInv, InList, Places
<1>10. CallerInv' /\ OwnerInv'
  BY <1>1, <1>2, <1>3 DEF CallerInv, OwnerInv, Clients
<1> QED
  BY <1>5, <1>6, <1>7, <1>8, <1>9, <1>10

-----------------------------------------------------------------------------
(* Callers.                                                                *)

\* Only before Stop is anybody inside a call, if the program stops calling first.
LEMMA CallsBeforeStop ==
  ASSUME IInv, NEW c \in Callers, pc[c] # "idle"
  PROVE  pc[Owner] \in {"start", "ready"} /\ ~Stopping
  BY DEF IInv, OwnerInv, Stopping

\* The function of a call has been handed over once and for all.
LEMMA CallIInv ==
  ASSUME Quiesce, IInv, NEW c \in Callers, NEW j \in Jobs, NEW o \in Ops, Call(c, j, o)
  PROVE  IInv'
<1> USE Apart DEF IInv
<1> DEFINE x == IF o = "Shared" THEN "share" ELSE "take"
<1>1. /\ pc[c] = "idle" /\ pc' = [pc EXCEPT ![c] = x] /\ x \in CallerPC
      /\ op[j] = "none" /\ op' = [op EXCEPT ![j] = o] /\ o \in AllOps
      /\ job' = [job EXCEPT ![c] = j] /\ left' = [left EXCEPT ![c] = Iterations(o)]
      /\ pc[Owner] \in {"start", "ready"}
      /\ UNCHANGED <<poolLock, available, lock, waitFunction, lambda, asleep, thread, ran, whole>>
  BY OpsAssumption DEF Call, worker, CallerPC
<1>2. /\ pc'[c] = x
      /\ \A a \in Actors : a # c => pc'[a] = pc[a]
      /\ \A t \in Threads : pc'[t] = pc[t]
      /\ pc'[Owner] = pc[Owner] /\ Stopping' = Stopping
  BY <1>1, ClientFrame
<1>3. /\ job'[c] = j /\ left'[c] >= 1 /\ left'[c] \in 0 .. NbMaxThreads
      /\ \A d \in Callers : d # c => job'[d] = job[d] /\ left'[d] = left[d]
  BY <1>1, NAssumption DEF Iterations, TypeOK
<1>4. TypeOK'
  <2>1. pc' \in [Actors -> ThreadPC \cup CallerPC \cup OwnerPC]
    BY <1>1, ClientFrame
  <2> QED
    BY <1>1, <1>2, <1>3, <2>1 DEF TypeOK
<1>5. NoLostWakeup'
  <2>1. c \notin asleep
    BY <1>1 DEF NoLostWakeup
  <2>2. ASSUME NEW a \in Callers, pc[a] = "take", op[job[a]] \in Blocking
        PROVE  op'[job[a]] = op[job[a]]
    BY <1>1, <2>2 DEF CallerInv, Blocking, TypeOK
  <2> QED
    BY <1>1, <1>2, <1>3, <2>1, <2>2 DEF NoLostWakeup, AllAvailable, Clients
<1>6. CleanHandOver'
  BY <1>1, <1>2, <1>3 DEF CleanHandOver, Holds
<1>7. ListInv' /\ ThreadInv'
  BY <1>1, <1>2 DEF ListInv, ThreadInv, InList, Places
<1>8. CallerInv'
  BY <1>1, <1>2, <1>3 DEF CallerInv, Clients
<1>9. OwnerInv'
  BY <1>1, <1>2 DEF OwnerInv
<1> QED
  BY <1>4, <1>5, <1>6, <1>7, <1>8, <1>9

LEMMA ReadUsageIInv ==
  ASSUME IInv, NEW c \in Callers, ReadUsage(c)
  PROVE  IInv'
<1> USE Apart DEF IInv
<1> DEFINE x == IF UsageAllowed THEN "take" ELSE "inline"
<1>1. /\ pc[c] = "share" /\ pc' = [pc EXCEPT ![c] = x] /\ x \in CallerPC
      /\ UNCHANGED <<poolLock, available, lock, waitFunction, lambda, asleep, thread, job, left, op, ran, whole>>
  BY DEF ReadUsage, worker, history, CallerPC
<1>2. /\ pc'[c] = x
      /\ \A a \in Actors : a # c => pc'[a] = pc[a]
      /\ \A t \in Threads : pc'[t] = pc[t]
      /\ pc'[Owner] = pc[Owner] /\ Stopping' = Stopping
  BY <1>1, ClientFrame
<1>3. TypeOK'
  <2>1. pc' \in [Actors -> ThreadPC \cup CallerPC \cup OwnerPC]
    BY <1>1, ClientFrame
  <2> QED
    BY <1>1, <1>2, <2>1 DEF TypeOK
<1>4. NoLostWakeup'
  BY <1>1, <1>2 DEF NoLostWakeup, AllAvailable, Clients
<1>5. CleanHandOver'
  BY <1>1, <1>2 DEF CleanHandOver, Holds
<1>6. ListInv' /\ ThreadInv' /\ CallerInv' /\ OwnerInv'
  BY <1>1, <1>2 DEF ListInv, ThreadInv, CallerInv, OwnerInv, InList, Places, Clients
<1> QED
  BY <1>3, <1>4, <1>5, <1>6

\* The front of the list leaves it and is nobody's but c's.
LEMMA TakeThreadIInv ==
  ASSUME IInv, NEW c \in Callers, TakeThread(c)
  PROVE  IInv'
<1> USE Apart DEF IInv
<1>0. PICK h \in Threads : h = Head(available)
  BY DEF TakeThread, AtPool, TypeOK
<1>1. /\ pc[c] = "take" /\ c \notin asleep /\ available # <<>>
      /\ pc' = [pc EXCEPT ![c] = "hand"] /\ "hand" \in CallerPC
      /\ thread' = [thread EXCEPT ![c] = h] /\ available' = Tail(available)
      /\ UNCHANGED <<lock, waitFunction, lambda, asleep, job, left, op, ran>>
  BY <1>0 DEF TakeThread, AtPool, PopFront, worker, CallerPC
<1>2. /\ pc'[c] = "hand"
      /\ \A a \in Actors : a # c => pc'[a] = pc[a]
      /\ \A t \in Threads : pc'[t] = pc[t]
      /\ pc'[Owner] = pc[Owner] /\ Stopping' = Stopping
  BY <1>1, ClientFrame
<1>3. pc[Owner] \in {"start", "ready"} /\ ~Stopping
  BY <1>1, CallsBeforeStop
<1>4. /\ Len(available) \in Nat \ {0} /\ h = available[1] /\ InList(h)
      /\ available' \in Seq(Threads) /\ Len(available') = Len(available) - 1
      /\ \A i \in Places' : i \in Places /\ i + 1 \in Places /\ available'[i] = available[i + 1]
  BY <1>0, <1>1 DEF InList, Places, TypeOK
<1>5. /\ ~InList(h)'
      /\ \A t \in Threads : InList(t)' => InList(t)
  <2>1. ASSUME InList(h)' PROVE FALSE
    <3>1. PICK i \in Places' : available'[i] = h
      BY <2>1 DEF InList
    <3>2. i + 1 \in Places /\ 1 \in Places /\ available[i + 1] = available[1] /\ i + 1 # 1
      BY <1>4, <3>1 DEF Places
    <3> QED
      BY <3>2 DEF ListInv
  <2>2. ASSUME NEW t \in Threads, InList(t)' PROVE InList(t)
    BY <1>4, <2>2 DEF InList
  <2> QED
    BY <2>1, <2>2
<1>6. pc[h] = "wait" /\ waitFunction[h] /\ lambda[h] = NoJob
  BY <1>3, <1>4 DEF ListInv
<1>7. \A d \in Callers : ~Holds(d, h)
  BY <1>4 DEF CleanHandOver, InList, Places
<1>8. thread'[c] = h /\ \A d \in Clients : d # c => thread'[d] = thread[d]
  BY <1>1 DEF TypeOK
<1>9. TypeOK'
  <2>1. pc' \in [Actors -> ThreadPC \cup CallerPC \cup OwnerPC]
    BY <1>1, ClientFrame
  <2>2. thread' \in [Clients -> 0 .. NbMaxThreads]
    BY <1>1, <1>4 DEF TypeOK, Threads
  <2>3. poolLock' \in Clients \cup {Nobody}
    BY DEF TakeThread
  <2>4. whole' \subseteq Jobs
    BY <1>1 DEF TakeThread, CallerInv, TypeOK
  <2> QED
    <3>1. Len(available') <= NbMaxThreads
      BY <1>4, NAssumption DEF TypeOK
    <3>2. available' \in Seq(Threads)
      BY <1>4
    <3> QED
      BY <1>1, <1>2, <2>1, <2>2, <2>3, <2>4, <3>1, <3>2 DEF TypeOK
<1>10. NoLostWakeup'
  BY <1>1, <1>2, <1>3, <1>8 DEF NoLostWakeup, Clients
<1>11. CleanHandOver'
  <2>1. \A d \in Callers, t \in Threads : d # c => (Holds(d, t)' <=> Holds(d, t))
    BY <1>2, <1>8 DEF Holds, Clients
  <2>2. \A t \in Threads : Holds(c, t)' <=> t = h
    BY <1>2, <1>8 DEF Holds
  <2>3. \A t \in Threads : (\A i \in 1 .. Len(available) : available[i] # t) <=> ~InList(t)
    BY DEF InList, Places
  <2>4. \A t \in Threads : (\A i \in 1 .. Len(available') : available'[i] # t) <=> ~InList(t)'
    BY DEF InList, Places
  <2> QED
    <3>1. SUFFICES ASSUME NEW d \in Callers, NEW t \in Threads, Holds(d, t)'
                   PROVE  /\ pc'[t] = "wait" /\ waitFunction'[t]
                          /\ lambda'[t] = IF pc'[d] = "hand" THEN NoJob ELSE job'[d]
                          /\ \A i \in 1 .. Len(available') : available'[i] # t
                          /\ \A e \in Callers : Holds(e, t)' => e = d
      BY DEF CleanHandOver
    <3>2. CASE d = c
      BY <3>1, <3>2, <1>1, <1>2, <1>5, <1>6, <1>7, <2>1, <2>2, <2>4
    <3>3. CASE d # c
      <4>1. Holds(d, t) /\ t # h
        BY <3>1, <3>3, <1>7, <2>1
      <4>2. /\ pc[t] = "wait" /\ waitFunction[t]
            /\ lambda[t] = IF pc[d] = "hand" THEN NoJob ELSE job[d]
            /\ ~InList(t)
            /\ \A e \in Callers : Holds(e, t) => e = d
        BY <4>1, <2>3 DEF CleanHandOver
      <4> QED
        BY <3>3, <4>1, <4>2, <1>1, <1>2, <1>5, <2>1, <2>2, <2>4
    <3> QED
      BY <3>2, <3>3
<1>12. ListInv'
  <2>1. \A i, j \in Places' : available'[i] = available'[j] => i = j
    BY <1>4 DEF ListInv, Places
  <2> QED
    BY <1>1, <1>2, <1>5, <2>1 DEF ListInv
<1>13. ThreadInv'
  BY <1>1, <1>2, <1>5 DEF ThreadInv
<1>14. CallerInv' /\ OwnerInv'
  BY <1>1, <1>2, <1>3, <1>4, <1>8 DEF CallerInv, OwnerInv, Clients
<1> QED
  BY <1>9, <1>10, <1>11, <1>12, <1>13, <1>14

LEMMA WaitThreadIInv ==
  ASSUME IInv, NEW c \in Callers, WaitThread(c)
  PROVE  IInv'
<1> USE Apart DEF IInv
<1>1. /\ pc[c] = "take" /\ available = <<>> /\ op[job[c]] \in Blocking
      /\ asleep' = asleep \cup {c}
      /\ UNCHANGED <<available, waitFunction, lambda, pc, thread, job, left, op>>
  BY DEF WaitThread, AtPool, worker, history
<1>2. TypeOK'
  BY DEF WaitThread, worker, history, TypeOK
<1>3. NoLostWakeup'
  BY <1>1 DEF NoLostWakeup, AllAvailable
<1>4. CleanHandOver' /\ ListInv' /\ ThreadInv' /\ CallerInv' /\ OwnerInv'
  BY <1>1 DEF CleanHandOver, Holds, ListInv, ThreadInv, CallerInv, OwnerInv, InList, Places, Stopping
<1> QED
  BY <1>2, <1>3, <1>4

LEMMA NoThreadIInv ==
  ASSUME IInv, NEW c \in Callers, NoThread(c)
  PROVE  IInv'
<1> USE Apart DEF IInv
<1> DEFINE x == IF op[job[c]] = "TryExecute" THEN "idle" ELSE "inline"
<1>1. /\ pc[c] = "take" /\ c \notin asleep
      /\ pc' = [pc EXCEPT ![c] = x] /\ x \in CallerPC
      /\ UNCHANGED <<poolLock, available, lock, waitFunction, lambda, asleep, thread, ran, whole>>
  BY DEF NoThread, AtPool, worker, CallerPC
<1>2. /\ pc'[c] = x
      /\ \A a \in Actors : a # c => pc'[a] = pc[a]
      /\ \A t \in Threads : pc'[t] = pc[t]
      /\ pc'[Owner] = pc[Owner] /\ Stopping' = Stopping
  BY <1>1, ClientFrame
<1>3. /\ x = "inline" => job'[c] = job[c] /\ left'[c] = left[c]
      /\ job' \in [Callers -> Jobs \cup {NoJob}] /\ left' \in [Callers -> 0 .. NbMaxThreads]
      /\ \A d \in Callers : d # c => job'[d] = job[d] /\ left'[d] = left[d]
  <2>1. CASE op[job[c]] = "TryExecute"
    <3>1. job' = [job EXCEPT ![c] = NoJob] /\ left' = [left EXCEPT ![c] = 0]
      BY <2>1 DEF NoThread
    <3> QED
      BY <2>1, <3>1, NAssumption DEF TypeOK
  <2>2. CASE op[job[c]] # "TryExecute"
    BY <2>2 DEF NoThread, TypeOK
  <2> QED
    BY <2>1, <2>2
<1>4. /\ op' \in [Jobs -> AllOps \cup {"none", "refused"}]
      /\ \A j \in Jobs : op[j] \in Blocking => op'[j] = op[j]
  BY DEF NoThread, Blocking, TypeOK
<1>5. TypeOK'
  <2>1. pc' \in [Actors -> ThreadPC \cup CallerPC \cup OwnerPC]
    BY <1>1, ClientFrame
  <2> QED
    BY <1>1, <1>2, <1>3, <1>4, <2>1 DEF TypeOK
<1>6. NoLostWakeup'
  <2>1. \A a \in Callers : a # c /\ pc[a] = "take" => job[a] \in Jobs /\ job'[a] = job[a]
    BY <1>3 DEF CallerInv
  <2> QED
    BY <1>1, <1>2, <1>4, <2>1 DEF NoLostWakeup, AllAvailable, Clients
<1>7. CleanHandOver'
  BY <1>1, <1>2, <1>3 DEF CleanHandOver, Holds
<1>8. ListInv' /\ ThreadInv' /\ OwnerInv'
  BY <1>1, <1>2 DEF ListInv, ThreadInv, OwnerInv, InList, Places
<1>9. CallerInv'
  BY <1>1, <1>2, <1>3 DEF CallerInv, Clients
<1> QED
  BY <1>5, <1>6, <1>7, <1>8, <1>9

LEMMA HandIInv ==
  ASSUME IInv, NEW c \in Callers, Hand(c)
  PROVE  IInv'
<1> USE Apart DEF IInv
<1> DEFINE h == thread[c]
<1>1. /\ pc[c] = "hand" /\ pc' = [pc EXCEPT ![c] = "unlock"] /\ "unlock" \in CallerPC
      /\ lambda' = [lambda EXCEPT ![h] = job[c]] /\ h \in Threads /\ Holds(c, h)
      /\ UNCHANGED <<available, waitFunction, asleep, thread, job, left, op>>
  BY DEF Hand, history, CallerPC, CallerInv, Holds
<1>2. /\ pc'[c] = "unlock"
      /\ \A a \in Actors : a # c => pc'[a] = pc[a]
      /\ \A t \in Threads : pc'[t] = pc[t]
      /\ pc'[Owner] = pc[Owner] /\ Stopping' = Stopping
      /\ lambda'[h] = job[c] /\ \A t \in Threads : t # h => lambda'[t] = lambda[t]
  <2>1. lambda'[h] = job[c] /\ \A t \in Threads : t # h => lambda'[t] = lambda[t]
    BY <1>1 DEF TypeOK
  <2> QED
    BY <1>1, <2>1, ClientFrame
<1>3. pc[Owner] \in {"start", "ready"} /\ ~Stopping
  BY <1>1, CallsBeforeStop
<1>4. pc[h] = "wait" /\ waitFunction[h] /\ ~InList(h) /\ \A d \in Callers : Holds(d, h) => d = c
  BY <1>1 DEF CleanHandOver, InList, Places
<1>5. TypeOK'
  <2>1. pc' \in [Actors -> ThreadPC \cup CallerPC \cup OwnerPC]
    BY <1>1, ClientFrame
  <2>2. lambda' \in [Threads -> Jobs \cup {NoJob}] /\ lock' \in [Threads -> Actors \cup {Nobody}]
    BY <1>1 DEF Hand, TypeOK
  <2> QED
    BY <1>1, <1>2, <2>1, <2>2 DEF Hand, history, TypeOK
<1>6. NoLostWakeup'
  BY <1>1, <1>2 DEF NoLostWakeup, AllAvailable, Clients
<1>7. CleanHandOver'
  <2>1. \A d \in Callers, t \in Threads : Holds(d, t)' <=> Holds(d, t)
    BY <1>1, <1>2 DEF Holds
  <2> QED
    <3>1. SUFFICES ASSUME NEW d \in Callers, NEW t \in Threads, Holds(d, t)'
                   PROVE  /\ pc'[t] = "wait" /\ waitFunction'[t]
                          /\ lambda'[t] = IF pc'[d] = "hand" THEN NoJob ELSE job'[d]
                          /\ \A i \in 1 .. Len(available') : available'[i] # t
                          /\ \A e \in Callers : Holds(e, t)' => e = d
      BY DEF CleanHandOver
    <3>2. /\ pc[t] = "wait" /\ waitFunction[t]
          /\ lambda[t] = IF pc[d] = "hand" THEN NoJob ELSE job[d]
          /\ \A i \in 1 .. Len(available) : available[i] # t
          /\ \A e \in Callers : Holds(e, t) => e = d
      BY <3>1, <2>1 DEF CleanHandOver
    <3>3. d = c <=> t = h
      BY <3>1, <3>2, <2>1, <1>1, <1>4 DEF Holds
    <3> QED
      BY <3>2, <3>3, <2>1, <1>1, <1>2
<1>8. ListInv'
  BY <1>1, <1>2, <1>4 DEF ListInv, InList, Places
<1>9. ThreadInv'
  BY <1>1, <1>2, <1>4 DEF ThreadInv, InList, Places
<1>10. CallerInv' /\ OwnerInv'
  BY <1>1, <1>2, <1>3 DEF CallerInv, OwnerInv
<1> QED
  BY <1>5, <1>6, <1>7, <1>8, <1>9, <1>10

\* No caller has to wait here: its worker has taken every earlier signal.
LEMMA UnlockWaitIInv ==
  ASSUME IInv, NEW p \in Clients, UnlockWait(p)
  PROVE  IInv'
<1> USE Apart DEF IInv
<1>1. /\ pc[p] \in {"unlock", "unlock2"} /\ ~waitFunction[thread[p]]
      /\ asleep' = asleep \cup {p}
      /\ UNCHANGED <<available, waitFunction, lambda, pc, thread, job, left, op>>
  BY DEF UnlockWait, AtUnlock, history
<1>2. p = Owner
  <2>1. SUFFICES ASSUME p \in Callers PROVE FALSE
    BY DEF Clients
  <2>2. pc[p] = "unlock" /\ thread[p] \in Threads
    BY <1>1, <2>1 DEF TypeOK, CallerPC, CallerInv
  <2> QED
    BY <1>1, <2>1, <2>2 DEF CleanHandOver, Holds
<1>3. TypeOK'
  BY <1>1 DEF UnlockWait, history, TypeOK, Actors
<1>4. NoLostWakeup'
  BY <1>1, <1>2 DEF NoLostWakeup, AllAvailable
<1>5. CleanHandOver' /\ ListInv' /\ ThreadInv' /\ CallerInv' /\ OwnerInv'
  BY <1>1 DEF CleanHandOver, Holds, ListInv, ThreadInv, CallerInv, OwnerInv, InList, Places, Stopping
<1> QED
  BY <1>3, <1>4, <1>5

LEMMA HandOverIInv ==
  ASSUME IInv, NEW c \in Callers, HandOver(c)
  PROVE  IInv'
<1> USE Apart DEF IInv
<1> DEFINE h == thread[c]  x == IF left[c] > 1 THEN "take" ELSE "idle"
<1>1. pc[c] = "unlock" /\ h \in Threads /\ Holds(c, h) /\ left[c] >= 1 /\ job[c] \in Jobs
      /\ left[c] \in 0 .. NbMaxThreads
  BY DEF HandOver, AtUnlock, TypeOK, CallerPC, CallerInv, Holds
<1>2. /\ pc' = [pc EXCEPT ![c] = x] /\ x \in CallerPC
      /\ waitFunction' = [waitFunction EXCEPT ![h] = FALSE]
      /\ asleep' = asleep \ {h} /\ c \notin asleep
      /\ thread' = [thread EXCEPT ![c] = 0]
      /\ left' = [left EXCEPT ![c] = left[c] - 1]
      /\ UNCHANGED <<available, lambda, op>>
  BY <1>1 DEF HandOver, AtUnlock, history, CallerPC
<1>3. /\ pc'[c] = x
      /\ \A a \in Actors : a # c => pc'[a] = pc[a]
      /\ \A t \in Threads : pc'[t] = pc[t]
      /\ pc'[Owner] = pc[Owner] /\ Stopping' = Stopping
  BY <1>2, ClientFrame
<1>4. /\ ~waitFunction'[h] /\ \A t \in Threads : t # h => waitFunction'[t] = waitFunction[t]
      /\ thread'[c] = 0 /\ \A d \in Clients : d # c => thread'[d] = thread[d]
      /\ \A d \in Callers : d # c => left'[d] = left[d] /\ job'[d] = job[d]
      /\ x = "take" => left'[c] >= 1 /\ job'[c] = job[c]
      /\ job' \in [Callers -> Jobs \cup {NoJob}]
  <2>1. waitFunction'[h] = FALSE /\ \A t \in Threads : t # h => waitFunction'[t] = waitFunction[t]
    BY <1>1, <1>2 DEF TypeOK
  <2>2. thread'[c] = 0 /\ \A d \in Clients : d # c => thread'[d] = thread[d]
    BY <1>2 DEF TypeOK
  <2>3. left'[c] = left[c] - 1 /\ \A d \in Callers : d # c => left'[d] = left[d]
    BY <1>2 DEF TypeOK
  <2>4. /\ x = "take" => job' = job
        /\ job' \in [Callers -> Jobs \cup {NoJob}] /\ \A d \in Callers : d # c => job'[d] = job[d]
    <3>1. CASE left[c] > 1
      BY <3>1 DEF HandOver, TypeOK
    <3>2. CASE ~(left[c] > 1)
      BY <3>2, <1>1 DEF HandOver, TypeOK
    <3> QED
      BY <3>1, <3>2
  <2> QED
    BY <1>1, <2>1, <2>2, <2>3, <2>4
<1>5. pc[Owner] \in {"start", "ready"} /\ ~Stopping
  BY <1>1, CallsBeforeStop
<1>6. /\ pc[h] = "wait" /\ lambda[h] = job[c] /\ lambda[h] # NoJob /\ ~InList(h)
      /\ \A d \in Callers : Holds(d, h) => d = c
  BY <1>1, JobsAssumption DEF CleanHandOver, InList, Places
<1>7. TypeOK'
  <2>1. pc' \in [Actors -> ThreadPC \cup CallerPC \cup OwnerPC]
    BY <1>2, ClientFrame
  <2>2. left' \in [Callers -> 0 .. NbMaxThreads]
    BY <1>1, <1>2, NAssumption DEF TypeOK
  <2>3. thread' \in [Clients -> 0 .. NbMaxThreads]
    BY <1>2, NAssumption DEF TypeOK
  <2>4. poolLock' \in Clients \cup {Nobody} /\ lock' \in [Threads -> Actors \cup {Nobody}]
    BY DEF HandOver, TypeOK
  <2>5. waitFunction' \in [Threads -> BOOLEAN]
    BY <1>2 DEF TypeOK
  <2>6. UNCHANGED <<available, lambda, op, ran, whole>>
    BY DEF HandOver, history
  <2> QED
    BY <1>2, <1>3, <1>4, <2>1, <2>2, <2>3, <2>4, <2>5, <2>6 DEF TypeOK
<1>8. NoLostWakeup'
  BY <1>2, <1>3, <1>4, <1>5 DEF NoLostWakeup, AllAvailable, Clients
<1>9. CleanHandOver'
  <2>1. \A t \in Threads : ~Holds(c, t)'
    BY <1>3, <1>4 DEF Holds
  <2>2. \A d \in Callers, t \in Threads : d # c => (Holds(d, t)' <=> Holds(d, t))
    BY <1>3, <1>4 DEF Holds, Clients
  <2> QED
    BY <1>2, <1>3, <1>4, <1>6, <2>1, <2>2 DEF CleanHandOver
<1>10. ListInv'
  BY <1>2, <1>3, <1>4, <1>6 DEF ListInv, InList, Places
<1>11. ThreadInv'
  BY <1>2, <1>3, <1>4, <1>6 DEF ThreadInv, InList, Places
<1>12. CallerInv' /\ OwnerInv'
  BY <1>1, <1>2, <1>3, <1>4, <1>5 DEF CallerInv, OwnerInv, Clients
<1> QED
  BY <1>7, <1>8, <1>9, <1>10, <1>11, <1>12

LEMMA RunInlineIInv ==
  ASSUME IInv, NEW c \in Callers, RunInline(c)
  PROVE  IInv'
<1> USE Apart DEF IInv
<1>1. /\ pc[c] = "inline" /\ pc' = [pc EXCEPT ![c] = "idle"] /\ "idle" \in CallerPC
      /\ job[c] \in Jobs
      /\ UNCHANGED <<poolLock, available, lock, waitFunction, lambda, asleep, thread, op, whole>>
  BY DEF RunInline, worker, CallerPC, CallerInv
<1>2. /\ pc'[c] = "idle"
      /\ \A a \in Actors : a # c => pc'[a] = pc[a]
      /\ \A t \in Threads : pc'[t] = pc[t]
      /\ pc'[Owner] = pc[Owner] /\ Stopping' = Stopping
  BY <1>1, ClientFrame
<1>3. /\ job' \in [Callers -> Jobs \cup {NoJob}] /\ left' \in [Callers -> 0 .. NbMaxThreads]
      /\ \A d \in Callers : d # c => job'[d] = job[d] /\ left'[d] = left[d]
      /\ ran' \in [Jobs -> [Threads \cup Callers -> Nat]]
  <2>1. ran' = [ran EXCEPT ![job[c]][c] = @ + 1] /\ ran \in [Jobs -> [Threads \cup Callers -> Nat]]
    BY DEF RunInline, TypeOK
  <2>2. ran' \in [Jobs -> [Threads \cup Callers -> Nat]]
    BY <1>1, <2>1, Counted
  <2>3. job' \in [Callers -> Jobs \cup {NoJob}] /\ \A d \in Callers : d # c => job'[d] = job[d]
    BY DEF RunInline, TypeOK
  <2>4. left' \in [Callers -> 0 .. NbMaxThreads] /\ \A d \in Callers : d # c => left'[d] = left[d]
    BY NAssumption DEF RunInline, TypeOK
  <2> QED
    BY <2>2, <2>3, <2>4
<1>4. TypeOK'
  <2>1. pc' \in [Actors -> ThreadPC \cup CallerPC \cup OwnerPC]
    BY <1>1, ClientFrame
  <2> QED
    BY <1>1, <1>2, <1>3, <2>1 DEF TypeOK
<1>5. NoLostWakeup'
  BY <1>1, <1>2, <1>3 DEF NoLostWakeup, AllAvailable, Clients
<1>6. CleanHandOver'
  BY <1>1, <1>2, <1>3 DEF CleanHandOver, Holds
<1>7. ListInv' /\ ThreadInv' /\ OwnerInv'
  BY <1>1, <1>2 DEF ListInv, ThreadInv, OwnerInv, InList, Places
<1>8. CallerInv'
  BY <1>1, <1>2, <1>3 DEF CallerInv, Clients
<1> QED
  BY <1>4, <1>5, <1>6, <1>7, <1>8

-----------------------------------------------------------------------------
(* The owner.                                                              *)

LEMMA StartIInv ==
  ASSUME IInv, Start
  PROVE  IInv'
<1> USE Apart DEF IInv
<1>0. PICK k \in Threads : k = thread[Owner]
  BY DEF OwnerInv
<1> DEFINE x == IF k = NbMaxThreads THEN "ready" ELSE "start"
           n == IF k = NbMaxThreads THEN 1 ELSE k + 1
<1>1. /\ pc[Owner] = "start" /\ pc[k] = "unborn" /\ k \in 1 .. NbMaxThreads
      /\ pc' = [pc EXCEPT ![k] = "begin", ![Owner] = x]
      /\ thread' = [thread EXCEPT ![Owner] = n] /\ n \in Threads /\ n \in 0 .. NbMaxThreads
      /\ UNCHANGED <<poolLock, available, lock, waitFunction, lambda, asleep, job, left, op, ran, whole>>
  BY <1>0, NAssumption DEF Start, worker, history, OwnerInv, Threads
<1>2. /\ pc'[k] = "begin" /\ pc'[Owner] = x
      /\ \A a \in Actors : a # k /\ a # Owner => pc'[a] = pc[a]
      /\ \A c \in Callers : pc'[c] = pc[c]
      /\ ~Stopping /\ ~Stopping'
  BY <1>1 DEF TypeOK, Stopping
<1>3. thread'[Owner] = n /\ \A c \in Callers : thread'[c] = thread[c]
  BY <1>1 DEF TypeOK
<1>4. lambda[k] = NoJob /\ waitFunction[k] /\ ~InList(k)
  BY <1>1 DEF ThreadInv
<1>5. TypeOK'
  <2>1. pc' \in [Actors -> ThreadPC \cup CallerPC \cup OwnerPC]
    BY <1>1 DEF TypeOK, ThreadPC, OwnerPC
  <2>2. thread' \in [Clients -> 0 .. NbMaxThreads]
    BY <1>1 DEF TypeOK
  <2>3. /\ \A t \in Threads : pc'[t] \in ThreadPC
        /\ \A c \in Callers : pc'[c] \in CallerPC
        /\ pc'[Owner] \in OwnerPC
    BY <1>2 DEF TypeOK, ThreadPC, OwnerPC
  <2> QED
    BY <1>1, <2>1, <2>2, <2>3 DEF TypeOK
<1>6. NoLostWakeup'
  <2> SUFFICES ASSUME NEW a \in asleep
               PROVE  \/ a \in Threads /\ pc'[a] = "wait" /\ waitFunction[a]
                      \/ /\ a \in Callers /\ pc'[a] = "take" /\ op[job[a]] \in Blocking
                         /\ available = <<>>
    BY <1>1 DEF NoLostWakeup
  <2>1. a # Owner
    BY <1>1 DEF NoLostWakeup
  <2>2. \/ a \in Threads /\ pc[a] = "wait" /\ waitFunction[a]
        \/ a \in Callers /\ pc[a] = "take" /\ op[job[a]] \in Blocking /\ available = <<>>
    BY <2>1 DEF NoLostWakeup
  <2>3. a # k
    BY <1>1, <2>2
  <2> QED
    BY <1>2, <2>1, <2>2, <2>3
<1>7. CleanHandOver'
  <2>1. \A c \in Callers, t \in Threads : Holds(c, t)' <=> Holds(c, t)
    BY <1>2, <1>3 DEF Holds
  <2>2. \A c \in Callers : ~Holds(c, k)
    BY <1>1 DEF CleanHandOver
  <2>3. UNCHANGED <<available, waitFunction, lambda, job>>
    BY <1>1
  <2> QED
    BY <1>2, <2>1, <2>2, <2>3 DEF CleanHandOver
<1>8. \A t \in Threads : InList(t)' <=> InList(t)
  BY <1>1 DEF InList, Places
<1>9. ListInv'
  <2>1. \A i, j \in Places' : available'[i] = available'[j] => i = j
    BY <1>1 DEF ListInv, Places
  <2>2. ASSUME NEW t \in Threads, InList(t)
        PROVE  pc'[t] = "wait" /\ waitFunction'[t] /\ lambda'[t] = NoJob
    BY <1>1, <1>2, <1>4, <2>2 DEF ListInv
  <2> QED
    BY <1>8, <2>1, <2>2 DEF ListInv
<1>10. ThreadInv'
  <2> SUFFICES ASSUME NEW t \in Threads
               PROVE  /\ pc'[t] \in {"unborn", "begin", "indicate"} =>
                           lambda[t] = NoJob /\ waitFunction[t] /\ ~InList(t)
                      /\ pc'[t] = "run" => lambda[t] # NoJob /\ waitFunction[t] /\ ~InList(t)
                      /\ pc'[t] \notin {"done", "deleted"}
                      /\ ~waitFunction[t] =>
                           pc'[t] = "wait" /\ lambda[t] # NoJob /\ ~InList(t)
    BY <1>1, <1>2, <1>8 DEF ThreadInv
  <2>1. CASE t = k
    BY <1>2, <1>4, <2>1
  <2>2. CASE t # k
    BY <1>2, <2>2 DEF ThreadInv
  <2> QED
    BY <2>1, <2>2
<1>11. CallerInv'
  BY <1>1, <1>2, <1>3 DEF CallerInv
<1>12. OwnerInv'
  <2>1. ASSUME pc'[Owner] = "start", NEW t \in Threads, t >= n PROVE pc'[t] = "unborn"
    <3>1. k # NbMaxThreads /\ t > k
      BY <1>1, <1>2, <2>1 DEF Threads
    <3>2. pc[t] = "unborn"
      BY <1>0, <1>1, <2>1, <3>1 DEF OwnerInv, Threads
    <3> QED
      BY <1>2, <3>1, <3>2
  <2>2. pc'[Owner] \in {"start", "ready"} /\ thread'[Owner] = n /\ n \in Threads
    BY <1>1, <1>2, <1>3
  <2> QED
    BY <1>2, <2>1, <2>2 DEF OwnerInv
<1> QED
  BY <1>5, <1>6, <1>7, <1>9, <1>11, <1>12, <1>10

LEMMA StopCallIInv ==
  ASSUME Quiesce, IInv, StopCall
  PROVE  IInv'
<1> USE Apart DEF IInv
<1>1. /\ pc[Owner] = "ready" /\ pc' = [pc EXCEPT ![Owner] = "stop"] /\ "stop" \in OwnerPC
      /\ \A c \in Callers : pc[c] = "idle"
      /\ UNCHANGED <<poolLock, available, lock, waitFunction, lambda, asleep, thread, job, left, op, ran, whole>>
  BY DEF StopCall, worker, history, OwnerPC
<1>2. /\ pc' \in [Actors -> ThreadPC \cup CallerPC \cup OwnerPC]
      /\ pc'[Owner] = "stop"
      /\ \A a \in Actors : a # Owner => pc'[a] = pc[a]
      /\ \A t \in Threads : pc'[t] = pc[t]
  BY <1>1, ClientFrame
<1>3. ~Stopping /\ ~Stopping'
  BY <1>1, <1>2 DEF Stopping
<1>4. TypeOK'
  BY <1>1, <1>2 DEF TypeOK
<1>5. NoLostWakeup'
  BY <1>1, <1>2 DEF NoLostWakeup, AllAvailable
<1>6. CleanHandOver' /\ ListInv' /\ ThreadInv' /\ CallerInv' /\ OwnerInv'
  BY <1>1, <1>2, <1>3 DEF CleanHandOver, Holds, ListInv, ThreadInv, CallerInv, OwnerInv, InList, Places
<1> QED
  BY <1>4, <1>5, <1>6

\* A list as long as the pool holds every worker, so none has anything to do.
LEMMA StopWaitIInv ==
  ASSUME IInv, StopWait
  PROVE  IInv'
<1> USE Apart DEF IInv
<1>1. pc[Owner] = "stop" /\ ~Stopping /\ Owner \notin asleep
      /\ UNCHANGED <<available, lock, waitFunction, lambda, thread, job, left, op, ran, whole>>
  BY DEF StopWait, worker, history, Stopping
<1>2. CASE AllAvailable
  <2>1. pc' = [pc EXCEPT ![Owner] = "delete"] /\ "delete" \in OwnerPC /\ poolLock' = Owner /\ asleep' = asleep
    BY <1>2 DEF StopWait, OwnerPC
  <2>2. /\ pc' \in [Actors -> ThreadPC \cup CallerPC \cup OwnerPC]
        /\ pc'[Owner] = "delete"
        /\ \A a \in Actors : a # Owner => pc'[a] = pc[a]
        /\ \A t \in Threads : pc'[t] = pc[t]
    BY <2>1, ClientFrame
  <2>3. \A t \in Threads : InList(t)
    <3>1. available \in Seq(Threads) /\ Len(available) = NbMaxThreads
      BY <1>2 DEF AllAvailable, TypeOK
    <3>2. \A i, j \in 1 .. Len(available) : available[i] = available[j] => i = j
      BY DEF ListInv, Places
    <3> QED
      BY <3>1, <3>2, Pigeons DEF InList, Places
  <2>4. \A t \in Threads : pc[t] = "wait" /\ waitFunction[t] /\ lambda[t] = NoJob
    BY <1>1, <2>3 DEF ListInv
  <2>5. TypeOK'
    BY <1>1, <2>1, <2>2 DEF TypeOK
  <2>6. NoLostWakeup'
    BY <1>1, <2>1, <2>2 DEF NoLostWakeup
  <2>7. CleanHandOver' /\ CallerInv'
    BY <1>1, <2>2 DEF CleanHandOver, Holds, CallerInv
  <2>8. Stopping'
    BY <2>2 DEF Stopping
  <2>9. ListInv' /\ ThreadInv' /\ OwnerInv'
    BY <1>1, <2>2, <2>4, <2>8 DEF ListInv, ThreadInv, OwnerInv, InList, Places
  <2> QED
    BY <2>5, <2>6, <2>7, <2>9
<1>3. CASE ~AllAvailable
  <2>1. asleep' = asleep \cup {Owner} /\ poolLock' = poolLock /\ pc' = pc
    BY <1>3 DEF StopWait
  <2>2. TypeOK'
    BY <1>1, <2>1 DEF TypeOK
  <2>3. NoLostWakeup'
    BY <1>1, <1>3, <2>1 DEF NoLostWakeup, AllAvailable
  <2>4. CleanHandOver' /\ ListInv' /\ ThreadInv' /\ CallerInv' /\ OwnerInv'
    BY <1>1, <2>1 DEF CleanHandOver, Holds, ListInv, ThreadInv, CallerInv, OwnerInv, InList, Places, Stopping
  <2> QED
    BY <2>2, <2>3, <2>4
<1> QED
  BY <1>2, <1>3

LEMMA DeleteIInv ==
  ASSUME IInv, Delete
  PROVE  IInv'
<1> USE Apart DEF IInv
<1>1. /\ pc[Owner] = "delete" /\ pc' = [pc EXCEPT ![Owner] = "unlock"] /\ "unlock" \in OwnerPC
      /\ UNCHANGED <<poolLock, available, waitFunction, lambda, asleep, thread, job, left, op, ran, whole>>
  BY DEF Delete, history, OwnerPC
<1>2. /\ pc' \in [Actors -> ThreadPC \cup CallerPC \cup OwnerPC]
      /\ pc'[Owner] = "unlock"
      /\ \A a \in Actors : a # Owner => pc'[a] = pc[a]
      /\ \A t \in Threads : pc'[t] = pc[t]
  BY <1>1, ClientFrame
<1>3. Stopping /\ Stopping'
  BY <1>1, <1>2 DEF Stopping
<1>4. TypeOK'
  <2>1. lock' \in [Threads -> Actors \cup {Nobody}]
    BY DEF Delete, TypeOK
  <2> QED
    BY <1>1, <1>2, <2>1 DEF TypeOK
<1>5. NoLostWakeup'
  BY <1>1, <1>2 DEF NoLostWakeup, AllAvailable
<1>6. CleanHandOver' /\ ListInv' /\ ThreadInv' /\ CallerInv' /\ OwnerInv'
  BY <1>1, <1>2, <1>3 DEF CleanHandOver, Holds, ListInv, ThreadInv, CallerInv, OwnerInv, InList, Places
<1> QED
  BY <1>4, <1>5, <1>6

LEMMA DestroyUnlockIInv ==
  ASSUME IInv, DestroyUnlock
  PROVE  IInv'
<1> USE Apart DEF IInv
<1>0. PICK k \in Threads : k = thread[Owner]
  BY DEF OwnerInv
<1> DEFINE x == IF pc[Owner] = "unlock" THEN "unlock2" ELSE "join"
<1>1. /\ pc[Owner] \in {"unlock", "unlock2"} /\ Owner \notin asleep
      /\ pc' = [pc EXCEPT ![Owner] = x] /\ x \in OwnerPC
      /\ waitFunction' = [waitFunction EXCEPT ![k] = FALSE] /\ asleep' = asleep \ {k}
      /\ UNCHANGED <<poolLock, available, lambda, thread, job, left, op, ran, whole>>
  BY <1>0 DEF DestroyUnlock, AtUnlock, history, OwnerPC
<1>2. /\ pc' \in [Actors -> ThreadPC \cup CallerPC \cup OwnerPC]
      /\ pc'[Owner] = x
      /\ \A a \in Actors : a # Owner => pc'[a] = pc[a]
      /\ \A t \in Threads : pc'[t] = pc[t]
  BY <1>1, ClientFrame
<1>3. Stopping /\ Stopping'
  BY <1>1, <1>2 DEF Stopping
<1>4. \A t \in Threads : t # k => waitFunction'[t] = waitFunction[t]
  BY <1>1 DEF TypeOK
<1>5. \A c \in Callers : pc[c] = "idle"
  BY <1>1 DEF OwnerInv
<1>6. TypeOK'
  <2>1. lock' \in [Threads -> Actors \cup {Nobody}]
    BY DEF DestroyUnlock, TypeOK
  <2>2. waitFunction' \in [Threads -> BOOLEAN]
    BY <1>1 DEF TypeOK
  <2> QED
    BY <1>1, <1>2, <2>1, <2>2 DEF TypeOK
<1>7. NoLostWakeup'
  BY <1>1, <1>2, <1>4, <1>5 DEF NoLostWakeup
<1>8. CleanHandOver' /\ CallerInv'
  BY <1>1, <1>2, <1>5 DEF CleanHandOver, Holds, CallerInv
<1>9. ListInv' /\ OwnerInv'
  BY <1>1, <1>2, <1>3 DEF ListInv, OwnerInv, InList, Places
<1>10. ThreadInv'
  BY <1>1, <1>2, <1>3 DEF ThreadInv, OwnerInv, InList, Places
<1> QED
  BY <1>6, <1>7, <1>8, <1>9, <1>10

LEMMA JoinIInv ==
  ASSUME IInv, Join
  PROVE  IInv'
<1> USE Apart DEF IInv
<1>0. PICK k \in Threads : k = thread[Owner]
  BY DEF OwnerInv
<1> DEFINE x == IF k < NbMaxThreads THEN "delete" ELSE "stopped"
           n == IF k < NbMaxThreads THEN k + 1 ELSE k
<1>1. /\ pc[Owner] = "join" /\ pc[k] = "done" /\ k \in 1 .. NbMaxThreads
      /\ pc' = [pc EXCEPT ![k] = "deleted", ![Owner] = x]
      /\ UNCHANGED <<available, lock, waitFunction, lambda, asleep, job, left, op, ran, whole>>
      /\ n \in Threads /\ n \in 0 .. NbMaxThreads
  BY <1>0, NAssumption DEF Join, worker, history, Threads
<1>2. thread' = [thread EXCEPT ![Owner] = n]
  <2>1. CASE k < NbMaxThreads
    BY <1>0, <2>1 DEF Join
  <2>2. CASE ~(k < NbMaxThreads)
    BY <1>0, <2>2 DEF Join, TypeOK
  <2> QED
    BY <2>1, <2>2
<1>3. /\ pc'[k] = "deleted" /\ pc'[Owner] = x
      /\ \A a \in Actors : a # k /\ a # Owner => pc'[a] = pc[a]
      /\ \A c \in Callers : pc'[c] = pc[c]
      /\ Stopping /\ Stopping'
  BY <1>1 DEF TypeOK, Stopping
<1>4. thread'[Owner] = n /\ \A c \in Callers : thread'[c] = thread[c]
  BY <1>2 DEF TypeOK
<1>5. \A c \in Callers : pc[c] = "idle"
  BY <1>1 DEF OwnerInv
<1>6. TypeOK'
  <2>1. pc' \in [Actors -> ThreadPC \cup CallerPC \cup OwnerPC]
    BY <1>1 DEF TypeOK, ThreadPC, OwnerPC
  <2>2. thread' \in [Clients -> 0 .. NbMaxThreads]
    BY <1>1, <1>2 DEF TypeOK
  <2>3. /\ \A t \in Threads : pc'[t] \in ThreadPC
        /\ \A c \in Callers : pc'[c] \in CallerPC
        /\ pc'[Owner] \in OwnerPC
    BY <1>3 DEF TypeOK, ThreadPC, OwnerPC
  <2>4. poolLock' \in Clients \cup {Nobody}
    BY DEF Join, TypeOK
  <2> QED
    BY <1>1, <2>1, <2>2, <2>3, <2>4 DEF TypeOK
<1>7. NoLostWakeup'
  <2> SUFFICES ASSUME NEW a \in asleep
               PROVE  a \in Threads /\ pc'[a] = "wait" /\ waitFunction[a]
    BY <1>1 DEF NoLostWakeup
  <2>1. a \in Threads /\ pc[a] = "wait" /\ waitFunction[a]
    BY <1>1, <1>5 DEF NoLostWakeup
  <2>2. a # k /\ a # Owner
    BY <1>1, <2>1
  <2> QED
    BY <1>3, <2>1, <2>2
<1>8. CleanHandOver' /\ CallerInv'
  BY <1>1, <1>3, <1>5 DEF CleanHandOver, Holds, CallerInv
<1>9. ListInv' /\ ThreadInv'
  <2>1. ListInv'
    BY <1>1, <1>3 DEF ListInv, Places
  <2>2. \A t \in Threads : t # k => pc'[t] = pc[t]
    BY <1>3
  <2>3. \A t \in Threads : InList(t)' <=> InList(t)
    BY <1>1 DEF InList, Places
  <2>4. pc'[k] = "deleted"
    BY <1>3
  <2>5. ThreadInv'
    BY <1>1, <1>3, <2>2, <2>3, <2>4 DEF ThreadInv
  <2> QED
    BY <2>1, <2>5
<1>10. OwnerInv'
  <2>1. \A t \in Threads : lambda'[t] = NoJob /\ pc'[t] \in {"wait", "done", "deleted"}
    BY <1>1, <1>3 DEF OwnerInv
  <2>2. pc'[Owner] # "start" /\ thread'[Owner] \in Threads
    BY <1>1, <1>3, <1>4
  <2> QED
    BY <1>3, <1>5, <2>1, <2>2 DEF OwnerInv
<1> QED
  BY <1>6, <1>7, <1>8, <1>9, <1>10

-----------------------------------------------------------------------------
LEMMA SpuriousIInv ==
  ASSUME IInv, NEW a \in Actors, Spurious(a)
  PROVE  IInv'
<1> USE Apart DEF IInv
<1>1. /\ asleep' \subseteq asleep
      /\ UNCHANGED <<poolLock, available, lock, waitFunction, lambda, pc, thread, job, left, op, ran, whole>>
  BY DEF Spurious, worker, history
<1>2. TypeOK'
  BY <1>1 DEF TypeOK
<1>3. NoLostWakeup'
  BY <1>1 DEF NoLostWakeup, AllAvailable
<1>4. CleanHandOver' /\ ListInv' /\ ThreadInv' /\ CallerInv' /\ OwnerInv'
  BY <1>1 DEF CleanHandOver, Holds, ListInv, ThreadInv, CallerInv, OwnerInv, InList, Places, Stopping
<1> QED
  BY <1>2, <1>3, <1>4

LEMMA StutterIInv ==
  ASSUME IInv, UNCHANGED vars
  PROVE  IInv'
<1> USE DEF IInv
<1>1. UNCHANGED <<poolLock, available, lock, waitFunction, lambda, asleep, pc, thread, job, left, op, ran, whole>>
  BY DEF vars
<1>2. TypeOK' /\ NoLostWakeup'
  BY <1>1 DEF TypeOK, NoLostWakeup, AllAvailable
<1>3. CleanHandOver' /\ ListInv' /\ ThreadInv' /\ CallerInv' /\ OwnerInv'
  BY <1>1 DEF CleanHandOver, Holds, ListInv, ThreadInv, CallerInv, OwnerInv, InList, Places, Stopping
<1> QED
  BY <1>2, <1>3

LEMMA NextIInv ==
  ASSUME Quiesce, IInv, [Next]_vars
  PROVE  IInv'
<1>1. ASSUME NEW t \in Threads, ThreadStep(t) PROVE IInv'
  BY <1>1, BeginIInv, IndicateFreeIInv, WaitRunIInv, WakeIInv, RunJobIInv DEF ThreadStep
<1>2. ASSUME NEW c \in Callers, CallStep(c) PROVE IInv'
  <2>1. c \in Clients
    BY DEF Clients
  <2> QED
    BY <1>2, <2>1, ReadUsageIInv, TakeThreadIInv, WaitThreadIInv, NoThreadIInv, HandIInv,
       UnlockWaitIInv, HandOverIInv, RunInlineIInv DEF CallStep
<1>3. ASSUME NEW c \in Callers, NEW j \in Jobs, NEW o \in Ops, Call(c, j, o) PROVE IInv'
  BY <1>3, CallIInv
<1>4. CASE OwnerStep
  <2>1. Owner \in Clients
    BY DEF Clients
  <2> QED
    BY <1>4, <2>1, StartIInv, StopWaitIInv, DeleteIInv, UnlockWaitIInv, DestroyUnlockIInv, JoinIInv
    DEF OwnerStep
<1>5. CASE StopCall
  BY <1>5, StopCallIInv
<1>6. ASSUME NEW a \in Actors, Spurious(a) PROVE IInv'
  BY <1>6, SpuriousIInv
<1>7. CASE UNCHANGED vars
  BY <1>7, StutterIInv
<1> QED
  BY <1>1, <1>2, <1>3, <1>4, <1>5, <1>6, <1>7 DEF Next, Terminated

LEMMA InductiveInvariant ==
  ASSUME Quiesce
  PROVE  Safe => []IInv
<1>1. IInv /\ [Next]_vars => IInv'
  BY NextIInv
<1> QED
  BY <1>1, InitIInv, PTL DEF Safe

-----------------------------------------------------------------------------
\* Every variable keeps its type; in particular the list never outgrows the pool.
THEOREM TypeCorrect ==
  ASSUME Quiesce
  PROVE  Safe => []TypeOK
  BY InductiveInvariant, PTL DEF IInv

\* Nobody stays asleep once the event it waits for has happened.
THEOREM WakeupsSafe ==
  ASSUME Quiesce
  PROVE  Safe => []NoLostWakeup
  BY InductiveInvariant, PTL DEF IInv

\* A worker given to a caller is idle and that caller's alone, so handing a function
\* over neither overwrites one nor waits while the pool's mutex is held.
THEOREM HandOverSafe ==
  ASSUME Quiesce
  PROVE  Safe => []CleanHandOver
  BY InductiveInvariant, PTL DEF IInv

-----------------------------------------------------------------------------
(* Sums: the fold of Executions, by induction over the actors it is over.  *)
(* The library's induction theorems take an operator; that every non-empty *)
(* set of numbers has a least element says the same of sets.               *)

\* Induction over the natural numbers.
LEMMA SetInduction ==
  ASSUME NEW P, 0 \in P, \A n \in Nat : n \in P => n + 1 \in P
  PROVE  Nat \subseteq P
<1> DEFINE T == Nat \ P
<1> DEFINE R == OpToRel(<, Nat)
<1> SUFFICES ASSUME T # {} PROVE FALSE
  OBVIOUS
<1>1. IsWellFoundedOn(R, Nat)
  BY NatLessThanWellFounded
<1>2. \A x, y \in Nat : y < x => <<y, x>> \in R
  BY DEF OpToRel
<1>3. T \subseteq Nat
  OBVIOUS
<1> HIDE DEF T, R
<1>4. PICK x \in T : \A y \in T : <<y, x>> \notin R
  BY <1>1, <1>3, WFMin
<1> USE DEF T
<1>5. x \in Nat /\ x # 0 /\ x \notin P
  OBVIOUS
<1>6. x - 1 \in Nat /\ x - 1 < x /\ (x - 1) + 1 = x
  BY <1>5
<1>7. x - 1 \in P
  BY <1>2, <1>4, <1>5, <1>6
<1> QED
  BY <1>5, <1>6, <1>7

\* The element the fold takes first, and the fold over part of a function's domain.
First(s) == CHOOSE x \in s : TRUE
Folds(f, g) == g = [s \in SUBSET DOMAIN f |-> IF s = {} THEN 0 ELSE f[First(s)] + g[s \ {First(s)}]]
PartTotal(f) == CHOOSE g : Folds(f, g)
Total(f) == FoldFunction(LAMBDA x, y : x + y, 0, f)

LEMMA TotalIsPart == ASSUME NEW f PROVE Total(f) = PartTotal(f)[DOMAIN f]
  BY DEF Total, FoldFunction, FoldFunctionOnSet, MapThenFoldSet, PartTotal, First, Folds

LEMMA FirstIn == ASSUME NEW s, s # {} PROVE First(s) \in s
  BY DEF First

\* Induction over the subsets of a finite set, element by element.
LEMMA SubsetInduction ==
  ASSUME NEW S, IsFiniteSet(S), NEW P, {} \in P,
         \A s \in SUBSET S : s # {} /\ s \ {First(s)} \in P => s \in P
  PROVE  SUBSET S \subseteq P
<1> DEFINE Q == {n \in Nat : \A s \in SUBSET S : Cardinality(s) = n => s \in P}
<1>1. \A s \in SUBSET S : IsFiniteSet(s) /\ Cardinality(s) \in Nat
  BY FS_Subset, FS_CardinalityType
<1>2. 0 \in Q
  BY <1>1, FS_EmptySet
<1>3. ASSUME NEW n \in Nat, n \in Q PROVE n + 1 \in Q
  <2> SUFFICES ASSUME NEW s \in SUBSET S, Cardinality(s) = n + 1 PROVE s \in P
    OBVIOUS
  <2>1. s # {}
    BY <1>1, FS_EmptySet
  <2>2. Cardinality(s \ {First(s)}) = Cardinality(s) - 1
    BY <1>1, <2>1, FirstIn, FS_RemoveElement
  <2>3. s \ {First(s)} \in P
    BY <1>3, <2>2
  <2> QED
    BY <2>1, <2>3
<1> HIDE DEF Q
<1>4. Nat \subseteq Q
  BY <1>2, <1>3, SetInduction
<1> QED
  BY <1>1, <1>4 DEF Q

\* The fold over a finite domain is what its recursive equation says.
LEMMA PartFolds ==
  ASSUME NEW f, IsFiniteSet(DOMAIN f)
  PROVE  Folds(f, PartTotal(f))
<1> DEFINE S == DOMAIN f
           Lev(n) == {s \in SUBSET S : Cardinality(s) <= n}
           Eqn(g, n) == g = [s \in Lev(n) |-> IF s = {} THEN 0 ELSE f[First(s)] + g[s \ {First(s)}]]
           P == {n \in Nat : \E g : Eqn(g, n)}
<1>1. \A s \in SUBSET S : IsFiniteSet(s) /\ Cardinality(s) \in Nat /\ Cardinality(s) <= Cardinality(S)
  BY FS_Subset, FS_CardinalityType
<1>2. 0 \in P
  <2> DEFINE g == [s \in Lev(0) |-> 0]
  <2>1. \A s \in Lev(0) : s = {}
    BY <1>1, FS_EmptySet
  <2>2. Eqn(g, 0)
    BY <2>1
  <2> QED
    BY <2>2
<1>3. ASSUME NEW n \in Nat, n \in P PROVE n + 1 \in P
  <2>1. PICK g : Eqn(g, n)
    BY <1>3
  <2> DEFINE h == [s \in Lev(n + 1) |-> IF s = {} THEN 0 ELSE f[First(s)] + g[s \ {First(s)}]]
  <2>2. ASSUME NEW s \in Lev(n) PROVE s \in Lev(n + 1) /\ h[s] = g[s]
    <3>1. s \in Lev(n + 1)
      BY <1>1
    <3>2. h[s] = IF s = {} THEN 0 ELSE f[First(s)] + g[s \ {First(s)}]
      BY <3>1
    <3>3. g[s] = IF s = {} THEN 0 ELSE f[First(s)] + g[s \ {First(s)}]
      BY <2>1
    <3> QED
      BY <3>1, <3>2, <3>3
  <2>3. ASSUME NEW s \in Lev(n + 1), s # {} PROVE s \ {First(s)} \in Lev(n)
    <3>1. Cardinality(s \ {First(s)}) = Cardinality(s) - 1
      BY <1>1, <2>3, FirstIn, FS_RemoveElement
    <3> QED
      BY <1>1, <3>1
  <2>4. \E k : Eqn(k, n + 1)
    <3> HIDE DEF Lev
    <3>1. Eqn(h, n + 1)
      BY <2>2, <2>3
    <3> HIDE DEF h
    <3> QED
      BY <3>1
  <2> HIDE DEF Eqn
  <2> QED
    BY <2>4
<1> HIDE DEF P
<1>4. Cardinality(S) \in P
  BY <1>1, <1>2, <1>3, SetInduction
<1>5. \E g : Folds(f, g)
  <2>1. Lev(Cardinality(S)) = SUBSET S
    BY <1>1
  <2>2. PICK g : Eqn(g, Cardinality(S))
    BY <1>4 DEF P
  <2> QED
    BY <2>1, <2>2 DEF Folds
<1> QED
  BY <1>5 DEF PartTotal

\* What the fold is over no element, and over one more.
LEMMA PartSteps ==
  ASSUME NEW f, IsFiniteSet(DOMAIN f)
  PROVE  /\ PartTotal(f)[{}] = 0
         /\ \A s \in SUBSET DOMAIN f : s # {} =>
              PartTotal(f)[s] = f[First(s)] + PartTotal(f)[s \ {First(s)}]
  BY PartFolds DEF Folds

LEMMA TotalType ==
  ASSUME NEW S, IsFiniteSet(S), NEW f \in [S -> Nat]
  PROVE  /\ Total(f) \in Nat
         /\ \A s \in SUBSET S : PartTotal(f)[s] \in Nat
<1> DEFINE P == {s \in SUBSET S : PartTotal(f)[s] \in Nat}
<1>1. {} \in P
  BY PartSteps
<1>2. ASSUME NEW s \in SUBSET S, s # {}, s \ {First(s)} \in P PROVE s \in P
  BY <1>2, FirstIn, PartSteps
<1> HIDE DEF P
<1>3. SUBSET S \subseteq P
  BY <1>1, <1>2, SubsetInduction
<1> QED
  BY <1>3, TotalIsPart DEF P

\* A sum grows with its terms.
LEMMA TotalGrows ==
  ASSUME NEW S, IsFiniteSet(S), NEW f \in [S -> Nat], NEW g \in [S -> Nat],
         \A x \in S : f[x] <= g[x]
  PROVE  Total(f) <= Total(g)
<1> DEFINE P == {s \in SUBSET S : PartTotal(f)[s] <= PartTotal(g)[s]}
<1>1. {} \in P
  BY PartSteps
<1>2. ASSUME NEW s \in SUBSET S, s # {}, s \ {First(s)} \in P PROVE s \in P
  <2>1. First(s) \in S /\ s \ {First(s)} \in SUBSET S
    BY <1>2, FirstIn
  <2>2. /\ PartTotal(f)[s] = f[First(s)] + PartTotal(f)[s \ {First(s)}]
        /\ PartTotal(g)[s] = g[First(s)] + PartTotal(g)[s \ {First(s)}]
    BY <1>2, PartSteps
  <2>3. PartTotal(f)[s \ {First(s)}] \in Nat /\ PartTotal(g)[s \ {First(s)}] \in Nat
    BY <2>1, TotalType
  <2> QED
    BY <1>2, <2>1, <2>2, <2>3
<1> HIDE DEF P
<1>3. SUBSET S \subseteq P
  BY <1>1, <1>2, SubsetInduction
<1> QED
  BY <1>3, TotalIsPart DEF P

\* One more in one term is one more in the sum.
LEMMA TotalOneMore ==
  ASSUME NEW S, IsFiniteSet(S), NEW f \in [S -> Nat], NEW x \in S
  PROVE  Total([f EXCEPT ![x] = @ + 1]) = Total(f) + 1
<1> DEFINE g == [f EXCEPT ![x] = @ + 1]
<1>0. g \in [S -> Nat] /\ g[x] = f[x] + 1 /\ \A y \in S : y # x => g[y] = f[y]
  OBVIOUS
<1> HIDE DEF g
<1> DEFINE P == {s \in SUBSET S : PartTotal(g)[s] = PartTotal(f)[s] + IF x \in s THEN 1 ELSE 0}
<1>1. {} \in P
  BY <1>0, PartSteps
<1>2. ASSUME NEW s \in SUBSET S, s # {}, s \ {First(s)} \in P PROVE s \in P
  <2>1. First(s) \in s /\ First(s) \in S /\ s \ {First(s)} \in SUBSET S
    BY <1>2, FirstIn
  <2>2. /\ PartTotal(f)[s] = f[First(s)] + PartTotal(f)[s \ {First(s)}]
        /\ PartTotal(g)[s] = g[First(s)] + PartTotal(g)[s \ {First(s)}]
    BY <1>0, <1>2, PartSteps
  <2>3. PartTotal(f)[s \ {First(s)}] \in Nat /\ PartTotal(g)[s \ {First(s)}] \in Nat
    BY <1>0, <2>1, TotalType
  <2>4. PartTotal(g)[s \ {First(s)}] = PartTotal(f)[s \ {First(s)}] + IF x \in s \ {First(s)} THEN 1 ELSE 0
    BY <1>2
  <2>5. CASE x = First(s)
    BY <1>0, <2>1, <2>2, <2>3, <2>4, <2>5
  <2>6. CASE x # First(s)
    BY <1>0, <2>1, <2>2, <2>3, <2>4, <2>6
  <2> QED
    BY <2>5, <2>6
<1> HIDE DEF P
<1>3. SUBSET S \subseteq P
  BY <1>1, <1>2, SubsetInduction
<1>4. PartTotal(g)[S] = PartTotal(f)[S] + 1
  BY <1>3 DEF P
<1>5. Total(g) = PartTotal(g)[S] /\ Total(f) = PartTotal(f)[S]
  BY <1>0, TotalIsPart
<1> QED
  BY <1>4, <1>5 DEF g

\* A sum of nothing is nothing.
LEMMA TotalOfZeros ==
  ASSUME NEW S, IsFiniteSet(S)
  PROVE  Total([x \in S |-> 0]) = 0
<1> DEFINE f == [x \in S |-> 0]
           P == {s \in SUBSET S : PartTotal(f)[s] = 0}
<1>1. {} \in P
  BY PartSteps
<1>2. ASSUME NEW s \in SUBSET S, s # {}, s \ {First(s)} \in P PROVE s \in P
  BY <1>2, FirstIn, PartSteps
<1> HIDE DEF P
<1>3. SUBSET S \subseteq P
  BY <1>1, <1>2, SubsetInduction
<1> QED
  BY <1>3, TotalIsPart DEF P

\* In a sum of 0 no term is above 0.
LEMMA TotalZero ==
  ASSUME NEW S, IsFiniteSet(S), NEW f \in [S -> Nat], Total(f) = 0, NEW x \in S
  PROVE  f[x] = 0
<1> SUFFICES ASSUME f[x] # 0 PROVE FALSE
  OBVIOUS
<1> DEFINE g == [f EXCEPT ![x] = @ - 1]
<1>1. g \in [S -> Nat] /\ g[x] = f[x] - 1 /\ \A y \in S : y # x => g[y] = f[y]
  OBVIOUS
<1> HIDE DEF g
<1>2. f = [g EXCEPT ![x] = @ + 1]
  BY <1>1
<1>3. Total([g EXCEPT ![x] = @ + 1]) = Total(g) + 1 /\ Total(g) \in Nat
  BY <1>1, TotalOneMore, TotalType
<1>4. Total([g EXCEPT ![x] = @ + 1]) = 0
  BY <1>2
<1> QED
  BY <1>3, <1>4

-----------------------------------------------------------------------------
(* Every function accepted is executed as often as it was handed over.     *)

\* Who has executed j, or was given it, and how often.
Load(j) ==
  [a \in Threads \cup Callers |-> IF a \in Threads /\ lambda[a] = j THEN ran[j][a] + 1 ELSE ran[j][a]]

Given(j) == Total(Load(j))

\* How many times c will still store its function, and take a worker for it.
ToHand(c) == IF pc[c] = "unlock" THEN left[c] - 1 ELSE left[c]
ToTake(c) == IF pc[c] \in {"hand", "unlock"} THEN left[c] - 1 ELSE left[c]

\* A call has a function of its own, and only ExecuteAll hands it over more than once.
CallInv ==
  /\ \A c \in Callers :
       /\ pc[c] = "idle" => job[c] = NoJob
       /\ pc[c] # "idle" => op[job[c]] \in AllOps /\ (op[job[c]] # "ExecuteAll" => left[c] = 1)
       /\ pc[c] \in {"share", "inline"} => op[job[c]] = "Shared"
  /\ \A c, d \in Callers : job[c] = job[d] /\ job[c] # NoJob => c = d

\* What was given and what its call will still give is what is owed.
AccountInv ==
  \A j \in Jobs :
    /\ \A c \in Callers : job[c] = j => Given(j) + ToHand(c) = Owed(j)
    /\ (\A c \in Callers : job[c] # j) => Given(j) = Owed(j)

\* t is one of the workers the rest of c's ExecuteAll will take.
Awaits(t, c) ==
  \/ pc[c] = "hand" /\ thread[c] = t
  \/ \E i \in 1 .. ToTake(c) : available[i] = t

\* Of an ExecuteAll alone in the pool, the workers that are to be taken have not been
\* given the function, and the others have once: those that come back queue behind.
BroadcastInv ==
  \A j \in whole :
    /\ op[j] = "ExecuteAll"
    /\ Alone(j) =>
         /\ \A c \in Callers : job[c] = j => ToTake(c) <= Len(available)
         /\ \A t \in Threads :
              Load(j)[t] = IF \E c \in Callers : job[c] = j /\ Awaits(t, c) THEN 0 ELSE 1

GivenInv == CallInv /\ AccountInv /\ BroadcastInv

LEMMA ActorsFinite == IsFiniteSet(Threads \cup Callers)
<1>1. 1 \in Int /\ NbMaxThreads \in Int
  BY NAssumption
<1>2. IsFiniteSet(Threads)
  BY <1>1, FS_Interval DEF Threads
<1>3. IsFiniteSet(Callers)
  BY ActorsAssumption
<1> QED
  BY <1>2, <1>3, FS_Union

LEMMA LoadType ==
  ASSUME TypeOK, NEW j \in Jobs
  PROVE  /\ IsFiniteSet(Threads \cup Callers)
         /\ Load(j) \in [Threads \cup Callers -> Nat]
         /\ ran[j] \in [Threads \cup Callers -> Nat]
         /\ Given(j) \in Nat
<1>1. IsFiniteSet(Threads \cup Callers)
  BY ActorsFinite
<1>2. ran[j] \in [Threads \cup Callers -> Nat]
  BY DEF TypeOK
<1>3. Load(j) \in [Threads \cup Callers -> Nat]
  BY <1>2 DEF Load
<1> QED
  BY <1>1, <1>2, <1>3, TotalType DEF Given

LEMMA InitGiven == Init => GivenInv
<1> SUFFICES ASSUME Init PROVE GivenInv
  OBVIOUS
<1>1. /\ \A c \in Callers : pc[c] = "idle" /\ job[c] = NoJob
      /\ \A t \in Threads : lambda[t] = NoJob
      /\ \A j \in Jobs : op[j] = "none" /\ ran[j] = [a \in Threads \cup Callers |-> 0]
      /\ whole = {}
  BY Apart DEF Init
<1>2. CallInv /\ BroadcastInv
  BY <1>1 DEF CallInv, BroadcastInv
<1>3. AccountInv
  <2> SUFFICES ASSUME NEW j \in Jobs PROVE Given(j) = 0
    BY <1>1, JobsAssumption DEF AccountInv, Owed
  <2>1. Load(j) = [a \in Threads \cup Callers |-> 0]
    BY <1>1, JobsAssumption DEF Load
  <2>2. IsFiniteSet(Threads \cup Callers)
    BY ActorsFinite
  <2> QED
    BY <2>1, <2>2, TotalOfZeros DEF Given
<1> QED
  BY <1>2, <1>3 DEF GivenInv

\* A step that is not a caller's changes no account: it leaves the callers where they
\* are, gives nobody a function, and takes no worker from the list.
LEMMA NotACall ==
  ASSUME IInv, IInv', GivenInv, UNCHANGED <<job, left, op, whole>>,
         \A c \in Callers : pc'[c] = pc[c] /\ thread'[c] = thread[c],
         \A j \in Jobs : Load(j)' = Load(j),
         \A i \in Places : i \in Places' /\ available'[i] = available[i]
  PROVE  GivenInv'
<1> USE DEF GivenInv
<1>1. CallInv'
  BY DEF CallInv
<1>2. \A c \in Callers : ToHand(c)' = ToHand(c) /\ ToTake(c)' = ToTake(c)
  BY DEF ToHand, ToTake
<1>3. \A j \in Jobs : Given(j)' = Given(j) /\ Owed(j)' = Owed(j) /\ (Alone(j)' <=> Alone(j))
  BY DEF Given, Owed, Alone
<1>4. AccountInv'
  BY <1>2, <1>3 DEF AccountInv
<1>5. BroadcastInv'
  <2> SUFFICES ASSUME NEW j \in whole, Alone(j)
               PROVE  /\ \A c \in Callers : job[c] = j => ToTake(c)' <= Len(available')
                      /\ \A t \in Threads :
                           Load(j)'[t] = IF \E c \in Callers : job[c] = j /\ Awaits(t, c)' THEN 0 ELSE 1
    BY <1>3 DEF BroadcastInv, IInv, TypeOK
  <2>1. j \in Jobs
    BY DEF IInv, TypeOK
  <2>2. ASSUME NEW c \in Callers, job[c] = j
        PROVE  /\ ToTake(c) \in Int /\ ToTake(c) <= Len(available)
               /\ ToTake(c) <= Len(available')
               /\ \A t \in Threads : Awaits(t, c)' <=> Awaits(t, c)
    <3>1. ToTake(c) \in Int /\ ToTake(c) <= Len(available)
      BY <2>2 DEF BroadcastInv, ToTake, IInv, TypeOK
    <3>2. Len(available) \in Nat /\ Len(available)' \in Nat
      BY DEF IInv, TypeOK
    <3>3. \A i \in 1 .. ToTake(c) : i \in Places
      BY <3>1, <3>2 DEF Places
    <3>4. Len(available) <= Len(available')
      BY <3>2 DEF Places
    <3> QED
      BY <1>2, <3>1, <3>2, <3>3, <3>4 DEF Awaits
  <2> QED
    BY <1>2, <2>1, <2>2 DEF BroadcastInv
<1> QED
  BY <1>1, <1>4, <1>5

LEMMA CallGiven ==
  ASSUME Quiesce, IInv, IInv', GivenInv, NEW c \in Callers, NEW j \in Jobs, NEW o \in Ops, Call(c, j, o)
  PROVE  GivenInv'
<1> USE Apart DEF GivenInv
<1>0. TypeOK
  BY DEF IInv
<1>1. /\ pc[c] = "idle" /\ op[j] = "none" /\ o \in AllOps
      /\ op' = [op EXCEPT ![j] = o] /\ job' = [job EXCEPT ![c] = j]
      /\ left' = [left EXCEPT ![c] = Iterations(o)]
      /\ pc' = [pc EXCEPT ![c] = IF o = "Shared" THEN "share" ELSE "take"]
      /\ UNCHANGED <<available, lambda, thread, ran, whole>>
  BY OpsAssumption DEF Call, worker
<1>2. /\ op'[j] = o /\ \A k \in Jobs : k # j => op'[k] = op[k]
      /\ job'[c] = j /\ left'[c] = Iterations(o)
      /\ pc'[c] = IF o = "Shared" THEN "share" ELSE "take"
      /\ \A d \in Callers : d # c => job'[d] = job[d] /\ left'[d] = left[d] /\ pc'[d] = pc[d]
  BY <1>0, <1>1, NAssumption DEF TypeOK
<1>3. \A d \in Callers : job[d] # j
  BY <1>1, JobsAssumption DEF CallInv, AllOps
<1>4. CallInv'
  BY <1>1, <1>2, <1>3, JobsAssumption DEF CallInv, IInv, CallerInv, Iterations
<1>5. \A k \in Jobs : Load(k)' = Load(k) /\ Given(k)' = Given(k)
  BY <1>1 DEF Load, Given
<1>6. AccountInv'
  <2>1. Given(j) = 0
    BY <1>1, <1>3 DEF AccountInv, Owed
  <2>2. ToHand(c)' = Iterations(o) /\ Owed(j)' = Iterations(o) /\ Iterations(o) \in Nat
    BY <1>1, <1>2, NAssumption DEF ToHand, Owed, Iterations, AllOps
  <2>3. \A d \in Callers : d # c => ToHand(d)' = ToHand(d)
    BY <1>2 DEF ToHand
  <2>4. \A k \in Jobs : k # j => Owed(k)' = Owed(k)
    BY <1>2 DEF Owed
  <2>5. \A d \in Callers : job'[d] = j => d = c
    BY <1>2, <1>3
  <2>6. job[c] = NoJob
    BY <1>1 DEF CallInv
  <2> SUFFICES ASSUME NEW k \in Jobs
               PROVE  /\ \A d \in Callers : job'[d] = k => Given(k) + ToHand(d)' = Owed(k)'
                      /\ (\A d \in Callers : job'[d] # k) => Given(k) = Owed(k)'
    BY <1>5 DEF AccountInv
  <2>7. CASE k = j
    BY <1>2, <2>1, <2>2, <2>5, <2>7
  <2>8. CASE k # j
    BY <1>2, <2>3, <2>4, <2>6, <2>8, JobsAssumption DEF AccountInv
  <2> QED
    BY <2>7, <2>8
<1>7. BroadcastInv'
  <2>1. \A k \in whole : k # j /\ ~Alone(k)'
    BY <1>0, <1>1, <1>2 DEF BroadcastInv, Alone, AllOps, TypeOK
  <2> QED
    BY <1>0, <1>1, <1>2, <2>1 DEF BroadcastInv, TypeOK
<1> QED
  BY <1>4, <1>6, <1>7

\* A caller decides where to look for a worker, and calls nothing yet.
LEMMA ReadUsageGiven ==
  ASSUME IInv, IInv', GivenInv, NEW c \in Callers, ReadUsage(c)
  PROVE  GivenInv'
<1> USE Apart DEF GivenInv
<1>0. TypeOK
  BY DEF IInv
<1> DEFINE x == IF UsageAllowed THEN "take" ELSE "inline"
<1>1. /\ pc[c] = "share" /\ pc' = [pc EXCEPT ![c] = x] /\ x \in {"take", "inline"}
      /\ UNCHANGED <<available, lambda, thread, job, left, op, ran, whole>>
  BY DEF ReadUsage, worker, history
<1> HIDE DEF x
<1>2. /\ pc'[c] = x /\ \A d \in Callers : d # c => pc'[d] = pc[d]
  BY <1>0, <1>1 DEF TypeOK
<1>3. /\ \A d \in Callers : ToHand(d)' = ToHand(d) /\ ToTake(d)' = ToTake(d)
      /\ \A d \in Callers, t \in Threads : Awaits(t, d)' <=> Awaits(t, d)
  BY <1>1, <1>2 DEF ToHand, ToTake, Awaits
<1>4. \A j \in Jobs : Load(j)' = Load(j) /\ Given(j)' = Given(j) /\ Owed(j)' = Owed(j) /\ (Alone(j)' <=> Alone(j))
  BY <1>1 DEF Load, Given, Owed, Alone
<1>5. CallInv' /\ AccountInv'
  BY <1>1, <1>2, <1>3, <1>4 DEF CallInv, AccountInv
<1>6. BroadcastInv'
  BY <1>0, <1>1, <1>3, <1>4 DEF BroadcastInv, TypeOK
<1> QED
  BY <1>5, <1>6

\* The worker at the front is c's.  If c's ExecuteAll begins with every worker in the
\* list, they are all the ones it will take.
LEMMA TakeThreadGiven ==
  ASSUME IInv, IInv', GivenInv, NEW c \in Callers, TakeThread(c)
  PROVE  GivenInv'
<1> USE Apart DEF GivenInv
<1>0. TypeOK
  BY DEF IInv
<1>1. /\ pc[c] = "take" /\ pc' = [pc EXCEPT ![c] = "hand"] /\ available # <<>>
      /\ thread' = [thread EXCEPT ![c] = Head(available)] /\ available' = Tail(available)
      /\ UNCHANGED <<lambda, job, left, op, ran>>
  BY DEF TakeThread, AtPool, PopFront, worker
<1>2. /\ pc'[c] = "hand" /\ \A d \in Callers : d # c => pc'[d] = pc[d] /\ thread'[d] = thread[d]
      /\ thread'[c] = Head(available)
  BY <1>0, <1>1 DEF TypeOK, Clients
<1>3. /\ Len(available) \in Nat \ {0} /\ Len(available') = Len(available) - 1
      /\ thread'[c] = available[1]
      /\ \A i \in 1 .. Len(available) - 1 : available'[i] = available[i + 1]
  BY <1>0, <1>1, <1>2 DEF TypeOK
<1>4. job[c] \in Jobs /\ left[c] \in Nat /\ left[c] >= 1
  BY <1>0, <1>1, NAssumption DEF IInv, CallerInv, TypeOK
<1>5. /\ \A d \in Callers : ToHand(d)' = ToHand(d)
      /\ \A d \in Callers : d # c => ToTake(d)' = ToTake(d)
      /\ ToTake(c) = left[c] /\ ToTake(c)' = left[c] - 1
  BY <1>1, <1>2 DEF ToHand, ToTake
<1>6. \A j \in Jobs : Load(j)' = Load(j) /\ Given(j)' = Given(j) /\ Owed(j)' = Owed(j) /\ (Alone(j)' <=> Alone(j))
  BY <1>1 DEF Load, Given, Owed, Alone
<1>7. CallInv' /\ AccountInv'
  BY <1>1, <1>2, <1>5, <1>6 DEF CallInv, AccountInv
<1>8. \A t \in Threads : ToTake(c) <= Len(available) => (Awaits(t, c)' <=> Awaits(t, c))
  <2> SUFFICES ASSUME NEW t \in Threads, left[c] <= Len(available)
               PROVE  Awaits(t, c)' <=> \E i \in 1 .. left[c] : available[i] = t
    BY <1>1, <1>5 DEF Awaits
  <2>1. Awaits(t, c)' <=> available[1] = t \/ \E i \in 1 .. left[c] - 1 : available[i + 1] = t
    <3>1. Awaits(t, c)' <=> available[1] = t \/ \E i \in 1 .. left[c] - 1 : available'[i] = t
      BY <1>2, <1>3, <1>5 DEF Awaits
    <3>2. \A i \in 1 .. left[c] - 1 : i \in 1 .. Len(available) - 1
      BY <1>3, <1>4
    <3>3. \A i \in 1 .. left[c] - 1 : available'[i] = available[i + 1]
      BY <1>3, <3>2
    <3> QED
      BY <3>1, <3>3
  <2>2. ASSUME NEW i \in 1 .. left[c], available[i] = t
        PROVE  available[1] = t \/ \E k \in 1 .. left[c] - 1 : available[k + 1] = t
    <3>1. CASE i = 1
      BY <2>2, <3>1
    <3>2. CASE i # 1
      <4>1. i - 1 \in 1 .. left[c] - 1 /\ available[(i - 1) + 1] = t
        BY <1>4, <2>2, <3>2
      <4> QED
        BY <4>1
    <3> QED
      BY <3>1, <3>2
  <2>3. ASSUME NEW k \in 1 .. left[c] - 1, available[k + 1] = t
        PROVE  \E i \in 1 .. left[c] : available[i] = t
    BY <1>4, <2>3
  <2>4. 1 \in 1 .. left[c]
    BY <1>4
  <2> QED
    BY <2>1, <2>2, <2>3, <2>4
<1>9. ASSUME NEW j \in Jobs, op[j] # "none", Alone(j) PROVE j = job[c]
  BY <1>1, <1>4, <1>9 DEF Alone, CallInv, AllOps
<1>10. \A d \in Callers : job[d] = job[c] => d = c
  BY <1>4, JobsAssumption DEF CallInv
<1>11. ASSUME NEW j \in whole, Alone(j)
       PROVE  /\ \A d \in Callers : job[d] = j => ToTake(d)' <= Len(available')
              /\ \A t \in Threads :
                   Load(j)[t] = IF \E d \in Callers : job[d] = j /\ Awaits(t, d)' THEN 0 ELSE 1
  <2>1. j \in Jobs /\ op[j] = "ExecuteAll" /\ j = job[c]
    BY <1>0, <1>9, <1>11 DEF BroadcastInv, TypeOK
  <2>2. ToTake(c) <= Len(available)
    BY <1>11, <2>1 DEF BroadcastInv
  <2> QED
    BY <1>3, <1>4, <1>5, <1>8, <1>10, <1>11, <2>1, <2>2 DEF BroadcastInv
<1>12. ASSUME NEW j \in whole', j \notin whole, Alone(j)
       PROVE  /\ op[j] = "ExecuteAll"
              /\ \A d \in Callers : job[d] = j => ToTake(d)' <= Len(available')
              /\ \A t \in Threads :
                   Load(j)[t] = IF \E d \in Callers : job[d] = j /\ Awaits(t, d)' THEN 0 ELSE 1
  <2>1. /\ j = job[c] /\ op[j] = "ExecuteAll" /\ left[c] = NbMaxThreads
        /\ Len(available) = NbMaxThreads
    <3>1. whole' = IF op[job[c]] = "ExecuteAll" /\ left[c] = Iterations("ExecuteAll") /\ AllAvailable
                   THEN whole \cup {job[c]} ELSE whole
      BY DEF TakeThread
    <3> QED
      BY <1>12, <3>1 DEF Iterations, AllAvailable
  <2>2. \A d \in Callers : job[d] = j => ToTake(d)' <= Len(available')
    BY <1>3, <1>5, <1>10, <2>1, NAssumption
  <2>3. \A t \in Threads : Awaits(t, c)'
    <3>1. \A i, k \in 1 .. Len(available) : available[i] = available[k] => i = k
      BY DEF IInv, ListInv, Places
    <3>2. \A t \in Threads : \E i \in 1 .. Len(available) : available[i] = t
      BY <1>0, <2>1, <3>1, Pigeons DEF TypeOK
    <3>3. \A t \in Threads : Awaits(t, c)
      BY <1>5, <2>1, <3>2 DEF Awaits
    <3> QED
      BY <1>3, <1>5, <1>8, <2>1, <3>3
  <2>4. Given(j) = 0
    <3>1. Given(j) + left[c] = NbMaxThreads
      BY <1>1, <1>4, <2>1 DEF AccountInv, ToHand, Owed
    <3> QED
      BY <1>0, <1>4, <2>1, <3>1, LoadType, NAssumption
  <2>5. \A t \in Threads : Load(j)[t] = 0
    <3>1. /\ IsFiniteSet(Threads \cup Callers) /\ Load(j) \in [Threads \cup Callers -> Nat]
          /\ Total(Load(j)) = 0
      BY <1>0, <1>4, <2>1, <2>4, LoadType DEF Given
    <3> QED
      BY <3>1, TotalZero
  <2> QED
    BY <2>1, <2>2, <2>3, <2>5
<1>13. BroadcastInv'
  <2> SUFFICES ASSUME NEW j \in whole'
               PROVE  (/\ op[j] = "ExecuteAll"
                       /\ Alone(j) =>
                            /\ \A d \in Callers : job[d] = j => ToTake(d) <= Len(available)
                            /\ \A t \in Threads :
                                 Load(j)[t] = IF \E d \in Callers : job[d] = j /\ Awaits(t, d) THEN 0 ELSE 1)'
    BY DEF BroadcastInv
  <2>1. j \in Jobs
    BY DEF IInv, TypeOK
  <2>2. op[j] = "ExecuteAll"
    BY DEF TakeThread, BroadcastInv
  <2> QED
    BY <1>1, <1>6, <1>11, <1>12, <2>1, <2>2
<1> QED
  BY <1>7, <1>13

\* A refusal owes nothing; a SharedThreadPool's caller owes the execution itself.
LEMMA NoThreadGiven ==
  ASSUME IInv, IInv', GivenInv, NEW c \in Callers, NoThread(c)
  PROVE  GivenInv'
<1> USE Apart DEF GivenInv
<1>0. TypeOK
  BY DEF IInv
<1>j. PICK j \in Jobs : j = job[c]
  BY DEF NoThread, AtPool, IInv, CallerInv
<1>1. /\ pc[c] = "take" /\ j = job[c] /\ j # NoJob /\ left[c] \in Nat /\ left[c] >= 1
      /\ available = <<>>
      /\ UNCHANGED <<available, lambda, thread, ran, whole>>
  BY <1>0, <1>j, JobsAssumption, NAssumption DEF NoThread, AtPool, worker, IInv, CallerInv, TypeOK
<1>2. \A k \in Jobs : Load(k)' = Load(k) /\ Given(k)' = Given(k)
  BY <1>1 DEF Load, Given
<1>3. \A d \in Callers : job[d] = j => d = c
  BY <1>1 DEF CallInv
<1>4. CASE op[j] = "TryExecute"
  <2>1. /\ op' = [op EXCEPT ![j] = "refused"] /\ pc' = [pc EXCEPT ![c] = "idle"]
        /\ job' = [job EXCEPT ![c] = NoJob] /\ left' = [left EXCEPT ![c] = 0]
    BY <1>1, <1>4 DEF NoThread
  <2>2. /\ op'[j] = "refused" /\ \A k \in Jobs : k # j => op'[k] = op[k]
        /\ pc'[c] = "idle" /\ job'[c] = NoJob
        /\ \A d \in Callers : d # c => pc'[d] = pc[d] /\ job'[d] = job[d] /\ left'[d] = left[d]
    BY <1>0, <1>1, <2>1 DEF TypeOK
  <2>3. left[c] = 1
    BY <1>1, <1>4 DEF CallInv
  <2>4. CallInv'
    BY <1>1, <1>3, <2>2, JobsAssumption DEF CallInv, IInv, CallerInv
  <2>5. AccountInv'
    <3>1. Given(j) = 0
      <4>1. Given(j) + 1 = 1 /\ Given(j) \in Nat
        BY <1>0, <1>1, <1>4, <2>3, LoadType DEF AccountInv, ToHand, Owed
      <4> QED
        BY <4>1
    <3>2. Owed(j)' = 0 /\ \A k \in Jobs : k # j => Owed(k)' = Owed(k)
      BY <2>2 DEF Owed
    <3>3. \A d \in Callers : d # c => ToHand(d)' = ToHand(d)
      BY <2>2 DEF ToHand
    <3>4. \A d \in Callers : job'[d] # j
      BY <1>1, <1>3, <2>2
    <3> SUFFICES ASSUME NEW k \in Jobs
                 PROVE  /\ \A d \in Callers : job'[d] = k => Given(k) + ToHand(d)' = Owed(k)'
                        /\ (\A d \in Callers : job'[d] # k) => Given(k) = Owed(k)'
      BY <1>2 DEF AccountInv
    <3>5. CASE k = j
      BY <3>1, <3>2, <3>4, <3>5
    <3>6. CASE k # j
      BY <1>1, <2>2, <3>2, <3>3, <3>6, JobsAssumption DEF AccountInv
    <3> QED
      BY <3>5, <3>6
  <2>6. BroadcastInv'
    <3>1. \A k \in whole : k \in Jobs /\ k # j /\ op'[k] = op[k]
      BY <1>0, <1>4, <2>2 DEF BroadcastInv, TypeOK
    <3>2. \A k \in whole : ~Alone(k)'
      BY <1>1, <2>2, <3>1 DEF Alone
    <3> QED
      BY <1>1, <3>1, <3>2 DEF BroadcastInv
  <2> QED
    BY <2>4, <2>5, <2>6
<1>5. CASE op[j] # "TryExecute"
  <2>1. op[j] = "Shared" /\ pc' = [pc EXCEPT ![c] = "inline"] /\ UNCHANGED <<op, job, left>>
    BY <1>1, <1>5 DEF NoThread
  <2>2. pc'[c] = "inline" /\ \A d \in Callers : d # c => pc'[d] = pc[d]
    BY <1>0, <2>1 DEF TypeOK
  <2>3. /\ \A d \in Callers : ToHand(d)' = ToHand(d) /\ ToTake(d)' = ToTake(d)
        /\ \A d \in Callers, t \in Threads : Awaits(t, d)' <=> Awaits(t, d)
    BY <1>1, <2>1, <2>2 DEF ToHand, ToTake, Awaits
  <2>4. \A k \in Jobs : Owed(k)' = Owed(k) /\ (Alone(k)' <=> Alone(k))
    BY <2>1 DEF Owed, Alone
  <2>5. CallInv' /\ AccountInv'
    BY <1>1, <1>2, <2>1, <2>2, <2>3, <2>4 DEF CallInv, AccountInv
  <2>6. BroadcastInv'
    BY <1>0, <1>1, <1>2, <2>1, <2>3, <2>4 DEF BroadcastInv, TypeOK
  <2> QED
    BY <2>5, <2>6
<1> QED
  BY <1>4, <1>5

\* The worker, which had nothing, has the function: one more is given.
LEMMA HandGiven ==
  ASSUME IInv, IInv', GivenInv, NEW c \in Callers, Hand(c)
  PROVE  GivenInv'
<1> USE Apart DEF GivenInv
<1>0. TypeOK
  BY DEF IInv
<1>j. PICK j \in Jobs, h \in Threads : j = job[c] /\ h = thread[c]
  BY DEF Hand, IInv, CallerInv
<1>1. /\ pc[c] = "hand" /\ j = job[c] /\ h = thread[c] /\ pc' = [pc EXCEPT ![c] = "unlock"]
      /\ lambda' = [lambda EXCEPT ![h] = j] /\ j # NoJob
      /\ left[c] \in Nat /\ left[c] >= 1
      /\ UNCHANGED <<available, thread, job, left, op, ran, whole>>
  BY <1>0, <1>j, JobsAssumption, NAssumption DEF Hand, history, IInv, CallerInv, TypeOK
<1>2. /\ pc'[c] = "unlock" /\ \A d \in Callers : d # c => pc'[d] = pc[d]
      /\ lambda'[h] = j /\ \A t \in Threads : t # h => lambda'[t] = lambda[t]
  BY <1>0, <1>1 DEF TypeOK
<1>3. lambda[h] = NoJob /\ \A i \in 1 .. Len(available) : available[i] # h
  BY <1>1 DEF IInv, CleanHandOver, Holds
<1>4. \A k \in Jobs : k # j => Load(k)' = Load(k) /\ Given(k)' = Given(k)
  <2> SUFFICES ASSUME NEW k \in Jobs, k # j PROVE Load(k)' = Load(k)
    BY DEF Given
  <2>1. \A t \in Threads : lambda'[t] = k <=> lambda[t] = k
    BY <1>2, <1>3, JobsAssumption
  <2> QED
    BY <1>1, <2>1 DEF Load
<1>5. Load(j)' = [Load(j) EXCEPT ![h] = @ + 1] /\ Load(j)[h] = ran[j][h]
  <2>1. /\ Load(j)' \in [Threads \cup Callers -> Nat]
        /\ Load(j) \in [Threads \cup Callers -> Nat]
        /\ [Load(j) EXCEPT ![h] = @ + 1] \in [Threads \cup Callers -> Nat]
    <3>1. Load(j) \in [Threads \cup Callers -> Nat]
      BY <1>0, <1>1, LoadType
    <3>2. ran[j] \in [Threads \cup Callers -> Nat]
      BY <1>0, <1>1, LoadType
    <3>3. Load(j)' \in [Threads \cup Callers -> Nat]
      BY <1>1, <3>2 DEF Load
    <3> QED
      BY <3>1, <3>3
  <2>2. Load(j)[h] = ran[j][h] /\ Load(j)'[h] = ran[j][h] + 1
    BY <1>1, <1>2, <1>3 DEF Load
  <2>3. \A a \in Threads \cup Callers : a # h => Load(j)'[a] = Load(j)[a]
    BY <1>1, <1>2 DEF Load
  <2>4. \A a \in Threads \cup Callers : Load(j)'[a] = [Load(j) EXCEPT ![h] = @ + 1][a]
    BY <2>1, <2>2, <2>3
  <2> QED
    BY <2>1, <2>2, <2>4
<1>6. Given(j)' = Given(j) + 1 /\ Given(j) \in Nat
  <2>1. IsFiniteSet(Threads \cup Callers) /\ Load(j) \in [Threads \cup Callers -> Nat] /\ Given(j) \in Nat
    BY <1>0, <1>1, LoadType
  <2>2. Total([Load(j) EXCEPT ![h] = @ + 1]) = Total(Load(j)) + 1
    BY <1>1, <2>1, TotalOneMore
  <2> QED
    BY <1>1, <1>5, <2>1, <2>2 DEF Given
<1>7. /\ ToHand(c)' = ToHand(c) - 1 /\ ToHand(c) \in Int /\ \A d \in Callers : d # c => ToHand(d)' = ToHand(d)
      /\ \A d \in Callers : ToTake(d)' = ToTake(d)
  BY <1>1, <1>2 DEF ToHand, ToTake
<1>8. \A k \in Jobs : Owed(k)' = Owed(k) /\ (Alone(k)' <=> Alone(k))
  BY <1>1 DEF Owed, Alone
<1>9. \A d \in Callers : job[d] = j => d = c
  BY <1>1 DEF CallInv
<1>10. CallInv'
  BY <1>1, <1>2 DEF CallInv
<1>11. AccountInv'
  <2> SUFFICES ASSUME NEW k \in Jobs
               PROVE  /\ \A d \in Callers : job[d] = k => Given(k)' + ToHand(d)' = Owed(k)
                      /\ (\A d \in Callers : job[d] # k) => Given(k)' = Owed(k)
    BY <1>1, <1>8 DEF AccountInv
  <2>1. CASE k = j
    <3>1. Given(j) + ToHand(c) = Owed(j)
      BY <1>1 DEF AccountInv
    <3> QED
      BY <1>1, <1>6, <1>7, <1>9, <2>1, <3>1
  <2>2. CASE k # j
    BY <1>1, <1>4, <1>7, <2>2 DEF AccountInv
  <2> QED
    BY <2>1, <2>2
<1>12. BroadcastInv'
  <2> SUFFICES ASSUME NEW k \in whole, Alone(k)
               PROVE  \A t \in Threads :
                        Load(k)'[t] = IF \E d \in Callers : job[d] = k /\ Awaits(t, d)' THEN 0 ELSE 1
    BY <1>0, <1>1, <1>7, <1>8 DEF BroadcastInv, TypeOK
  <2>1. k = j /\ op[j] = "ExecuteAll"
    <3>1. k \in Jobs /\ op[k] = "ExecuteAll"
      BY <1>0 DEF BroadcastInv, TypeOK
    <3>2. op[j] # "none"
      BY <1>1 DEF CallInv, AllOps
    <3> QED
      BY <1>1, <3>1, <3>2 DEF Alone
  <2>2. /\ ToTake(c) <= Len(available) /\ ToTake(c) \in Int /\ Len(available) \in Nat
        /\ \A t \in Threads : Load(j)[t] = IF \E d \in Callers : job[d] = j /\ Awaits(t, d) THEN 0 ELSE 1
    BY <1>0, <1>1, <2>1 DEF BroadcastInv, ToTake, TypeOK
  <2>3. Awaits(h, c) /\ ~Awaits(h, c)'
    <3>1. \A i \in 1 .. ToTake(c) : available[i] # h
      BY <1>3, <2>2
    <3> QED
      BY <1>1, <1>2, <1>7, <3>1 DEF Awaits
  <2>4. \A t \in Threads : t # h => (Awaits(t, c)' <=> Awaits(t, c))
    BY <1>1, <1>2, <1>7 DEF Awaits
  <2>5. Load(j)'[h] = 1
    <3>1. Load(j)[h] = 0
      BY <1>1, <2>2, <2>3
    <3>2. Load(j)'[h] = Load(j)[h] + 1
      <4>1. Load(j) \in [Threads \cup Callers -> Nat]
        BY <1>0, <1>1, LoadType
      <4> QED
        BY <1>1, <1>5, <4>1
    <3> QED
      BY <3>1, <3>2
  <2>6. \A t \in Threads : t # h => Load(j)'[t] = Load(j)[t]
    BY <1>1, <1>2 DEF Load
  <2> QED
    BY <1>1, <1>9, <2>1, <2>2, <2>3, <2>4, <2>5, <2>6
<1> QED
  BY <1>10, <1>11, <1>12

LEMMA HandOverGiven ==
  ASSUME IInv, IInv', GivenInv, NEW c \in Callers, HandOver(c)
  PROVE  GivenInv'
<1> USE Apart DEF GivenInv
<1>0. TypeOK
  BY DEF IInv
<1> DEFINE x == IF left[c] > 1 THEN "take" ELSE "idle"
<1>1. /\ pc[c] = "unlock" /\ job[c] \in Jobs /\ job[c] # NoJob
      /\ left[c] \in Nat /\ left[c] >= 1
      /\ pc' = [pc EXCEPT ![c] = x]
      /\ left' = [left EXCEPT ![c] = left[c] - 1]
      /\ thread' = [thread EXCEPT ![c] = 0]
      /\ job' = [job EXCEPT ![c] = IF x = "take" THEN job[c] ELSE NoJob]
      /\ UNCHANGED <<available, lambda, op, ran, whole>>
  <2>1. pc[c] = "unlock"
    BY <1>0 DEF HandOver, AtUnlock, TypeOK, CallerPC
  <2>2. job' = [job EXCEPT ![c] = IF x = "take" THEN job[c] ELSE NoJob]
    <3>1. CASE left[c] > 1
      BY <1>0, <3>1 DEF HandOver, TypeOK
    <3>2. CASE ~(left[c] > 1)
      BY <1>0, <3>2 DEF HandOver, TypeOK
    <3> QED
      BY <3>1, <3>2
  <2>3. job[c] \in Jobs /\ left[c] \in Nat /\ left[c] >= 1
    BY <1>0, <2>1, NAssumption DEF IInv, CallerInv, TypeOK
  <2> QED
    BY <2>1, <2>2, <2>3, JobsAssumption DEF HandOver, history
<1>2. /\ pc'[c] = x /\ left'[c] = left[c] - 1 /\ job'[c] = IF x = "take" THEN job[c] ELSE NoJob
      /\ \A d \in Callers : d # c => /\ pc'[d] = pc[d] /\ left'[d] = left[d]
                                     /\ job'[d] = job[d] /\ thread'[d] = thread[d]
  <2> HIDE DEF x
  <2> QED
    BY <1>0, <1>1 DEF TypeOK
<1>3. \A k \in Jobs : Load(k)' = Load(k) /\ Given(k)' = Given(k) /\ Owed(k)' = Owed(k) /\ (Alone(k)' <=> Alone(k))
  BY <1>1 DEF Load, Given, Owed, Alone
<1>4. \A d \in Callers : d # c => job[d] # job[c]
  BY <1>1 DEF CallInv
<1>5. /\ x = "take" => ToHand(c)' = ToHand(c) /\ ToTake(c)' = ToTake(c)
      /\ x = "idle" => ToHand(c) = 0 /\ ToTake(c) = 0
      /\ \A d \in Callers : d # c => ToHand(d)' = ToHand(d) /\ ToTake(d)' = ToTake(d)
  BY <1>1, <1>2 DEF ToHand, ToTake
<1>6. /\ x = "take" => \A t \in Threads : Awaits(t, c)' <=> Awaits(t, c)
      /\ x = "idle" => \A t \in Threads : ~Awaits(t, c)
      /\ \A d \in Callers, t \in Threads : d # c => (Awaits(t, d)' <=> Awaits(t, d))
  BY <1>1, <1>2, <1>5 DEF Awaits
<1>7. x \in {"take", "idle"} /\ (x = "take" => op[job[c]] = "ExecuteAll")
  BY <1>1 DEF CallInv
<1> HIDE DEF x
<1>8. CallInv'
  BY <1>1, <1>2, <1>4, <1>7, JobsAssumption DEF CallInv
<1>9. AccountInv'
  <2> SUFFICES ASSUME NEW k \in Jobs
               PROVE  /\ \A d \in Callers : job'[d] = k => Given(k) + ToHand(d)' = Owed(k)
                      /\ (\A d \in Callers : job'[d] # k) => Given(k) = Owed(k)
    BY <1>3 DEF AccountInv
  <2>1. Given(k) \in Nat
    BY <1>0, LoadType
  <2>2. CASE x = "take"
    <3>1. \A d \in Callers : job'[d] = job[d] /\ ToHand(d)' = ToHand(d)
      BY <1>2, <1>5, <2>2
    <3> QED
      BY <3>1 DEF AccountInv
  <2>3. CASE x = "idle" /\ k = job[c]
    <3>1. Given(k) + 0 = Owed(k)
      BY <1>5, <2>3 DEF AccountInv
    <3>2. \A d \in Callers : job'[d] # k
      BY <1>1, <1>2, <1>4, <2>3
    <3> QED
      BY <2>1, <3>1, <3>2
  <2>4. CASE x = "idle" /\ k # job[c]
    <3>1. \A d \in Callers : job'[d] = k <=> d # c /\ job[d] = k
      BY <1>2, <2>4, JobsAssumption
    <3> QED
      BY <1>5, <2>4, <3>1 DEF AccountInv
  <2> QED
    BY <1>7, <2>2, <2>3, <2>4
<1>10. BroadcastInv'
  <2> SUFFICES ASSUME NEW j \in whole
               PROVE  (/\ op[j] = "ExecuteAll"
                       /\ Alone(j) =>
                            /\ \A d \in Callers : job[d] = j => ToTake(d) <= Len(available)
                            /\ \A t \in Threads :
                                 Load(j)[t] = IF \E d \in Callers : job[d] = j /\ Awaits(t, d) THEN 0 ELSE 1)'
    BY <1>1 DEF BroadcastInv
  <2>0. j \in Jobs /\ op[j] = "ExecuteAll"
    BY <1>0 DEF BroadcastInv, TypeOK
  <2>1. CASE x = "take"
    <3>1. \A d \in Callers : job'[d] = job[d] /\ ToTake(d)' = ToTake(d)
      BY <1>2, <1>5, <2>1
    <3>2. \A d \in Callers, t \in Threads : Awaits(t, d)' <=> Awaits(t, d)
      BY <1>6, <2>1
    <3> QED
      BY <1>1, <1>3, <2>0, <3>1, <3>2 DEF BroadcastInv
  <2>2. CASE x = "idle"
    <3>1. \A d \in Callers : job'[d] = j <=> d # c /\ job[d] = j
      BY <1>2, <2>0, <2>2, JobsAssumption
    <3>2. \A d \in Callers : d # c => ToTake(d)' = ToTake(d)
      BY <1>5
    <3>3. \A t \in Threads : (\E d \in Callers : job'[d] = j /\ Awaits(t, d)')
                               <=> \E d \in Callers : job[d] = j /\ Awaits(t, d)
      BY <1>6, <2>2, <3>1
    <3> QED
      BY <1>1, <1>3, <2>0, <3>1, <3>2, <3>3 DEF BroadcastInv
  <2> QED
    BY <1>7, <2>1, <2>2
<1> QED
  BY <1>8, <1>9, <1>10

LEMMA RunInlineGiven ==
  ASSUME IInv, IInv', GivenInv, NEW c \in Callers, RunInline(c)
  PROVE  GivenInv'
<1> USE Apart DEF GivenInv
<1>0. TypeOK
  BY DEF IInv
<1>j. PICK j \in Jobs : j = job[c]
  BY DEF RunInline, IInv, CallerInv
<1>1. /\ pc[c] = "inline" /\ j = job[c] /\ j # NoJob /\ op[j] = "Shared" /\ left[c] = 1
      /\ pc' = [pc EXCEPT ![c] = "idle"] /\ job' = [job EXCEPT ![c] = NoJob]
      /\ left' = [left EXCEPT ![c] = 0] /\ ran' = [ran EXCEPT ![j][c] = @ + 1]
      /\ UNCHANGED <<available, lambda, thread, op, whole>>
  BY <1>j, JobsAssumption DEF RunInline, worker, CallInv
<1>2. /\ pc'[c] = "idle" /\ job'[c] = NoJob
      /\ \A d \in Callers : d # c => pc'[d] = pc[d] /\ job'[d] = job[d] /\ left'[d] = left[d]
  BY <1>0, <1>1 DEF TypeOK
<1>3. /\ ran'[j] = [ran[j] EXCEPT ![c] = @ + 1] /\ \A k \in Jobs : k # j => ran'[k] = ran[k]
      /\ ran[j] \in [Threads \cup Callers -> Nat]
  BY <1>0, <1>1 DEF TypeOK
<1>4. \A k \in Jobs : k # j => Load(k)' = Load(k) /\ Given(k)' = Given(k)
  BY <1>1, <1>3 DEF Load, Given
<1>5. Load(j)' = [Load(j) EXCEPT ![c] = @ + 1]
  <2>1. Load(j) \in [Threads \cup Callers -> Nat] /\ Load(j)' \in [Threads \cup Callers -> Nat]
    <3>1. ran'[j] \in [Threads \cup Callers -> Nat]
      BY <1>3
    <3> QED
      BY <1>0, <3>1, LoadType DEF Load
  <2>2. Load(j)'[c] = Load(j)[c] + 1
    BY <1>3 DEF Load
  <2>3. \A a \in Threads \cup Callers : a # c => Load(j)'[a] = Load(j)[a]
    BY <1>1, <1>3 DEF Load
  <2>4. \A a \in Threads \cup Callers : Load(j)'[a] = [Load(j) EXCEPT ![c] = @ + 1][a]
    BY <2>1, <2>2, <2>3
  <2> QED
    BY <2>1, <2>4
<1>6. Given(j)' = 1
  <2>1. IsFiniteSet(Threads \cup Callers) /\ Load(j) \in [Threads \cup Callers -> Nat] /\ Given(j) \in Nat
    BY <1>0, LoadType
  <2>2. Total([Load(j) EXCEPT ![c] = @ + 1]) = Total(Load(j)) + 1
    <3>1. c \in Threads \cup Callers
      OBVIOUS
    <3> QED
      BY <2>1, <3>1, TotalOneMore
  <2>3. Given(j) + 1 = 1
    BY <1>1 DEF AccountInv, ToHand, Owed
  <2> QED
    BY <1>5, <2>1, <2>2, <2>3 DEF Given
<1>7. \A d \in Callers : d # c => ToHand(d)' = ToHand(d) /\ job[d] # j
  BY <1>1, <1>2 DEF ToHand, CallInv
<1>8. CallInv'
  BY <1>1, <1>2, JobsAssumption DEF CallInv
<1>9. AccountInv'
  <2> SUFFICES ASSUME NEW k \in Jobs
               PROVE  /\ \A d \in Callers : job'[d] = k => Given(k)' + ToHand(d)' = Owed(k)
                      /\ (\A d \in Callers : job'[d] # k) => Given(k)' = Owed(k)
    BY <1>1 DEF AccountInv, Owed
  <2>1. CASE k = j
    <3>1. \A d \in Callers : job'[d] # j
      BY <1>1, <1>2, <1>7
    <3> QED
      BY <1>1, <1>6, <2>1, <3>1 DEF Owed
  <2>2. CASE k # j
    BY <1>1, <1>2, <1>4, <1>7, <2>2, JobsAssumption DEF AccountInv
  <2> QED
    BY <2>1, <2>2
<1>10. BroadcastInv'
  <2>1. \A k \in whole : k \in Jobs /\ k # j /\ op[k] = "ExecuteAll"
    BY <1>0, <1>1 DEF BroadcastInv, TypeOK
  <2>2. \A k \in whole : ~Alone(k)'
    BY <1>1, <2>1 DEF Alone
  <2> QED
    BY <1>1, <2>1, <2>2 DEF BroadcastInv
<1> QED
  BY <1>8, <1>9, <1>10

-----------------------------------------------------------------------------
\* A worker that has executed its function has been counted already.
LEMMA ThreadStepGiven ==
  ASSUME IInv, IInv', GivenInv, NEW t \in Threads, ThreadStep(t)
  PROVE  GivenInv'
<1> USE Apart
<1>0. TypeOK
  BY DEF IInv
<1>1. PICK x \in ThreadPC : pc' = [pc EXCEPT ![t] = x]
  <2>1. CASE WaitRun(t)
    BY <1>0, <2>1 DEF WaitRun, TypeOK
  <2>2. CASE ~WaitRun(t)
    BY <2>2 DEF ThreadStep, Begin, IndicateFree, Wake, RunJob, ThreadPC
  <2> QED
    BY <2>1, <2>2
<1>2. \A c \in Callers : pc'[c] = pc[c]
  BY <1>0, <1>1, WorkerFrame DEF Clients
<1>3. UNCHANGED <<job, left, op, whole, thread>>
  BY DEF ThreadStep, Begin, IndicateFree, WaitRun, Wake, RunJob, history
<1>4. \A i \in Places : i \in Places' /\ available'[i] = available[i]
  <2>1. CASE IndicateFree(t)
    BY <1>0, <2>1 DEF IndicateFree, PushBack, Places, TypeOK
  <2>2. CASE ~IndicateFree(t)
    <3>1. available' = available
      BY <2>2 DEF ThreadStep, Begin, WaitRun, Wake, RunJob
    <3> QED
      BY <3>1 DEF Places
  <2> QED
    BY <2>1, <2>2
<1>5. \A j \in Jobs : Load(j)' = Load(j)
  <2>1. CASE RunJob(t)
    <3>1. PICK j \in Jobs : j = lambda[t]
      BY <1>0, <2>1 DEF RunJob, IInv, ThreadInv, TypeOK
    <3>2. /\ ran' = [ran EXCEPT ![j][t] = @ + 1] /\ lambda' = [lambda EXCEPT ![t] = NoJob]
      BY <2>1, <3>1 DEF RunJob
    <3>3. /\ lambda'[t] = NoJob /\ \A u \in Threads : u # t => lambda'[u] = lambda[u]
          /\ \A k \in Jobs : k # j => ran'[k] = ran[k]
          /\ ran'[j] = [ran[j] EXCEPT ![t] = @ + 1] /\ ran[j] \in [Threads \cup Callers -> Nat]
      BY <1>0, <3>2 DEF TypeOK
    <3>4. ran'[j][t] = ran[j][t] + 1 /\ \A a \in Threads \cup Callers : a # t => ran'[j][a] = ran[j][a]
      BY <3>3
    <3>5. ASSUME NEW k \in Jobs, NEW a \in Threads \cup Callers
          PROVE  Load(k)'[a] = Load(k)[a]
      <4>1. CASE a = t
        BY <3>1, <3>3, <3>4, <4>1, JobsAssumption DEF Load
      <4>2. CASE a # t
        BY <3>3, <3>4, <4>2 DEF Load
      <4> QED
        BY <4>1, <4>2
    <3> QED
      BY <3>5 DEF Load
  <2>2. CASE ~RunJob(t)
    <3>1. UNCHANGED <<lambda, ran>>
      BY <2>2 DEF ThreadStep, Begin, IndicateFree, WaitRun, Wake, worker, history
    <3> QED
      BY <3>1 DEF Load
  <2> QED
    BY <2>1, <2>2
<1> QED
  BY <1>2, <1>3, <1>4, <1>5, NotACall

\* Nothing moves that the accounts are about.
LEMMA NothingGiven ==
  ASSUME IInv, IInv', GivenInv, UNCHANGED <<available, lambda, job, left, op, ran, whole>>,
         \A c \in Callers : pc'[c] = pc[c] /\ thread'[c] = thread[c]
  PROVE  GivenInv'
<1>1. \A j \in Jobs : Load(j)' = Load(j)
  BY DEF Load
<1>2. \A i \in Places : i \in Places' /\ available'[i] = available[i]
  BY DEF Places
<1> QED
  BY <1>1, <1>2, NotACall

\* A step of the owner gives nobody a function and leaves the callers where they are.
LEMMA OwnerFrame ==
  ASSUME IInv, OwnerStep \/ StopCall
  PROVE  /\ UNCHANGED <<available, lambda, job, left, op, ran, whole>>
         /\ \A c \in Callers : pc'[c] = pc[c] /\ thread'[c] = thread[c]
<1> USE Apart
<1>0. TypeOK /\ thread[Owner] \in Threads
  BY DEF IInv, OwnerInv
<1>1. UNCHANGED <<available, lambda, job, left, op, ran, whole>>
  BY DEF OwnerStep, Start, StopWait, Delete, UnlockWait, DestroyUnlock, Join, StopCall, worker, history
<1>2. \A c \in Callers : pc'[c] = pc[c]
  <2>1. CASE Start
    BY <1>0, <2>1 DEF Start, TypeOK
  <2>2. CASE StopWait \/ StopCall
    BY <1>0, <2>2 DEF StopWait, StopCall, TypeOK
  <2>3. CASE Delete \/ UnlockWait(Owner) \/ DestroyUnlock
    BY <1>0, <2>3 DEF Delete, UnlockWait, DestroyUnlock, TypeOK
  <2>4. CASE Join
    BY <1>0, <2>4 DEF Join, TypeOK
  <2> QED
    BY <2>1, <2>2, <2>3, <2>4 DEF OwnerStep
<1>3. \A c \in Callers : thread'[c] = thread[c]
  BY <1>0 DEF OwnerStep, Start, StopWait, Delete, UnlockWait, DestroyUnlock, Join, StopCall, TypeOK
<1> QED
  BY <1>1, <1>2, <1>3

LEMMA OwnerStepGiven ==
  ASSUME IInv, IInv', GivenInv, OwnerStep \/ StopCall
  PROVE  GivenInv'
  BY OwnerFrame, NothingGiven

LEMMA NextGiven ==
  ASSUME Quiesce, IInv, IInv', GivenInv, [Next]_vars
  PROVE  GivenInv'
<1>1. ASSUME NEW c \in Callers, CallStep(c) PROVE GivenInv'
  <2>1. CASE WaitThread(c) \/ UnlockWait(c)
    <3>1. UNCHANGED <<available, lambda, pc, thread, job, left, op, ran, whole>>
      BY <2>1 DEF WaitThread, UnlockWait, worker, history
    <3> QED
      BY <3>1, NothingGiven
  <2> QED
    BY <1>1, <2>1, ReadUsageGiven, TakeThreadGiven, NoThreadGiven, HandGiven, HandOverGiven, RunInlineGiven
    DEF CallStep
<1>2. ASSUME NEW a \in Actors, Spurious(a) PROVE GivenInv'
  <2>1. UNCHANGED <<available, lambda, pc, thread, job, left, op, ran, whole>>
    BY <1>2 DEF Spurious, worker, history
  <2> QED
    BY <2>1, NothingGiven
<1>3. CASE UNCHANGED vars
  <2>1. UNCHANGED <<available, lambda, pc, thread, job, left, op, ran, whole>>
    BY <1>3 DEF vars, worker, history
  <2> QED
    BY <2>1, NothingGiven
<1> QED
  BY <1>1, <1>2, <1>3, CallGiven, ThreadStepGiven, OwnerStepGiven DEF Next, Terminated

LEMMA AccountsInvariant == Quiesce => (Safe => [](IInv /\ GivenInv))
<1> SUFFICES ASSUME Quiesce PROVE Safe => [](IInv /\ GivenInv)
  OBVIOUS
<1>1. Init => IInv /\ GivenInv
  BY InitIInv, InitGiven
<1>2. IInv /\ GivenInv /\ [Next]_vars => (IInv /\ GivenInv)'
  BY NextIInv, NextGiven
<1> QED
  BY <1>1, <1>2, PTL DEF Safe

\* Once Stop destroys the threads, nobody is inside a call or has a function.
LEMMA StoppedLoad ==
  ASSUME IInv, GivenInv, Stopping, NEW j \in Jobs
  PROVE  Load(j) = ran[j] /\ \A c \in Callers : job[c] # j
<1>1. \A t \in Threads : lambda[t] # j
  BY JobsAssumption DEF IInv, OwnerInv
<1>2. \A c \in Callers : job[c] # j
  <2>1. pc[Owner] \notin {"start", "ready"}
    BY DEF Stopping
  <2> QED
    BY <2>1, JobsAssumption DEF IInv, OwnerInv, GivenInv, CallInv
<1>3. ran[j] \in [Threads \cup Callers -> Nat]
  BY LoadType DEF IInv
<1> QED
  BY <1>1, <1>2, <1>3 DEF Load

\* No function is executed more often than it was handed over, and each as often when
\* Stop begins to destroy the threads, whatever the order of callers and workers.
THEOREM NoneTwiceNoneLost ==
  ASSUME Quiesce
  PROVE  Safe => []ExecutedAsOwed
<1>1. IInv /\ GivenInv => ExecutedAsOwed
  <2> SUFFICES ASSUME IInv, GivenInv, NEW j \in Jobs
               PROVE  Executions(j) <= Owed(j) /\ (Stopping => Executions(j) = Owed(j))
    BY DEF ExecutedAsOwed
  <2>1. /\ IsFiniteSet(Threads \cup Callers) /\ Load(j) \in [Threads \cup Callers -> Nat]
        /\ ran[j] \in [Threads \cup Callers -> Nat] /\ Given(j) \in Nat
    BY LoadType DEF IInv
  <2>2. Executions(j) = Total(ran[j])
    BY DEF Executions, Total
  <2>3. Total(ran[j]) <= Given(j) /\ Total(ran[j]) \in Nat
    <3>1. \A a \in Threads \cup Callers : ran[j][a] <= Load(j)[a]
      BY <2>1 DEF Load
    <3> QED
      BY <2>1, <3>1, TotalGrows, TotalType DEF Given
  <2>4. Given(j) <= Owed(j) /\ Owed(j) \in Nat
    <3>1. Owed(j) \in Nat
      BY NAssumption DEF Owed
    <3>2. ASSUME NEW c \in Callers, job[c] = j PROVE ToHand(c) \in Nat
      <4>1. pc[c] # "idle"
        BY <3>2, JobsAssumption DEF GivenInv, CallInv
      <4>2. left[c] \in Nat /\ left[c] >= 1
        BY <4>1, NAssumption DEF IInv, CallerInv, TypeOK
      <4> QED
        BY <4>2 DEF ToHand
    <3>3. CASE \E c \in Callers : job[c] = j
      BY <2>1, <3>1, <3>2, <3>3 DEF GivenInv, AccountInv
    <3>4. CASE \A c \in Callers : job[c] # j
      BY <2>1, <3>1, <3>4 DEF GivenInv, AccountInv
    <3> QED
      BY <3>1, <3>3, <3>4
  <2>5. ASSUME Stopping PROVE Executions(j) = Owed(j)
    BY <2>2, <2>5, StoppedLoad DEF Given, GivenInv, AccountInv
  <2> QED
    BY <2>1, <2>2, <2>3, <2>4, <2>5
<1> QED
  BY <1>1, AccountsInvariant, PTL

\* An ExecuteAll alone in the pool that begins with every worker in the list reaches
\* each of them once: those it has taken come back behind those it has not.
THEOREM BroadcastSafe ==
  ASSUME Quiesce
  PROVE  Safe => []BroadcastOnce
<1>1. IInv /\ GivenInv => BroadcastOnce
  <2> SUFFICES ASSUME IInv, GivenInv, NEW j \in whole, Alone(j), NEW t \in Threads
               PROVE  ran[j][t] <= 1 /\ (Stopping => ran[j][t] = 1)
    BY DEF BroadcastOnce
  <2>1. j \in Jobs /\ ran[j] \in [Threads \cup Callers -> Nat]
    BY LoadType DEF IInv, TypeOK
  <2>2. Load(j)[t] = IF \E c \in Callers : job[c] = j /\ Awaits(t, c) THEN 0 ELSE 1
    BY DEF GivenInv, BroadcastInv
  <2>3. ran[j][t] <= Load(j)[t] /\ ran[j][t] \in Nat
    BY <2>1 DEF Load
  <2>4. ASSUME Stopping PROVE ran[j][t] = 1
    BY <2>1, <2>2, <2>4, StoppedLoad
  <2> QED
    BY <2>2, <2>3, <2>4
<1> QED
  BY <1>1, AccountsInvariant, PTL

-----------------------------------------------------------------------------
(* The limit of SharedThreadPool.                                          *)

\* The callers that found the usage allowed and have not got a worker yet.
Takers == {c \in Callers : pc[c] = "take"}

\* Each of those may still add a worker, and when the last of them read the usage it
\* was under the limit: itself apart, the others are at most one per further caller.
UsageInv ==
  OnlyShared =>
    \/ InUse = {} /\ Takers = {}
    \/ Cardinality(InUse) + Cardinality(Takers) < MaxUsage + Cardinality(Callers)

LEMMA Crowds ==
  /\ IsFiniteSet(Threads) /\ Cardinality(Threads) = NbMaxThreads
  /\ IsFiniteSet(Callers) /\ Cardinality(Callers) \in Nat
  /\ IsFiniteSet(InUse) /\ Cardinality(InUse) \in Nat
  /\ IsFiniteSet(Takers) /\ Cardinality(Takers) \in Nat /\ Cardinality(Takers) <= Cardinality(Callers)
<1>1. IsFiniteSet(Threads) /\ Cardinality(Threads) = NbMaxThreads
  BY FS_Interval, NAssumption DEF Threads
<1>2. IsFiniteSet(Callers)
  BY ActorsAssumption
<1>3. InUse \in SUBSET Threads /\ Takers \in SUBSET Callers
  BY DEF InUse, Takers
<1> QED
  BY <1>1, <1>2, <1>3, FS_Subset, FS_CardinalityType

\* A worker in use is not in the list.
LEMMA UsedIsTaken ==
  ASSUME IInv, ~Stopping
  PROVE  Cardinality(InUse) <= NbMaxThreads - Len(available)
<1> DEFINE L == {t \in Threads : InList(t)}
<1>1. Len(available) \in Nat /\ available \in [Places -> Threads]
  BY DEF IInv, TypeOK, Places
<1>2. IsFiniteSet(Places) /\ Cardinality(Places) = Len(available)
  BY <1>1, FS_Interval DEF Places
<1>3. Cardinality(L) = Len(available)
  <2>1. available \in Surjection(Places, L)
    BY <1>1 DEF Surjection, InList
  <2>2. available \in Injection(Places, L)
    BY <1>1, <2>1 DEF Injection, IsInjective, Surjection, IInv, ListInv
  <2> QED
    BY <1>2, <2>1, <2>2, FS_Surjection
<1>4. InUse \in SUBSET (Threads \ L)
  BY DEF InUse, InList, Places, IInv, ListInv, CleanHandOver
<1>5. Threads \cap L = L
  OBVIOUS
<1> HIDE DEF L
<1>6. IsFiniteSet(Threads) /\ Cardinality(Threads) = NbMaxThreads
  BY Crowds
<1>7. IsFiniteSet(Threads \ L) /\ Cardinality(Threads \ L) = NbMaxThreads - Len(available)
  <2>1. IsFiniteSet(Threads \ L)
    BY <1>6, FS_Subset, Zenon
  <2>2. Cardinality(Threads \ L) = Cardinality(Threads) - Cardinality(Threads \cap L)
    BY <1>6, FS_Difference, Zenon
  <2> QED
    BY <1>3, <1>5, <1>6, <2>1, <2>2
<1> QED
  BY <1>4, <1>7, FS_Subset

\* A step that gives nobody a worker, and lets nobody in to take one.
LEMMA UsageFalls ==
  ASSUME UsageInv, OnlyShared' => OnlyShared, InUse' \subseteq InUse, Takers' \subseteq Takers
  PROVE  UsageInv'
<1>1. IsFiniteSet(InUse) /\ IsFiniteSet(Takers)
  BY Crowds
<1>2. Cardinality(InUse') <= Cardinality(InUse) /\ Cardinality(Takers') <= Cardinality(Takers)
  BY <1>1, FS_Subset
<1>3. Cardinality(InUse') \in Nat /\ Cardinality(Takers') \in Nat
  BY <1>1, FS_Subset, FS_CardinalityType
<1> QED
  BY <1>2, <1>3, Crowds, ConfigAssumption DEF UsageInv

\* The callers and their workers stay where they are.
LEMMA UsageStays ==
  ASSUME UsageInv, UNCHANGED op, \A t \in Threads : lambda'[t] \in {lambda[t], NoJob},
         \A c \in Callers : pc'[c] = pc[c] /\ thread'[c] = thread[c]
  PROVE  UsageInv'
<1>1. InUse' \subseteq InUse /\ Takers' \subseteq Takers
  BY DEF InUse, Holds, Takers
<1> QED
  BY <1>1, UsageFalls DEF OnlyShared

\* The usage is under the limit when a caller is let in, whoever else was let in before.
LEMMA ReadUsageBound ==
  ASSUME IInv, UsageInv, NEW c \in Callers, ReadUsage(c)
  PROVE  UsageInv'
<1>1. /\ pc[c] = "share" /\ ~Stopping /\ TypeOK
      /\ UNCHANGED <<lambda, thread, op>>
  BY CallsBeforeStop DEF ReadUsage, worker, history, IInv
<1>2. CASE UsageAllowed
  <2>1. pc' = [pc EXCEPT ![c] = "take"]
    BY <1>2 DEF ReadUsage
  <2>2. pc'[c] = "take" /\ \A d \in Callers : d # c => pc'[d] = pc[d]
    BY <1>1, <2>1, Apart DEF TypeOK
  <2>3. InUse' = InUse
    BY <1>1, <2>2 DEF InUse, Holds
  <2>4. Cardinality(InUse) <= NbMaxThreads - Len(available)
    BY <1>1, UsedIsTaken
  <2>5. Cardinality(InUse') < MaxUsage
    BY <1>1, <1>2, <2>3, <2>4, Crowds, NAssumption, ConfigAssumption DEF UsageAllowed, TypeOK
  <2>6. Takers' \in SUBSET Callers
    BY DEF Takers
  <2>7. Cardinality(Takers') <= Cardinality(Callers) /\ Cardinality(Takers') \in Nat
    BY <2>6, Crowds, FS_Subset, FS_CardinalityType
  <2> QED
    BY <2>3, <2>5, <2>7, Crowds, ConfigAssumption DEF UsageInv
<1>3. CASE ~UsageAllowed
  <2>1. pc' = [pc EXCEPT ![c] = "inline"]
    BY <1>3 DEF ReadUsage
  <2>2. pc'[c] = "inline" /\ \A d \in Callers : d # c => pc'[d] = pc[d]
    BY <1>1, <2>1, Apart DEF TypeOK
  <2>3. InUse' \subseteq InUse /\ Takers' \subseteq Takers
    BY <1>1, <2>2 DEF InUse, Holds, Takers
  <2> QED
    BY <1>1, <2>3, UsageFalls DEF OnlyShared
<1> QED
  BY <1>2, <1>3

\* The worker a caller takes was counted when the caller was let in.
LEMMA TakeThreadBound ==
  ASSUME IInv, UsageInv, NEW c \in Callers, TakeThread(c)
  PROVE  UsageInv'
<1>0. PICK h \in Threads : h = Head(available)
  BY DEF TakeThread, AtPool, IInv, TypeOK
<1>1. /\ pc[c] = "take" /\ TypeOK
      /\ pc' = [pc EXCEPT ![c] = "hand"] /\ thread' = [thread EXCEPT ![c] = h]
      /\ UNCHANGED <<lambda, op>>
  BY <1>0 DEF TakeThread, AtPool, worker, IInv
<1>2. /\ pc'[c] = "hand" /\ thread'[c] = h
      /\ \A d \in Callers : d # c => pc'[d] = pc[d] /\ thread'[d] = thread[d]
  BY <1>1, Apart DEF TypeOK
<1>3. c \in Takers /\ Takers' = Takers \ {c}
  BY <1>1, <1>2 DEF Takers
<1>4. InUse' \subseteq InUse \cup {h}
  BY <1>1, <1>2 DEF InUse, Holds
<1>5. Cardinality(Takers') = Cardinality(Takers) - 1
  BY <1>3, Crowds, FS_RemoveElement
<1>6. Cardinality(InUse') \in Nat /\ Cardinality(InUse') <= Cardinality(InUse) + 1
  <2>0. IsFiniteSet(InUse) /\ Cardinality(InUse) \in Nat
    BY Crowds
  <2>1. /\ IsFiniteSet(InUse \cup {h}) /\ Cardinality(InUse \cup {h}) \in Nat
        /\ Cardinality(InUse \cup {h}) <= Cardinality(InUse) + 1
    <3>1. /\ IsFiniteSet(InUse \cup {h})
          /\ Cardinality(InUse \cup {h}) = IF h \in InUse THEN Cardinality(InUse) ELSE Cardinality(InUse) + 1
      BY <2>0, FS_AddElement, Zenon
    <3> QED
      BY <2>0, <3>1
  <2>2. IsFiniteSet(InUse') /\ Cardinality(InUse') <= Cardinality(InUse \cup {h})
    BY <1>4, <2>1, FS_Subset
  <2> QED
    BY <2>1, <2>2, Crowds, FS_CardinalityType
<1> QED
  BY <1>1, <1>3, <1>5, <1>6, Crowds, ConfigAssumption DEF UsageInv, OnlyShared

\* No worker is added: the caller has its worker, or does without one.
LEMMA CallStepBound ==
  ASSUME IInv, IInv', GivenInv, UsageInv, NEW c \in Callers, CallStep(c)
  PROVE  UsageInv'
<1>0. TypeOK /\ CallInv /\ CallerInv
  BY DEF IInv, GivenInv
<1>1. CASE NoThread(c) \/ RunInline(c)
  <2>1. PICK x \in {"idle", "inline"} : pc' = [pc EXCEPT ![c] = x]
    BY <1>1 DEF NoThread, RunInline
  <2>2. pc[c] \in {"take", "inline"} /\ UNCHANGED <<lambda, thread>>
    BY <1>1 DEF NoThread, RunInline, AtPool, worker
  <2>3. pc'[c] = x /\ \A d \in Callers : d # c => pc'[d] = pc[d]
    BY <1>0, <2>1, Apart DEF TypeOK
  <2>4. InUse' \subseteq InUse /\ Takers' \subseteq Takers
    BY <2>2, <2>3 DEF InUse, Holds, Takers
  <2>5. OnlyShared' => OnlyShared
    <3>1. CASE UNCHANGED op
      BY <3>1 DEF OnlyShared
    <3>2. CASE op' = [op EXCEPT ![job[c]] = "refused"]
      BY <1>0, <2>2, <3>2 DEF OnlyShared, TypeOK, CallerInv
    <3> QED
      BY <1>1, <3>1, <3>2 DEF NoThread, RunInline
  <2> QED
    BY <2>4, <2>5, UsageFalls
<1>2. CASE Hand(c)
  <2>1. /\ pc[c] = "hand" /\ pc' = [pc EXCEPT ![c] = "unlock"] /\ UNCHANGED <<thread, op>>
        /\ lambda' = [lambda EXCEPT ![thread[c]] = job[c]]
    BY <1>2 DEF Hand, history
  <2>2. pc'[c] = "unlock" /\ \A d \in Callers : d # c => pc'[d] = pc[d]
    BY <1>0, <2>1, Apart DEF TypeOK
  <2>3. Holds(c, thread[c]) /\ thread[c] \in Threads
    BY <1>0, <2>1 DEF Holds, CallerInv
  <2>4. \A t \in Threads : t # thread[c] => lambda'[t] = lambda[t]
    BY <1>0, <2>1, <2>3 DEF TypeOK
  <2>5. InUse' \subseteq InUse /\ Takers' \subseteq Takers
    BY <2>1, <2>2, <2>3, <2>4 DEF InUse, Holds, Takers
  <2> QED
    BY <2>1, <2>5, UsageFalls DEF OnlyShared
<1>3. CASE HandOver(c)
  <2>1. pc[c] = "unlock" /\ UNCHANGED <<lambda, op>> /\ thread' = [thread EXCEPT ![c] = 0]
    BY <1>0, <1>3 DEF HandOver, AtUnlock, history, TypeOK, CallerPC
  <2>2. CASE OnlyShared
    <3>1. left[c] = 1
      BY <1>0, <2>1, <2>2 DEF CallInv, CallerInv, OnlyShared
    <3>2. pc' = [pc EXCEPT ![c] = "idle"]
      BY <1>3, <3>1 DEF HandOver
    <3>3. /\ pc'[c] = "idle"
          /\ \A d \in Callers : d # c => pc'[d] = pc[d] /\ thread'[d] = thread[d]
      BY <1>0, <2>1, <3>2, Apart DEF TypeOK
    <3>4. InUse' \subseteq InUse /\ Takers' \subseteq Takers
      BY <2>1, <3>3 DEF InUse, Holds, Takers
    <3> QED
      BY <2>1, <3>4, UsageFalls DEF OnlyShared
  <2>3. CASE ~OnlyShared
    BY <2>1, <2>3 DEF OnlyShared, UsageInv
  <2> QED
    BY <2>2, <2>3
<1>4. CASE WaitThread(c) \/ UnlockWait(c)
  <2>1. UNCHANGED <<lambda, pc, thread, op>>
    BY <1>4 DEF WaitThread, UnlockWait, worker, history
  <2> QED
    BY <2>1, UsageStays
<1> QED
  BY <1>1, <1>2, <1>3, <1>4, ReadUsageBound, TakeThreadBound DEF CallStep

LEMMA NextUsage ==
  ASSUME IInv, IInv', GivenInv, UsageInv, [Next]_vars
  PROVE  UsageInv'
<1>0. TypeOK
  BY DEF IInv
<1>1. ASSUME NEW c \in Callers, NEW j \in Jobs, NEW o \in Ops, Call(c, j, o) PROVE UsageInv'
  <2>1. /\ pc[c] = "idle" /\ op[j] = "none" /\ op' = [op EXCEPT ![j] = o] /\ UNCHANGED <<lambda, thread>>
        /\ pc' = [pc EXCEPT ![c] = IF o = "Shared" THEN "share" ELSE "take"]
    BY <1>1 DEF Call, worker
  <2>2. CASE o = "Shared"
    <3>1. pc'[c] = "share" /\ \A d \in Callers : d # c => pc'[d] = pc[d]
      BY <1>0, <2>1, <2>2, Apart DEF TypeOK
    <3>2. InUse' \subseteq InUse /\ Takers' \subseteq Takers
      BY <2>1, <3>1 DEF InUse, Holds, Takers
    <3>3. OnlyShared' => OnlyShared
      BY <1>0, <2>1 DEF OnlyShared, TypeOK
    <3> QED
      BY <3>2, <3>3, UsageFalls
  <2>3. CASE o # "Shared"
    <3>1. op'[j] = o /\ o # "none"
      BY <1>0, <2>1, OpsAssumption DEF TypeOK, AllOps
    <3> QED
      BY <2>3, <3>1 DEF UsageInv, OnlyShared
  <2> QED
    BY <2>2, <2>3
<1>2. ASSUME NEW t \in Threads, ThreadStep(t) PROVE UsageInv'
  <2>1. \A c \in Callers : pc'[c] = pc[c]
    <3>1. CASE WaitRun(t)
      BY <3>1 DEF WaitRun
    <3>2. CASE ~WaitRun(t)
      <4>1. PICK x \in ThreadPC : pc' = [pc EXCEPT ![t] = x]
        BY <1>2, <3>2 DEF ThreadStep, Begin, IndicateFree, Wake, RunJob, ThreadPC
      <4> QED
        BY <1>0, <4>1, WorkerFrame DEF Clients
    <3> QED
      BY <3>1, <3>2
  <2>2. UNCHANGED <<op, thread>>
    BY <1>2 DEF ThreadStep, Begin, IndicateFree, WaitRun, Wake, RunJob, history
  <2>3. \A u \in Threads : lambda'[u] \in {lambda[u], NoJob}
    <3>1. CASE RunJob(t)
      BY <1>0, <3>1 DEF RunJob, TypeOK
    <3>2. CASE ~RunJob(t)
      BY <1>2, <3>2 DEF ThreadStep, Begin, IndicateFree, WaitRun, Wake, worker
    <3> QED
      BY <3>1, <3>2
  <2> QED
    BY <2>1, <2>2, <2>3, UsageStays
<1>3. CASE OwnerStep \/ StopCall
  BY <1>3, OwnerFrame, UsageStays
<1>4. CASE (\E a \in Actors : Spurious(a)) \/ UNCHANGED vars
  <2>1. UNCHANGED <<lambda, pc, thread, op>>
    BY <1>4 DEF Spurious, vars, worker, history
  <2> QED
    BY <2>1, UsageStays
<1> QED
  BY <1>1, <1>2, <1>3, <1>4, CallStepBound DEF Next, Terminated

\* With no other user of the pool, the workers in use exceed the limit of
\* SharedThreadPool by one for each further caller at most, for any number of threads
\* and callers and any limit.
THEOREM UsageBounded ==
  ASSUME Quiesce
  PROVE  Safe => []UsageBound
<1>1. Init => UsageInv
  <2>1. ASSUME Init PROVE InUse = {} /\ Takers = {}
    <3>1. \A t \in Threads : lambda[t] = NoJob
      BY <2>1 DEF Init
    <3>2. \A c \in Callers : pc[c] = "idle"
      BY <2>1, Apart DEF Init
    <3> QED
      BY <3>1, <3>2 DEF InUse, Holds, Takers
  <2> QED
    BY <2>1 DEF UsageInv
<1>2. IInv /\ IInv' /\ GivenInv /\ UsageInv /\ [Next]_vars => UsageInv'
  BY NextUsage
<1>3. UsageInv => UsageBound
  BY Crowds, ConfigAssumption DEF UsageInv, UsageBound
<1> QED
  BY <1>1, <1>2, <1>3, AccountsInvariant, PTL DEF Safe

-----------------------------------------------------------------------------
(* The pool implements JobSlots.                                           *)

\* What a worker's slot holds: its function, or the one its holder has for it.
Filled(t, j) ==
  \/ lambda[t] # NoJob /\ j = lambda[t]
  \/ lambda[t] = NoJob /\ \E c \in Callers : Holds(c, t) /\ j = job[c]
  \/ lambda[t] = NoJob /\ (\A c \in Callers : ~Holds(c, t)) /\ j = NoJob

LEMMA SlotFilled ==
  \A t \in Threads : \A j : IInv /\ Filled(t, j) => Slot(t) = j
<1> SUFFICES ASSUME NEW t \in Threads, NEW j, IInv, Filled(t, j) PROVE Slot(t) = j
  OBVIOUS
<1>1. CASE lambda[t] # NoJob
  BY <1>1 DEF Filled, Slot
<1>2. CASE lambda[t] = NoJob /\ \E c \in Callers : Holds(c, t)
  <2>1. PICK c \in Callers : Holds(c, t) /\ j = job[c]
    BY <1>2 DEF Filled
  <2>2. \A d \in Callers : Holds(d, t) => d = c
    BY <2>1 DEF IInv, CleanHandOver
  <2>3. (CHOOSE d \in Callers : Holds(d, t)) = c
    BY <2>1, <2>2
  <2> QED
    BY <1>2, <2>1, <2>3 DEF Slot
<1>3. CASE lambda[t] = NoJob /\ \A c \in Callers : ~Holds(c, t)
  BY <1>3 DEF Filled, Slot
<1> QED
  BY <1>1, <1>2, <1>3

LEMMA SlotFilledNext ==
  (\A t \in Threads : \A j : IInv /\ Filled(t, j) => Slot(t) = j)'
  BY SlotFilled, PTL

\* A slot changes no more than what it stands for does.
LEMMA SlotUnchanged ==
  ASSUME IInv, IInv', NEW t \in Threads, lambda'[t] = lambda[t],
         lambda[t] = NoJob =>
           \A c \in Callers : /\ Holds(c, t)' <=> Holds(c, t)
                              /\ Holds(c, t) => job'[c] = job[c]
  PROVE  Slot(t)' = Slot(t)
<1>1. PICK j : Filled(t, j)
  BY DEF Filled
<1>2. Filled(t, j)'
  <2>1. CASE lambda[t] # NoJob
    BY <1>1, <2>1 DEF Filled
  <2>2. CASE lambda[t] = NoJob /\ \E c \in Callers : Holds(c, t)
    <3>1. PICK c \in Callers : Holds(c, t) /\ j = job[c]
      BY <1>1, <2>2 DEF Filled
    <3>2. Holds(c, t)' /\ job'[c] = job[c] /\ lambda'[t] = NoJob
      BY <2>2, <3>1
    <3> QED
      BY <3>1, <3>2 DEF Filled
  <2>3. CASE lambda[t] = NoJob /\ \A c \in Callers : ~Holds(c, t)
    <3>1. j = NoJob /\ lambda'[t] = NoJob /\ \A c \in Callers : ~Holds(c, t)'
      BY <1>1, <2>3 DEF Filled
    <3> QED
      BY <3>1 DEF Filled
  <2> QED
    BY <2>1, <2>2, <2>3
<1> QED
  BY <1>1, <1>2, SlotFilled, SlotFilledNext

\* The steps that the abstract pool does not see.
LEMMA Silent ==
  ASSUME IInv, IInv', UNCHANGED <<lambda, ran>>, Stopping' = Stopping,
         \A c \in Callers, t \in Threads : Holds(c, t)' <=> Holds(c, t),
         \A c \in Callers, t \in Threads : Holds(c, t) => job'[c] = job[c]
  PROVE  UNCHANGED Abstract!vars
<1>1. \A t \in Threads : Slot(t)' = Slot(t)
  BY SlotUnchanged
<1> QED
  BY <1>1 DEF Abstract!vars

LEMMA ThreadSilent ==
  ASSUME IInv, IInv', NEW t \in Threads, NEW x \in ThreadPC, pc' = [pc EXCEPT ![t] = x],
         UNCHANGED <<lambda, thread, job, ran>>
  PROVE  UNCHANGED Abstract!vars
<1>1. Stopping' = Stopping /\ \A c \in Clients : pc'[c] = pc[c]
  BY WorkerFrame DEF IInv
<1>2. \A c \in Callers, u \in Threads : Holds(c, u)' <=> Holds(c, u)
  BY <1>1 DEF Holds, Clients
<1> QED
  BY <1>1, <1>2, Silent

LEMMA CallerSilent ==
  ASSUME IInv, IInv', NEW c \in Callers, NEW x \in CallerPC, pc' = [pc EXCEPT ![c] = x],
         pc[c] \notin {"hand", "unlock"}, x \notin {"hand", "unlock"},
         UNCHANGED <<lambda, thread, ran>>, \A d \in Callers : d # c => job'[d] = job[d]
  PROVE  UNCHANGED Abstract!vars
<1>1. Stopping' = Stopping /\ pc'[c] = x /\ \A a \in Actors : a # c => pc'[a] = pc[a]
  BY ClientFrame, Apart DEF IInv
<1>2. \A d \in Callers, u \in Threads : Holds(d, u)' <=> Holds(d, u)
  BY <1>1, Apart DEF Holds
<1>3. \A d \in Callers, u \in Threads : Holds(d, u) => job'[d] = job[d]
  BY DEF Holds
<1> QED
  BY <1>1, <1>2, <1>3, Silent

LEMMA OwnerSilent ==
  ASSUME IInv, IInv', Stopping' = Stopping,
         \A c \in Callers : pc'[c] = pc[c] /\ thread'[c] = thread[c],
         UNCHANGED <<lambda, job, ran>>
  PROVE  UNCHANGED Abstract!vars
<1>1. \A d \in Callers, u \in Threads : Holds(d, u)' <=> Holds(d, u)
  BY DEF Holds
<1> QED
  BY <1>1, Silent

LEMMA ThreadStepMaps ==
  ASSUME IInv, IInv', NEW t \in Threads, ThreadStep(t)
  PROVE  [Abstract!Next]_Abstract!vars
<1>1. CASE Begin(t)
  BY <1>1, ThreadSilent DEF Begin, history, ThreadPC
<1>2. CASE IndicateFree(t)
  BY <1>2, ThreadSilent DEF IndicateFree, worker, history, ThreadPC
<1>3. CASE WaitRun(t)
  <2>1. UNCHANGED <<pc, lambda, thread, job, ran>>
    BY <1>3 DEF WaitRun, history
  <2> QED
    BY <2>1, OwnerSilent DEF Stopping
<1>4. CASE Wake(t)
  <2>1. PICK x \in ThreadPC : pc' = [pc EXCEPT ![t] = x]
    BY <1>4 DEF Wake, ThreadPC
  <2>2. UNCHANGED <<lambda, thread, job, ran>>
    BY <1>4 DEF Wake, history
  <2> QED
    BY <2>1, <2>2, ThreadSilent
<1>5. CASE RunJob(t)
  <2>1. /\ pc[t] = "run" /\ pc' = [pc EXCEPT ![t] = "indicate"] /\ "indicate" \in ThreadPC
        /\ lambda' = [lambda EXCEPT ![t] = NoJob]
        /\ ran' = [ran EXCEPT ![lambda[t]][t] = @ + 1]
        /\ UNCHANGED <<thread, job>>
    BY <1>5 DEF RunJob, ThreadPC
  <2>2. Stopping' = Stopping /\ \A c \in Clients : pc'[c] = pc[c]
    BY <2>1, WorkerFrame DEF IInv
  <2>3. \A c \in Callers, u \in Threads : Holds(c, u)' <=> Holds(c, u)
    BY <2>1, <2>2 DEF Holds, Clients
  <2>4. lambda[t] # NoJob /\ Slot(t) = lambda[t]
    BY <2>1 DEF IInv, ThreadInv, Slot
  <2>5. \A c \in Callers : ~Holds(c, t)
    BY <2>1 DEF IInv, CleanHandOver
  <2>6. lambda'[t] = NoJob /\ \A u \in Threads : u # t => lambda'[u] = lambda[u]
    BY <2>1 DEF IInv, TypeOK
  <2>7. Slot(t)' = NoJob
    <3>1. Filled(t, NoJob)'
      BY <2>3, <2>5, <2>6 DEF Filled
    <3> QED
      BY <3>1, SlotFilledNext
  <2>8. \A u \in Threads : u # t => Slot(u)' = Slot(u)
    BY <2>1, <2>3, <2>6, SlotUnchanged
  <2>9. [u \in Threads |-> Slot(u)]' = [[u \in Threads |-> Slot(u)] EXCEPT ![t] = NoJob]
    BY <2>7, <2>8
  <2>10. Abstract!Finish(t)
    BY <2>1, <2>2, <2>4, <2>9 DEF Abstract!Finish
  <2> QED
    BY <2>10 DEF Abstract!Next
<1> QED
  BY <1>1, <1>2, <1>3, <1>4, <1>5 DEF ThreadStep

LEMMA CallStepMaps ==
  ASSUME IInv, IInv', NEW c \in Callers, CallStep(c)
  PROVE  [Abstract!Next]_Abstract!vars
<1>1. CASE ReadUsage(c)
  <2>1. PICK x \in CallerPC \ {"hand", "unlock"} : pc' = [pc EXCEPT ![c] = x]
    BY <1>1 DEF ReadUsage, CallerPC
  <2>2. pc[c] = "share" /\ UNCHANGED <<lambda, thread, job, ran>>
    BY <1>1 DEF ReadUsage, worker, history
  <2> QED
    BY <2>1, <2>2, CallerSilent
<1>2. CASE TakeThread(c)
  <2>1. PICK h \in Threads : h = Head(available) /\ InList(h)
    BY <1>2 DEF TakeThread, AtPool, IInv, TypeOK, InList, Places
  <2>2. /\ pc[c] = "take" /\ pc' = [pc EXCEPT ![c] = "hand"] /\ "hand" \in CallerPC
        /\ thread' = [thread EXCEPT ![c] = h] /\ UNCHANGED <<lambda, job, ran>>
    BY <1>2, <2>1 DEF TakeThread, AtPool, worker, CallerPC
  <2>3. /\ pc'[c] = "hand" /\ Stopping' = Stopping
        /\ \A a \in Actors : a # c => pc'[a] = pc[a]
    BY <2>2, ClientFrame, Apart DEF IInv
  <2>4. ~Stopping /\ job[c] \in Jobs
    BY <2>2, CallsBeforeStop DEF IInv, CallerInv
  <2>5. thread'[c] = h /\ \A d \in Clients : d # c => thread'[d] = thread[d]
    BY <2>2, Apart DEF IInv, TypeOK
  <2>6. \A d \in Callers, u \in Threads : d # c => (Holds(d, u)' <=> Holds(d, u))
    BY <2>3, <2>5, Apart DEF Holds
  <2>7. \A u \in Threads : ~Holds(c, u) /\ (Holds(c, u)' <=> u = h)
    BY <2>2, <2>3, <2>5 DEF Holds
  <2>8. lambda[h] = NoJob /\ \A d \in Callers : ~Holds(d, h)
    BY <2>1, <2>4 DEF IInv, ListInv, CleanHandOver, InList, Places
  <2>9. Slot(h) = NoJob
    BY <2>8 DEF Slot
  <2>10. Slot(h)' = job[c]
    <3>1. Filled(h, job[c])'
      BY <2>2, <2>7, <2>8 DEF Filled
    <3> QED
      BY <2>2, <3>1, SlotFilledNext
  <2>11. \A u \in Threads : u # h => Slot(u)' = Slot(u)
    BY <2>2, <2>6, <2>7, SlotUnchanged
  <2>12. [u \in Threads |-> Slot(u)]' = [[u \in Threads |-> Slot(u)] EXCEPT ![h] = job[c]]
    BY <2>10, <2>11
  <2>13. Abstract!Accept(h, job[c])
    BY <2>2, <2>3, <2>4, <2>9, <2>12 DEF Abstract!Accept
  <2> QED
    BY <2>4, <2>13 DEF Abstract!Next
<1>3. CASE WaitThread(c)
  <2>1. UNCHANGED <<pc, lambda, thread, job, ran>>
    BY <1>3 DEF WaitThread, worker, history
  <2> QED
    BY <2>1, OwnerSilent DEF Stopping
<1>4. CASE NoThread(c)
  <2>1. PICK x \in CallerPC \ {"hand", "unlock"} : pc' = [pc EXCEPT ![c] = x]
    BY <1>4 DEF NoThread, CallerPC
  <2>2. pc[c] = "take" /\ UNCHANGED <<lambda, thread, ran>>
    BY <1>4 DEF NoThread, AtPool, worker
  <2>3. \A d \in Callers : d # c => job'[d] = job[d]
    BY <1>4 DEF NoThread, IInv, TypeOK
  <2> QED
    BY <2>1, <2>2, <2>3, CallerSilent
<1>5. CASE Hand(c)
  <2>1. PICK h \in Threads : h = thread[c] /\ Holds(c, h)
    BY <1>5 DEF Hand, IInv, CallerInv, Holds
  <2>2. /\ pc[c] = "hand" /\ pc' = [pc EXCEPT ![c] = "unlock"] /\ "unlock" \in CallerPC
        /\ lambda' = [lambda EXCEPT ![h] = job[c]] /\ UNCHANGED <<thread, job, ran>>
        /\ job[c] \in Jobs
    BY <1>5, <2>1 DEF Hand, history, CallerPC, IInv, CallerInv
  <2>3. /\ pc'[c] = "unlock" /\ Stopping' = Stopping
        /\ \A a \in Actors : a # c => pc'[a] = pc[a]
    BY <2>2, ClientFrame, Apart DEF IInv
  <2>4. \A d \in Callers, u \in Threads : Holds(d, u)' <=> Holds(d, u)
    BY <2>2, <2>3, Apart DEF Holds
  <2>5. lambda'[h] = job[c] /\ \A u \in Threads : u # h => lambda'[u] = lambda[u]
    BY <2>2 DEF IInv, TypeOK
  <2>6. Slot(h) = job[c]
    <3>1. Filled(h, job[c])
      BY <2>1, <2>2 DEF Filled, IInv, CleanHandOver
    <3> QED
      BY <3>1, SlotFilled
  <2>7. Slot(h)' = job[c]
    <3>1. Filled(h, job[c])'
      BY <2>2, <2>5, JobsAssumption DEF Filled
    <3> QED
      BY <2>2, <3>1, SlotFilledNext
  <2>8. \A u \in Threads : u # h => Slot(u)' = Slot(u)
    BY <2>2, <2>4, <2>5, SlotUnchanged
  <2> QED
    BY <2>2, <2>3, <2>6, <2>7, <2>8 DEF Abstract!vars
<1>6. CASE UnlockWait(c)
  <2>1. UNCHANGED <<pc, lambda, thread, job, ran>>
    BY <1>6 DEF UnlockWait, history
  <2> QED
    BY <2>1, OwnerSilent DEF Stopping
<1>7. CASE HandOver(c)
  <2>1. PICK h \in Threads : h = thread[c] /\ Holds(c, h) /\ pc[c] = "unlock"
    BY <1>7, Apart DEF HandOver, AtUnlock, IInv, CallerInv, Holds, TypeOK, CallerPC
  <2>2. PICK x \in CallerPC \ {"hand", "unlock"} : pc' = [pc EXCEPT ![c] = x]
    BY <1>7 DEF HandOver, CallerPC
  <2>3. thread' = [thread EXCEPT ![c] = 0] /\ UNCHANGED <<lambda, ran>>
    BY <1>7 DEF HandOver, history
  <2>4. \A d \in Callers : d # c => job'[d] = job[d]
    BY <1>7 DEF HandOver, IInv, TypeOK
  <2>5. /\ pc'[c] = x /\ Stopping' = Stopping
        /\ \A a \in Actors : a # c => pc'[a] = pc[a]
    BY <2>2, ClientFrame, Apart DEF IInv
  <2>6. \A d \in Clients : d # c => thread'[d] = thread[d]
    BY <2>3 DEF IInv, TypeOK
  <2>7. \A d \in Callers, u \in Threads : u # h => (Holds(d, u)' <=> Holds(d, u))
    BY <2>1, <2>2, <2>5, <2>6, Apart DEF Holds
  <2>8. lambda[h] # NoJob
    BY <2>1, JobsAssumption DEF IInv, CleanHandOver, CallerInv
  <2>9. \A u \in Threads : u # h /\ Holds(c, u) => FALSE
    BY <2>1 DEF Holds
  <2>10. \A u \in Threads : Slot(u)' = Slot(u)
    BY <2>3, <2>4, <2>7, <2>8, <2>9, SlotUnchanged
  <2> QED
    BY <2>3, <2>5, <2>10 DEF Abstract!vars
<1>8. CASE RunInline(c)
  <2>1. /\ pc[c] = "inline" /\ pc' = [pc EXCEPT ![c] = "idle"] /\ "idle" \in CallerPC
        /\ job[c] \in Jobs /\ ran' = [ran EXCEPT ![job[c]][c] = @ + 1]
        /\ UNCHANGED <<lambda, thread>>
    BY <1>8 DEF RunInline, worker, CallerPC, IInv, CallerInv
  <2>2. \A d \in Callers : d # c => job'[d] = job[d]
    BY <1>8 DEF RunInline, IInv, TypeOK
  <2>3. /\ pc'[c] = "idle" /\ Stopping' = Stopping
        /\ \A a \in Actors : a # c => pc'[a] = pc[a]
    BY <2>1, ClientFrame, Apart DEF IInv
  <2>4. \A d \in Callers, u \in Threads : Holds(d, u)' <=> Holds(d, u)
    BY <2>1, <2>3, Apart DEF Holds
  <2>5. \A d \in Callers, u \in Threads : Holds(d, u) => job'[d] = job[d]
    BY <2>1, <2>2 DEF Holds
  <2>6. \A u \in Threads : Slot(u)' = Slot(u)
    BY <2>1, <2>4, <2>5, SlotUnchanged
  <2>7. Abstract!RunOutside(c, job[c])
    BY <2>1, <2>3, <2>6 DEF Abstract!RunOutside
  <2> QED
    BY <2>1, <2>7 DEF Abstract!Next
<1> QED
  BY <1>1, <1>2, <1>3, <1>4, <1>5, <1>6, <1>7, <1>8 DEF CallStep

LEMMA OwnerStepMaps ==
  ASSUME IInv, IInv', OwnerStep \/ StopCall
  PROVE  [Abstract!Next]_Abstract!vars
<1> USE Apart DEF IInv
<1>1. CASE Start
  <2>1. PICK k \in Threads, x \in {"start", "ready"}, n \in {1, thread[Owner] + 1} :
          /\ pc' = [pc EXCEPT ![k] = "begin", ![Owner] = x]
          /\ thread' = [thread EXCEPT ![Owner] = n]
    BY <1>1 DEF Start, OwnerInv
  <2>2. UNCHANGED <<lambda, job, ran>> /\ pc[Owner] = "start"
    BY <1>1 DEF Start, worker, history
  <2>3. /\ pc'[Owner] = x
        /\ \A c \in Callers : pc'[c] = pc[c] /\ thread'[c] = thread[c]
    BY <2>1 DEF TypeOK
  <2> QED
    BY <2>2, <2>3, OwnerSilent DEF Stopping
<1>2. CASE StopCall
  <2>1. pc' = [pc EXCEPT ![Owner] = "stop"] /\ UNCHANGED <<lambda, thread, job, ran>> /\ pc[Owner] = "ready"
    BY <1>2 DEF StopCall, worker, history
  <2>2. pc'[Owner] = "stop" /\ \A c \in Callers : pc'[c] = pc[c]
    BY <2>1 DEF TypeOK
  <2> QED
    BY <2>1, <2>2, OwnerSilent DEF Stopping
<1>3. CASE StopWait
  <2>1. pc[Owner] = "stop" /\ UNCHANGED <<available, lambda, thread, job, ran>>
    BY <1>3 DEF StopWait, worker, history
  <2>2. CASE pc' = pc
    BY <2>1, <2>2, OwnerSilent DEF Stopping
  <2>3. CASE pc' = [pc EXCEPT ![Owner] = "delete"]
    <3>1. pc'[Owner] = "delete" /\ \A c \in Callers : pc'[c] = pc[c] /\ pc[c] = "idle"
      BY <2>1, <2>3 DEF TypeOK, OwnerInv
    <3>2. ~Stopping /\ Stopping'
      BY <2>1, <3>1 DEF Stopping
    <3>3. \A c \in Callers, t \in Threads : ~Holds(c, t) /\ ~Holds(c, t)'
      BY <3>1 DEF Holds
    <3>4. \A t \in Threads : lambda[t] = NoJob
      BY <2>1, <3>2 DEF OwnerInv
    <3>5. \A t \in Threads : Slot(t) = NoJob /\ Slot(t)' = NoJob
      BY <2>1, <3>3, <3>4 DEF Slot
    <3>6. Abstract!Stop
      BY <2>1, <3>2, <3>5 DEF Abstract!Stop
    <3> QED
      BY <3>6 DEF Abstract!Next
  <2> QED
    BY <1>3, <2>2, <2>3 DEF StopWait
<1>4. CASE Delete
  <2>1. pc' = [pc EXCEPT ![Owner] = "unlock"] /\ UNCHANGED <<lambda, thread, job, ran>> /\ pc[Owner] = "delete"
    BY <1>4 DEF Delete, history
  <2>2. pc'[Owner] = "unlock" /\ \A c \in Callers : pc'[c] = pc[c]
    BY <2>1 DEF TypeOK
  <2> QED
    BY <2>1, <2>2, OwnerSilent DEF Stopping
<1>5. CASE UnlockWait(Owner)
  <2>1. UNCHANGED <<pc, lambda, thread, job, ran>>
    BY <1>5 DEF UnlockWait, history
  <2> QED
    BY <2>1, OwnerSilent DEF Stopping
<1>6. CASE DestroyUnlock
  <2>1. PICK x \in {"unlock2", "join"} : pc' = [pc EXCEPT ![Owner] = x]
    BY <1>6 DEF DestroyUnlock
  <2>2. UNCHANGED <<lambda, thread, job, ran>> /\ pc[Owner] \in {"unlock", "unlock2"}
    BY <1>6 DEF DestroyUnlock, AtUnlock, history
  <2>3. pc'[Owner] = x /\ \A c \in Callers : pc'[c] = pc[c]
    BY <2>1 DEF TypeOK
  <2> QED
    BY <2>2, <2>3, OwnerSilent DEF Stopping
<1>7. CASE Join
  <2>1. PICK k \in Threads, x \in {"delete", "stopped"} :
          pc' = [pc EXCEPT ![k] = "deleted", ![Owner] = x]
    BY <1>7 DEF Join, OwnerInv
  <2>2. UNCHANGED <<lambda, job, ran>> /\ pc[Owner] = "join"
    BY <1>7 DEF Join, worker, history
  <2>3. pc'[Owner] = x /\ \A c \in Callers : pc'[c] = pc[c]
    BY <2>1 DEF TypeOK
  <2>4. \A c \in Callers : thread'[c] = thread[c]
    BY <1>7 DEF Join, TypeOK
  <2> QED
    BY <2>2, <2>3, <2>4, OwnerSilent DEF Stopping
<1> QED
  BY <1>1, <1>2, <1>3, <1>4, <1>5, <1>6, <1>7 DEF OwnerStep

\* The pool implements JobSlots: taking a worker from the list accepts a function for
\* its slot, running it finishes it, and Stop stops when every slot is empty.
THEOREM Implementation ==
  ASSUME Quiesce
  PROVE  Safe => ImplementsJobSlots
<1>1. Init => Abstract!Init
  <2> SUFFICES ASSUME Init PROVE Abstract!Init
    OBVIOUS
  <2>1. /\ \A t \in Threads : lambda[t] = NoJob
        /\ \A c \in Callers : pc[c] = "idle"
        /\ pc[Owner] = "start"
    BY Apart DEF Init
  <2>2. \A t \in Threads : Slot(t) = NoJob
    BY <2>1 DEF Slot, Holds
  <2>3. ~Stopping /\ ran = [j \in Jobs |-> [a \in Threads \cup Callers |-> 0]]
    BY <2>1 DEF Init, Stopping
  <2> QED
    BY <2>2, <2>3 DEF Abstract!Init
<1>2. IInv /\ IInv' /\ [Next]_vars => [Abstract!Next]_Abstract!vars
  <2> SUFFICES ASSUME IInv, IInv', [Next]_vars PROVE [Abstract!Next]_Abstract!vars
    OBVIOUS
  <2>1. ASSUME NEW c \in Callers, NEW j \in Jobs, NEW o \in Ops, Call(c, j, o)
        PROVE  UNCHANGED Abstract!vars
    <3>1. PICK x \in CallerPC \ {"hand", "unlock"} : pc' = [pc EXCEPT ![c] = x]
      BY <2>1 DEF Call, CallerPC
    <3>2. pc[c] = "idle" /\ UNCHANGED <<lambda, thread, ran>>
      BY <2>1 DEF Call, worker
    <3>3. \A d \in Callers : d # c => job'[d] = job[d]
      BY <2>1 DEF Call, IInv, TypeOK
    <3> QED
      BY <3>1, <3>2, <3>3, CallerSilent
  <2>2. ASSUME NEW a \in Actors, Spurious(a) PROVE UNCHANGED Abstract!vars
    <3>1. UNCHANGED <<pc, lambda, thread, job, ran>>
      BY <2>2 DEF Spurious, worker, history
    <3> QED
      BY <3>1, OwnerSilent DEF Stopping
  <2>3. CASE UNCHANGED vars
    <3>1. UNCHANGED <<pc, lambda, thread, job, ran>>
      BY <2>3 DEF vars, worker, history
    <3> QED
      BY <3>1, OwnerSilent DEF Stopping
  <2> QED
    BY <2>1, <2>2, <2>3, ThreadStepMaps, CallStepMaps, OwnerStepMaps DEF Next, Terminated
<1> QED
  BY <1>1, <1>2, InductiveInvariant, PTL DEF Safe, ImplementsJobSlots, Abstract!Spec
=============================================================================
