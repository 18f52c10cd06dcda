-------------------------- MODULE ThreadPoolProofs --------------------------
(***************************************************************************)
(* Proofs about ThreadPool, for every number of workers, every queue size   *)
(* and every number of tasks.                                               *)
(*                                                                          *)
(* TypeOK is not inductive: the value popped has a type only if the queue   *)
(* is not empty, which rests on the mutex and on the order of the reads of  *)
(* _flag in TaskQueue::pop.  Core adds what is missing.                     *)
(***************************************************************************)
EXTENDS ThreadPool, SequenceTheorems, TLAPS

USE DEF Workers, Loop, Nobody

\* The mutex is owned by the thread that is inside push or pop, if any: the
\* critical sections exclude each other.
MutexInv ==
  /\ mutex = Loop <=> LoopHolds
  /\ \A w \in Workers : mutex = w <=> WorkerHolds(w)

\* What a worker knows of the queue between its tests and its use of them.
TestInv ==
  /\ \A w \in Workers : wpc[w] = "pop_sleep" => que = <<>>
  /\ PopFindsTask

\* The life of the threads: created in order, alive until _isExit is seen,
\* joined in order by stop.
ThreadInv ==
  /\ \A w \in Workers :
        /\ w >= started => wpc[w] = "unborn"
        /\ wpc[w] \notin {"unborn", "exited"} => w \in running
        /\ w \in running => w < started /\ wpc[w] # "unborn"
        /\ wpc[w] = "exited" => isExit
        /\ w < joinIdx => wpc[w] \in {"unborn", "exited"}
  /\ spc # "idle" => started = ThreadNum
  /\ spc \in {"clear_flag", "broadcast", "join", "stopped"} => isExit
  /\ spc \notin {"join", "stopped"} => joinIdx = 0
  /\ spc = "stopped" => joinIdx = ThreadNum

Core == TypeOK /\ ThreadInv /\ MutexInv /\ TestInv

LEMMA TypeInit == Init => TypeOK
<1> SUFFICES ASSUME Init PROVE TypeOK
  OBVIOUS
<1>1. que \in Seq(Nat) /\ executed \subseteq Nat /\ running \subseteq Workers
  BY DEF Init
<1>2. wpc \in [Workers -> WorkerStates] /\ cur \in [Workers -> Nat]
  BY DEF Init, WorkerStates
<1>3. started \in 0 .. ThreadNum /\ joinIdx \in 0 .. ThreadNum
  BY PoolAssumption DEF Init
<1> QED BY <1>1, <1>2, <1>3 DEF Init, TypeOK, LoopStates, StopStates

-----------------------------------------------------------------------------
LEMMA TypeLoop == TypeOK /\ (LoopStep \/ AddTask) => TypeOK'
<1> SUFFICES ASSUME TypeOK, LoopStep \/ AddTask PROVE TypeOK'
  OBVIOUS
<1> USE PoolAssumption DEF TypeOK, LoopStates, WorkerStates, queVars, poolVars, histVars
<1>1. CASE StartThread
  <2>1. started \in Workers /\ started + 1 \in 0 .. ThreadNum
    BY <1>1 DEF StartThread
  <2>2. running' \subseteq Workers
    BY <1>1, <2>1 DEF StartThread
  <2>3. wpc' \in [Workers -> WorkerStates]
    BY <1>1 DEF StartThread
  <2> QED BY <1>1, <2>1, <2>2, <2>3 DEF StartThread
<1>2. CASE EnterLoop BY <1>2 DEF EnterLoop
<1>3. CASE LoopTest BY <1>3 DEF LoopTest
<1>4. CASE EndDispatch BY <1>4 DEF EndDispatch
<1>5. CASE AddTask BY <1>5 DEF AddTask
<1>6. CASE PushLock BY <1>6 DEF PushLock
<1>7. CASE PushWait BY <1>7 DEF PushWait
<1>8. CASE PushTask BY <1>8 DEF PushTask
<1>9. CASE PushNotify BY <1>9 DEF PushNotify, NotEmptyWaiters
<1> QED BY <1>1, <1>2, <1>3, <1>4, <1>5, <1>6, <1>7, <1>8, <1>9 DEF LoopStep

LEMMA TypeWorker ==
  ASSUME TypeOK, PopFindsTask, NEW w \in Workers, WorkerStep(w)
  PROVE  TypeOK'
<1> USE PoolAssumption DEF TypeOK, LoopStates, WorkerStates, queVars, poolVars, histVars
<1>1. CASE WorkerTest(w) BY <1>1 DEF WorkerTest
<1>2. CASE PopLock(w) BY <1>2 DEF PopLock
<1>3. CASE PopTest(w) BY <1>3 DEF PopTest
<1>4. CASE PopSleep(w) BY <1>4 DEF PopSleep
<1>5. CASE PopTake(w)
  <2>1. que # <<>>
    BY <1>5 DEF PopTake, PopFindsTask
  <2>2. Head(que) \in Nat /\ Tail(que) \in Seq(Nat)
    BY <2>1
  <2> QED BY <1>5, <2>2 DEF PopTake
<1>6. CASE PopNull(w) BY <1>6 DEF PopNull
<1>7. CASE PopNotify(w) BY <1>7 DEF PopNotify
<1>8. CASE RunTask(w) BY <1>8 DEF RunTask
<1> QED BY <1>1, <1>2, <1>3, <1>4, <1>5, <1>6, <1>7, <1>8 DEF WorkerStep

LEMMA TypeStop == TypeOK /\ (SpuriousWakeup \/ StopServer \/ StopStep) => TypeOK'
<1> SUFFICES ASSUME TypeOK, SpuriousWakeup \/ StopServer \/ StopStep PROVE TypeOK'
  OBVIOUS
<1> USE PoolAssumption DEF TypeOK, LoopStates, WorkerStates, StopStates, queVars,
        poolVars, histVars, NotEmptyWaiters
<1>1. CASE SpuriousWakeup BY <1>1, SMTT(30) DEF SpuriousWakeup
<1>2. CASE StopServer BY <1>2 DEF StopServer
<1>3. CASE StopPoll BY <1>3 DEF StopPoll
<1>4. CASE StopSetExit BY <1>4 DEF StopSetExit
<1>5. CASE WakeupClearFlag BY <1>5 DEF WakeupClearFlag
<1>6. CASE WakeupNotifyAll BY <1>6 DEF WakeupNotifyAll
<1>7. CASE JoinThread BY <1>7 DEF JoinThread
<1>8. CASE StopReturn BY <1>8 DEF StopReturn
<1> QED BY <1>1, <1>2, <1>3, <1>4, <1>5, <1>6, <1>7, <1>8 DEF StopStep

LEMMA TypeStep == TypeOK /\ PopFindsTask /\ [Next]_vars => TypeOK'
<1> SUFFICES ASSUME TypeOK, PopFindsTask, [Next]_vars PROVE TypeOK'
  OBVIOUS
<1>1. CASE UNCHANGED vars
  BY <1>1 DEF TypeOK, vars, queVars, poolVars, histVars
<1>2. CASE Next
  BY <1>2, TypeLoop, TypeWorker, TypeStop DEF Next
<1> QED BY <1>1, <1>2

-----------------------------------------------------------------------------
LEMMA ThreadStep == TypeOK /\ ThreadInv /\ [Next]_vars => ThreadInv'
<1> SUFFICES ASSUME TypeOK, ThreadInv, [Next]_vars PROVE ThreadInv'
  OBVIOUS
<1> USE PoolAssumption DEF TypeOK, ThreadInv, queVars, poolVars, histVars
<1>1. CASE UNCHANGED vars BY <1>1 DEF vars
<1>2. CASE StartThread
  <2>1. started \in Workers /\ spc = "idle"
    BY <1>2 DEF StartThread
  <2>2. wpc[started] = "unborn" /\ started \notin running
    BY <2>1
  <2>3. UNCHANGED <<isExit, joinIdx, spc>> /\ started' = started + 1
    BY <1>2 DEF StartThread
  <2>4. CASE running' = running \union {started} /\ wpc' = [wpc EXCEPT ![started] = "test"]
    <3>1. ASSUME NEW w \in Workers, w # started
          PROVE  wpc'[w] = wpc[w] /\ (w \in running' <=> w \in running)
      BY <2>4, <3>1
    <3>2. wpc'[started] = "test" /\ started \in running'
      BY <2>1, <2>4
    <3>3. started >= joinIdx
      BY <2>1, <2>2
    <3> QED BY <2>1, <2>3, <3>1, <3>2, <3>3, SMTT(30)
  <2>5. CASE UNCHANGED <<running, wpc>> BY <2>1, <2>3, <2>5
  <2> QED BY <1>2, <2>4, <2>5 DEF StartThread
<1>3. CASE EnterLoop \/ LoopTest \/ EndDispatch \/ AddTask \/ PushLock \/ PushWait
            \/ PushTask
  BY <1>3 DEF EnterLoop, LoopTest, EndDispatch, AddTask, PushLock, PushWait, PushTask
<1>4. CASE PushNotify BY <1>4 DEF PushNotify, NotEmptyWaiters
<1>5. ASSUME NEW w \in Workers, WorkerStep(w) PROVE ThreadInv'
  <2>1. CASE WorkerTest(w) BY <2>1 DEF WorkerTest
  <2>2. CASE PopLock(w) BY <2>2 DEF PopLock
  <2>3. CASE PopTest(w) BY <2>3 DEF PopTest
  <2>4. CASE PopSleep(w) BY <2>4 DEF PopSleep
  <2>5. CASE PopTake(w) BY <2>5 DEF PopTake
  <2>6. CASE PopNull(w) BY <2>6 DEF PopNull
  <2>7. CASE PopNotify(w) BY <2>7 DEF PopNotify
  <2>8. CASE RunTask(w) BY <2>8 DEF RunTask
  <2> QED BY <1>5, <2>1, <2>2, <2>3, <2>4, <2>5, <2>6, <2>7, <2>8 DEF WorkerStep
<1>6. CASE SpuriousWakeup BY <1>6 DEF SpuriousWakeup, NotEmptyWaiters
<1>7. CASE StopServer \/ StopPoll \/ StopSetExit \/ WakeupClearFlag \/ StopReturn
  BY <1>7 DEF StopServer, StopPoll, StopSetExit, WakeupClearFlag, StopReturn
<1>8. CASE WakeupNotifyAll BY <1>8 DEF WakeupNotifyAll, NotEmptyWaiters
<1>9. CASE JoinThread
  <2>1. joinIdx \in Workers /\ wpc[joinIdx] \in {"unborn", "exited"}
    BY <1>9 DEF JoinThread
  <2> QED BY <1>9, <2>1 DEF JoinThread
<1> QED BY <1>1, <1>2, <1>3, <1>4, <1>5, <1>6, <1>7, <1>8, <1>9
        DEF Next, LoopStep, StopStep

-----------------------------------------------------------------------------
LEMMA MutexStep == TypeOK /\ ThreadInv /\ MutexInv /\ [Next]_vars => MutexInv'
<1> SUFFICES ASSUME TypeOK, ThreadInv, MutexInv, [Next]_vars PROVE MutexInv'
  OBVIOUS
<1> USE PoolAssumption DEF TypeOK, MutexInv, LoopHolds, WorkerHolds, queVars,
        poolVars, histVars
<1>1. CASE UNCHANGED vars BY <1>1 DEF vars
<1>2. CASE StartThread
  <2>1. started \in Workers /\ wpc[started] = "unborn"
    BY <1>2 DEF StartThread, ThreadInv
  <2> QED BY <1>2, <2>1 DEF StartThread
<1>3. CASE EnterLoop BY <1>3 DEF EnterLoop
<1>4. CASE LoopTest BY <1>4 DEF LoopTest
<1>5. CASE EndDispatch BY <1>5 DEF EndDispatch
<1>6. CASE AddTask BY <1>6 DEF AddTask
<1>7. CASE PushLock BY <1>7 DEF PushLock
<1>8. CASE PushWait BY <1>8 DEF PushWait
<1>9. CASE PushTask BY <1>9 DEF PushTask
<1>10. CASE PushNotify BY <1>10 DEF PushNotify, NotEmptyWaiters
<1>11. ASSUME NEW w \in Workers, WorkerStep(w) PROVE MutexInv'
  <2>1. CASE WorkerTest(w) BY <2>1 DEF WorkerTest
  <2>2. CASE PopLock(w) BY <2>2 DEF PopLock
  <2>3. CASE PopTest(w) BY <2>3 DEF PopTest
  <2>4. CASE PopSleep(w) BY <2>4 DEF PopSleep
  <2>5. CASE PopTake(w) BY <2>5 DEF PopTake
  <2>6. CASE PopNull(w) BY <2>6 DEF PopNull
  <2>7. CASE PopNotify(w) BY <2>7 DEF PopNotify
  <2>8. CASE RunTask(w) BY <2>8 DEF RunTask
  <2> QED BY <1>11, <2>1, <2>2, <2>3, <2>4, <2>5, <2>6, <2>7, <2>8 DEF WorkerStep
<1>12. CASE SpuriousWakeup BY <1>12 DEF SpuriousWakeup, NotEmptyWaiters
<1>13. CASE StopServer \/ StopPoll \/ StopSetExit \/ WakeupClearFlag \/ JoinThread
            \/ StopReturn
  BY <1>13 DEF StopServer, StopPoll, StopSetExit, WakeupClearFlag, JoinThread, StopReturn
<1>14. CASE WakeupNotifyAll BY <1>14 DEF WakeupNotifyAll, NotEmptyWaiters
<1> QED BY <1>1, <1>2, <1>3, <1>4, <1>5, <1>6, <1>7, <1>8, <1>9, <1>10, <1>11,
           <1>12, <1>13, <1>14 DEF Next, LoopStep, StopStep

LEMMA TestStep == Core /\ [Next]_vars => TestInv'
<1> SUFFICES ASSUME Core, [Next]_vars PROVE TestInv'
  OBVIOUS
<1> USE PoolAssumption DEF Core, TypeOK, TestInv, PopFindsTask, queVars, poolVars, histVars
<1>1. CASE UNCHANGED vars BY <1>1 DEF vars
<1>2. CASE StartThread BY <1>2 DEF StartThread
<1>3. CASE EnterLoop \/ LoopTest \/ EndDispatch \/ AddTask \/ PushLock \/ PushWait
  BY <1>3 DEF EnterLoop, LoopTest, EndDispatch, AddTask, PushLock, PushWait
<1>4. CASE PushTask
  <2>1. \A w \in Workers : wpc[w] # "pop_sleep"
    BY <1>4 DEF PushTask, MutexInv, LoopHolds, WorkerHolds
  <2>2. que' # <<>>
    BY <1>4 DEF PushTask
  <2> QED BY <1>4, <2>1, <2>2 DEF PushTask
<1>5. CASE PushNotify BY <1>5 DEF PushNotify, NotEmptyWaiters
<1>6. ASSUME NEW w \in Workers, WorkerStep(w) PROVE TestInv'
  <2>1. CASE WorkerTest(w) BY <2>1 DEF WorkerTest
  <2>2. CASE PopLock(w) BY <2>2 DEF PopLock
  <2>3. CASE PopTest(w) BY <2>3 DEF PopTest, empty
  <2>4. CASE PopSleep(w) BY <2>4 DEF PopSleep
  <2>5. CASE PopTake(w)
    <3>1. \A v \in Workers \ {w} : wpc[v] \notin {"pop_sleep", "pop_take"}
      BY <2>5 DEF PopTake, MutexInv, WorkerHolds
    <3> QED BY <2>5, <3>1 DEF PopTake
  <2>6. CASE PopNull(w) BY <2>6 DEF PopNull
  <2>7. CASE PopNotify(w) BY <2>7 DEF PopNotify
  <2>8. CASE RunTask(w) BY <2>8 DEF RunTask
  <2> QED BY <1>6, <2>1, <2>2, <2>3, <2>4, <2>5, <2>6, <2>7, <2>8 DEF WorkerStep
<1>7. CASE SpuriousWakeup BY <1>7 DEF SpuriousWakeup, NotEmptyWaiters
<1>8. CASE StopServer \/ StopPoll \/ StopSetExit \/ WakeupClearFlag \/ JoinThread
            \/ StopReturn
  BY <1>8 DEF StopServer, StopPoll, StopSetExit, WakeupClearFlag, JoinThread, StopReturn
<1>9. CASE WakeupNotifyAll BY <1>9 DEF WakeupNotifyAll, NotEmptyWaiters
<1> QED BY <1>1, <1>2, <1>3, <1>4, <1>5, <1>6, <1>7, <1>8, <1>9
        DEF Next, LoopStep, StopStep

LEMMA CoreInit == Init => Core
  BY TypeInit DEF Core, Init, MutexInv, TestInv, PopFindsTask, ThreadInv,
       LoopHolds, WorkerHolds

LEMMA CoreStep == Core /\ [Next]_vars => Core'
  BY TypeStep, ThreadStep, MutexStep, TestStep DEF Core, TestInv

LEMMA CoreInvariant == Spec => []Core
  BY CoreInit, CoreStep, PTL DEF Spec

\* The state of the pool keeps its type.
THEOREM TypeCorrect == Spec => []TypeOK
<1>1. Core => TypeOK
  BY DEF Core
<1> QED BY <1>1, CoreInvariant, PTL

\* Although _flag is written and read without the mutex, pop never takes the
\* front of an empty queue.
THEOREM PopIsSafe == Spec => []PopFindsTask
<1>1. Core => PopFindsTask
  BY DEF Core, TestInv
<1> QED BY <1>1, CoreInvariant, PTL

-----------------------------------------------------------------------------
(***************************************************************************)
(* No task is lost, duplicated or reordered.                                *)
(***************************************************************************)

\* The tasks t+1, t+2, ..., p in order.
Window(t, p) == [i \in 1 .. (p - t) |-> t + i]

LEMMA WindowAppend ==
  ASSUME NEW t \in Nat, NEW p \in Nat, t <= p
  PROVE  /\ Window(t, p) \in Seq(Nat)
         /\ Len(Window(t, p)) = p - t
         /\ Append(Window(t, p), p + 1) = Window(t, p + 1)
<1>1. Window(t, p) \in Seq(Nat) /\ Len(Window(t, p)) = p - t
  BY DEF Window
<1>2. Window(t, p + 1) \in Seq(Nat) /\ Len(Window(t, p + 1)) = p + 1 - t
  BY DEF Window
<1> DEFINE a == Append(Window(t, p), p + 1)
<1>3. a \in Seq(Nat) /\ Len(a) = p - t + 1
  BY <1>1, AppendProperties
<1>4. \A i \in 1 .. Len(a) : a[i] = Window(t, p + 1)[i]
  BY <1>1, <1>3, AppendProperties DEF Window
<1>5. Len(a) = Len(Window(t, p + 1))
  BY <1>2, <1>3
<1> HIDE DEF a
<1>6. a = Window(t, p + 1)
  BY <1>2, <1>3, <1>4, <1>5, SeqEqual
<1> QED BY <1>1, <1>6 DEF a

LEMMA WindowTail ==
  ASSUME NEW t \in Nat, NEW p \in Nat, t < p
  PROVE  /\ Window(t, p) # <<>>
         /\ Head(Window(t, p)) = t + 1
         /\ Tail(Window(t, p)) = Window(t + 1, p)
<1>1. Window(t, p) \in Seq(Nat) /\ Len(Window(t, p)) = p - t
  BY DEF Window
<1>2. Window(t, p) # <<>> /\ Head(Window(t, p)) = t + 1
  BY <1>1, EmptySeq, HeadTailProperties DEF Window
<1>3. Window(t + 1, p) \in Seq(Nat) /\ Len(Window(t + 1, p)) = p - (t + 1)
  BY DEF Window
<1> DEFINE r == Tail(Window(t, p))
<1>4. r \in Seq(Nat) /\ Len(r) = p - t - 1
  BY <1>1, <1>2, HeadTailProperties
<1>5. \A i \in 1 .. Len(r) : r[i] = Window(t + 1, p)[i]
  BY <1>1, <1>2, <1>4, HeadTailProperties DEF Window
<1>6. Len(r) = Len(Window(t + 1, p))
  BY <1>3, <1>4
<1> HIDE DEF r
<1>7. r = Window(t + 1, p)
  BY <1>3, <1>4, <1>5, <1>6, SeqEqual
<1> QED BY <1>2, <1>7 DEF r

\* The queue is a window on the tasks; a worker holds a task exactly between
\* PopTake and RunTask.
WindowInv ==
  /\ taken <= pushed
  /\ que = Window(taken, pushed)
  /\ Len(que) <= QueSize

HoldInv ==
  /\ \A w \in Workers :
        /\ cur[w] # 0 <=> wpc[w] \in {"pop_notify", "run"}
        /\ cur[w] <= taken
        /\ cur[w] # 0 => cur[w] \notin executed
  /\ \A v, w \in Workers : cur[v] # 0 /\ cur[v] = cur[w] => v = w
  /\ executed \subseteq 1 .. taken
  /\ \A i \in 1 .. taken : i \in executed \/ \E w \in Workers : cur[w] = i

LEMMA PopTakeHead ==
  ASSUME Core, WindowInv, NEW w \in Workers, PopTake(w)
  PROVE  /\ taken < pushed
         /\ taken' = taken + 1
         /\ cur' = [cur EXCEPT ![w] = taken + 1]
         /\ que' = Window(taken + 1, pushed)
         /\ Len(que') = Len(que) - 1
<1>1. que # <<>>
  BY DEF PopTake, Core, TestInv, PopFindsTask
<1>2. taken < pushed
  <2>1. SUFFICES ASSUME taken = pushed PROVE FALSE
    BY DEF WindowInv, Core, TypeOK
  <2>2. que \in Seq(Nat) /\ Len(que) = 0
    <3>1. que \in Seq(Nat) /\ taken \in Nat /\ pushed \in Nat /\ taken <= pushed
      BY <2>1 DEF Core, TypeOK
    <3>2. Len(Window(taken, pushed)) = pushed - taken
      BY <3>1, WindowAppend
    <3> QED BY <2>1, <3>1, <3>2 DEF WindowInv
  <2> QED BY <1>1, <2>2, EmptySeq
<1>3. Head(que) = taken + 1 /\ Tail(que) = Window(taken + 1, pushed)
  BY <1>2, WindowTail DEF WindowInv, Core, TypeOK
<1>4. Len(Tail(que)) = Len(que) - 1
  BY <1>1 DEF Core, TypeOK
<1> QED BY <1>2, <1>3, <1>4 DEF PopTake

LEMMA WindowStep == Core /\ WindowInv /\ [Next]_vars => WindowInv'
<1> SUFFICES ASSUME Core, WindowInv, [Next]_vars PROVE WindowInv'
  OBVIOUS
<1> USE PoolAssumption DEF WindowInv
<1>1. CASE UNCHANGED <<que, pushed, taken>> BY <1>1
<1>2. CASE PushTask
  <2>1. que' = Window(taken', pushed') /\ taken' <= pushed'
    <3>1. taken \in Nat /\ pushed \in Nat /\ taken <= pushed
      BY DEF Core, TypeOK
    <3>2. Append(Window(taken, pushed), pushed + 1) = Window(taken, pushed + 1)
      BY <3>1, WindowAppend
    <3> QED BY <1>2, <3>1, <3>2 DEF PushTask
  <2>2. Len(que) \in Nat /\ Len(que') = Len(que) + 1
    BY <1>2 DEF PushTask, Core, TypeOK
  <2>3. Len(que) < QueSize
    BY <1>2, <2>2 DEF PushTask, full
  <2> QED BY <2>1, <2>2, <2>3
<1>3. ASSUME NEW w \in Workers, PopTake(w) PROVE WindowInv'
  <2>1. UNCHANGED pushed
    BY <1>3 DEF PopTake
  <2> QED BY <1>3, <2>1, PopTakeHead DEF Core, TypeOK
<1>4. \/ UNCHANGED <<que, pushed, taken>>
      \/ PushTask
      \/ \E w \in Workers : PopTake(w)
  BY DEF Next, LoopStep, WorkerStep, StopStep, vars, queVars, histVars, StartThread,
     EnterLoop, LoopTest, EndDispatch, AddTask, PushLock, PushWait, PushNotify,
     WorkerTest, PopLock, PopTest, PopSleep, PopNull, PopNotify, RunTask,
     SpuriousWakeup, StopServer, StopPoll, StopSetExit, WakeupClearFlag,
     WakeupNotifyAll, JoinThread, StopReturn
<1> QED BY <1>1, <1>2, <1>3, <1>4

LEMMA HoldStep == Core /\ WindowInv /\ HoldInv /\ [Next]_vars => HoldInv'
<1> SUFFICES ASSUME Core, WindowInv, HoldInv, [Next]_vars PROVE HoldInv'
  OBVIOUS
<1> USE PoolAssumption DEF Core, TypeOK, HoldInv, queVars, poolVars, histVars
<1>1. CASE UNCHANGED vars BY <1>1 DEF vars
<1>2. CASE StartThread
  <2>1. started \in Workers /\ wpc[started] = "unborn"
    BY <1>2 DEF StartThread, ThreadInv
  <2> QED BY <1>2, <2>1 DEF StartThread
<1>3. CASE EnterLoop \/ LoopTest \/ EndDispatch \/ AddTask \/ PushLock \/ PushWait
            \/ PushTask
  BY <1>3 DEF EnterLoop, LoopTest, EndDispatch, AddTask, PushLock, PushWait, PushTask
<1>4. CASE PushNotify BY <1>4 DEF PushNotify, NotEmptyWaiters
<1>5. ASSUME NEW w \in Workers, WorkerStep(w) PROVE HoldInv'
  <2>1. CASE WorkerTest(w) BY <2>1 DEF WorkerTest
  <2>2. CASE PopLock(w) BY <2>2 DEF PopLock
  <2>3. CASE PopTest(w) BY <2>3 DEF PopTest
  <2>4. CASE PopSleep(w) BY <2>4 DEF PopSleep
  <2>5. CASE PopTake(w)
    <3>1. taken' = taken + 1 /\ cur' = [cur EXCEPT ![w] = taken + 1]
      BY <2>5, PopTakeHead
    <3>2. executed' = executed /\ wpc' = [wpc EXCEPT ![w] = "pop_notify"]
      BY <2>5 DEF PopTake
    <3>3. cur[w] = 0
      BY <2>5 DEF PopTake
    <3> QED BY <3>1, <3>2, <3>3
  <2>6. CASE PopNull(w) BY <2>6 DEF PopNull
  <2>7. CASE PopNotify(w) BY <2>7 DEF PopNotify
  <2>8. CASE RunTask(w)
    <3>1. cur[w] # 0 /\ cur[w] \in 1 .. taken
      BY <2>8 DEF RunTask
    <3>2. /\ executed' = executed \union {cur[w]} /\ taken' = taken
          /\ cur' = [cur EXCEPT ![w] = 0] /\ wpc' = [wpc EXCEPT ![w] = "test"]
      BY <2>8 DEF RunTask
    <3>3. ASSUME NEW i \in 1 .. taken
          PROVE  i \in executed' \/ \E v \in Workers : cur'[v] = i
      <4>1. CASE i \in executed \/ i = cur[w] BY <3>2, <4>1
      <4>2. ASSUME NEW v \in Workers, cur[v] = i, i # cur[w] PROVE cur'[v] = i
        BY <3>2, <4>2
      <4> QED BY <4>1, <4>2
    <3>4. \A v \in Workers : cur'[v] # 0 => v # w /\ cur'[v] = cur[v]
      BY <3>2
    <3>5. executed' \subseteq 1 .. taken
      BY <3>1, <3>2
    <3>6. ASSUME NEW v \in Workers
          PROVE  /\ cur'[v] # 0 <=> wpc'[v] \in {"pop_notify", "run"}
                 /\ cur'[v] <= taken
                 /\ cur'[v] # 0 => cur'[v] \notin executed'
      BY <3>1, <3>2, <3>4
    <3>7. \A u, v \in Workers : cur'[u] # 0 /\ cur'[u] = cur'[v] => u = v
      BY <3>4
    <3> QED BY <3>2, <3>3, <3>5, <3>6, <3>7
  <2> QED BY <1>5, <2>1, <2>2, <2>3, <2>4, <2>5, <2>6, <2>7, <2>8 DEF WorkerStep
<1>6. CASE SpuriousWakeup BY <1>6 DEF SpuriousWakeup, NotEmptyWaiters
<1>7. CASE StopServer \/ StopPoll \/ StopSetExit \/ WakeupClearFlag \/ JoinThread
            \/ StopReturn
  BY <1>7 DEF StopServer, StopPoll, StopSetExit, WakeupClearFlag, JoinThread, StopReturn
<1>8. CASE WakeupNotifyAll BY <1>8 DEF WakeupNotifyAll, NotEmptyWaiters
<1> QED BY <1>1, <1>2, <1>3, <1>4, <1>5, <1>6, <1>7, <1>8 DEF Next, LoopStep, StopStep

TaskInv == Core /\ WindowInv /\ HoldInv

LEMMA TaskInvariant == Spec => []TaskInv
<1>1. Init => TaskInv
  <2> SUFFICES ASSUME Init PROVE TaskInv
    OBVIOUS
  <2>1. que = Window(taken, pushed)
    BY DEF Init, Window
  <2>2. WindowInv
    BY <2>1, PoolAssumption DEF Init, WindowInv
  <2>3. HoldInv
    BY DEF Init, HoldInv
  <2> QED BY <2>2, <2>3, CoreInit DEF TaskInv
<1>2. TaskInv /\ [Next]_vars => TaskInv'
  BY CoreStep, WindowStep, HoldStep DEF TaskInv
<1> QED BY <1>1, <1>2, PTL DEF Spec

\* Whatever the interleaving of the event loop, the workers and stop, every
\* task pushed is in exactly one place, and the queue is in order of arrival.
THEOREM TasksConserved == Spec => []Conservation
<1>1. TaskInv => Conservation
  <2> SUFFICES ASSUME TaskInv PROVE Conservation
    OBVIOUS
  <2>1. que = [i \in 1 .. (pushed - taken) |-> taken + i]
    BY DEF TaskInv, WindowInv, Window
  <2>2. executed \union {cur[w] : w \in Workers} \subseteq 0 .. taken
    <3>1. \A w \in Workers : cur[w] \in 0 .. taken
      BY DEF TaskInv, Core, TypeOK, HoldInv
    <3>2. executed \subseteq 0 .. taken
      BY DEF TaskInv, Core, TypeOK, HoldInv
    <3> QED BY <3>1, <3>2
  <2> QED BY <2>1, <2>2 DEF TaskInv, HoldInv, Conservation
<1> QED BY <1>1, TaskInvariant, PTL

\* When stop has returned no thread of the pool is alive or holds a task.
THEOREM StopIsQuiet == Spec => []StoppedMeansQuiet
<1>1. TaskInv => StoppedMeansQuiet
  <2> SUFFICES ASSUME TaskInv, spc = "stopped", NEW w \in Workers
               PROVE  wpc[w] \in {"unborn", "exited"} /\ cur[w] = 0
    BY DEF StoppedMeansQuiet
  <2>1. wpc[w] \in {"unborn", "exited"}
    BY PoolAssumption DEF TaskInv, Core, ThreadInv
  <2> QED BY <2>1 DEF TaskInv, HoldInv
<1> QED BY <1>1, TaskInvariant, PTL

-----------------------------------------------------------------------------
(***************************************************************************)
(* Nobody sleeps on a condition that holds.                                 *)
(***************************************************************************)

LEMMA OverWorkStep == Core /\ NoSleepOverWork /\ [Next]_vars => NoSleepOverWork'
<1> SUFFICES ASSUME Core, NoSleepOverWork, [Next]_vars,
                    que' # <<>>, ~isExit', running' # {}, lpc' # "push_notify"
             PROVE  \E w \in running' : wpc'[w] # "pop_wait"
  BY DEF NoSleepOverWork
<1> USE PoolAssumption DEF Core, TypeOK, NoSleepOverWork, queVars, poolVars, histVars
<1>1. CASE UNCHANGED vars BY <1>1 DEF vars
<1>2. CASE StartThread BY <1>2 DEF StartThread
<1>3. CASE EnterLoop \/ LoopTest \/ EndDispatch \/ AddTask \/ PushLock \/ PushWait
            \/ PushTask
  <2>1. ~PushTask
    BY DEF PushTask
  <2>2. UNCHANGED <<que, isExit, running, wpc>> /\ lpc # "push_notify"
    BY <1>3, <2>1 DEF EnterLoop, LoopTest, EndDispatch, AddTask, PushLock, PushWait
  <2> QED BY <2>2
<1>4. CASE PushNotify
  <2>1. CASE NotEmptyWaiters = {}
    BY <1>4, <2>1 DEF PushNotify, NotEmptyWaiters
  <2>2. ASSUME NEW w \in NotEmptyWaiters, wpc' = [wpc EXCEPT ![w] = "pop_lock"]
        PROVE  \E v \in running' : wpc'[v] # "pop_wait"
    BY <1>4, <2>2 DEF PushNotify, NotEmptyWaiters, ThreadInv
  <2> QED BY <1>4, <2>1, <2>2 DEF PushNotify
<1>5. ASSUME NEW w \in Workers, WorkerStep(w)
      PROVE  \E v \in running' : wpc'[v] # "pop_wait"
  <2>1. w \in running' \/ wpc[w] = "exited"
    BY <1>5 DEF WorkerStep, WorkerTest, PopLock, PopTest, PopSleep, PopTake, PopNull,
       PopNotify, RunTask, ThreadInv
  <2>2. CASE PopSleep(w)
    BY <2>2 DEF PopSleep, TestInv
  <2>3. CASE ~PopSleep(w)
    <3>1. wpc[w] # "exited" /\ wpc'[w] # "pop_wait"
      BY <1>5, <2>3 DEF WorkerStep, WorkerTest, PopLock, PopTest, PopTake, PopNull,
         PopNotify, RunTask
    <3> QED BY <2>1, <3>1
  <2> QED BY <2>2, <2>3
<1>6. CASE SpuriousWakeup
  <2>1. \A w \in running : wpc[w] # "pop_wait" => wpc'[w] # "pop_wait"
    BY <1>6 DEF SpuriousWakeup, NotEmptyWaiters
  <2>2. lpc # "push_notify" /\ UNCHANGED <<que, isExit, running>>
    BY <1>6 DEF SpuriousWakeup
  <2> QED BY <2>1, <2>2
<1>7. CASE StopServer \/ StopPoll \/ StopSetExit \/ WakeupClearFlag \/ JoinThread
            \/ StopReturn \/ WakeupNotifyAll
  BY <1>7 DEF StopServer, StopPoll, StopSetExit, WakeupClearFlag, WakeupNotifyAll,
     JoinThread, StopReturn, ThreadInv
<1> QED BY <1>1, <1>2, <1>3, <1>4, <1>5, <1>6, <1>7 DEF Next, LoopStep, StopStep

\* Until the pool is told to exit, a queued task never finds all workers
\* asleep: TaskQueue::push and pop lose no wake-up, however many workers
\* there are and whichever of them a notify picks.
THEOREM NoLostTaskWakeup == Spec => []NoSleepOverWork
<1>1. Init => NoSleepOverWork
  BY DEF Init, NoSleepOverWork
<1> QED BY <1>1, OverWorkStep, CoreInvariant, PTL DEF Spec

LEMMA OverRoomStep == Core /\ NoSleepOverRoom /\ [Next]_vars => NoSleepOverRoom'
<1> SUFFICES ASSUME Core, NoSleepOverRoom, [Next]_vars, lpc' = "push_wait"
             PROVE  \/ Len(que') = QueSize
                    \/ \E w \in Workers : wpc'[w] = "pop_notify"
  BY DEF NoSleepOverRoom, full
<1> USE PoolAssumption DEF Core, TypeOK, NoSleepOverRoom, queVars, poolVars, histVars
<1>1. CASE UNCHANGED vars BY <1>1 DEF vars
<1>2. CASE StartThread BY <1>2 DEF StartThread
<1>3. CASE EnterLoop \/ LoopTest \/ EndDispatch \/ AddTask \/ PushLock \/ PushTask
            \/ PushNotify
  BY <1>3 DEF EnterLoop, LoopTest, EndDispatch, AddTask, PushLock, PushTask, PushNotify
<1>4. CASE PushWait BY <1>4 DEF PushWait, full
<1>5. ASSUME NEW w \in Workers, WorkerStep(w)
      PROVE  \/ Len(que') = QueSize
             \/ \E v \in Workers : wpc'[v] = "pop_notify"
  <2>1. CASE PopTake(w) BY <2>1 DEF PopTake
  <2>2. CASE PopNotify(w) BY <2>2 DEF PopNotify
  <2>3. CASE ~PopTake(w) /\ ~PopNotify(w)
    <3>1. que' = que /\ lpc' = lpc
      BY <1>5, <2>3 DEF WorkerStep, WorkerTest, PopLock, PopTest, PopSleep, PopNull,
         RunTask
    <3>2. \A v \in Workers : wpc[v] = "pop_notify" => wpc'[v] = "pop_notify"
      BY <1>5, <2>3 DEF WorkerStep, WorkerTest, PopLock, PopTest, PopSleep, PopNull,
         RunTask
    <3> QED BY <3>1, <3>2
  <2> QED BY <2>1, <2>2, <2>3
<1>6. CASE SpuriousWakeup BY <1>6 DEF SpuriousWakeup, NotEmptyWaiters
<1>7. CASE StopServer \/ StopPoll \/ StopSetExit \/ WakeupClearFlag \/ JoinThread
            \/ StopReturn
  BY <1>7 DEF StopServer, StopPoll, StopSetExit, WakeupClearFlag, JoinThread, StopReturn
<1>8. CASE WakeupNotifyAll BY <1>8 DEF WakeupNotifyAll, NotEmptyWaiters
<1> QED BY <1>1, <1>2, <1>3, <1>4, <1>5, <1>6, <1>7, <1>8 DEF Next, LoopStep, StopStep

\* The event loop sleeps in addTask only while the queue is full or its
\* wake-up is on the way.
THEOREM NoLostRoomWakeup == Spec => []NoSleepOverRoom
<1>1. Init => NoSleepOverRoom
  BY DEF Init, NoSleepOverRoom
<1> QED BY <1>1, OverRoomStep, CoreInvariant, PTL DEF Spec

-----------------------------------------------------------------------------
(***************************************************************************)
(* The queue with its locks implements the bounded buffer.                  *)
(***************************************************************************)

LEMMA BufferStep == TaskInv /\ [Next]_vars => [Buffer!Next]_(Buffer!vars)
<1> SUFFICES ASSUME TaskInv, [Next]_vars, ~UNCHANGED Buffer!vars
             PROVE  Buffer!Next
  OBVIOUS
<1>1. CASE PushTask
  <2>1. Len(que) # QueSize /\ Len(que) <= QueSize /\ Len(que) \in Nat
    BY <1>1 DEF PushTask, full, TaskInv, WindowInv, Core, TypeOK
  <2>2. Len(que) < QueSize
    BY <2>1, PoolAssumption
  <2> QED BY <1>1, <2>2 DEF PushTask, Buffer!Next, Buffer!Put
<1>2. ASSUME NEW w \in Workers, PopTake(w) PROVE Buffer!Next
  <2>1. que # <<>> /\ UNCHANGED pushed
    BY <1>2 DEF PopTake, TaskInv, Core, TestInv, PopFindsTask
  <2>2. taken' = taken + 1 /\ taken' = Head(que) /\ que' = Tail(que)
    BY <1>2, PopTakeHead DEF PopTake, TaskInv
  <2> QED BY <2>1, <2>2 DEF Buffer!Next, Buffer!Get
<1>3. \/ UNCHANGED <<que, pushed, taken>>
      \/ PushTask
      \/ \E w \in Workers : PopTake(w)
  BY DEF Next, LoopStep, WorkerStep, StopStep, vars, queVars, histVars, StartThread,
     EnterLoop, LoopTest, EndDispatch, AddTask, PushLock, PushWait, PushNotify,
     WorkerTest, PopLock, PopTest, PopSleep, PopNull, PopNotify, RunTask,
     SpuriousWakeup, StopServer, StopPoll, StopSetExit, WakeupClearFlag,
     WakeupNotifyAll, JoinThread, StopReturn
<1> QED BY <1>1, <1>2, <1>3 DEF Buffer!vars

\* The task queue is a first-in first-out buffer of at most _queSize tasks,
\* each delivered once, whichever threads push and pop and whenever stop is called.
THEOREM QueueRefinesBuffer == Spec => ImplementsBuffer
<1>1. Init => Buffer!Init
  BY DEF Init, Buffer!Init
<1> QED BY <1>1, BufferStep, TaskInvariant, PTL DEF Spec, ImplementsBuffer, Buffer!Spec
=============================================================================
