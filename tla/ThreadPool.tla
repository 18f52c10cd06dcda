----------------------------- MODULE ThreadPool -----------------------------
(***************************************************************************)
(* The worker pool of the search server (ThreadPool, Thread) and the task   *)
(* queue it shares with the event loop (TaskQueue, Condition, MutexLock),   *)
(* at the grain of pthread calls and of the reads and writes that are made  *)
(* outside the mutex.                                                       *)
(*                                                                          *)
(* Three kinds of threads act.  The thread that runs the event loop starts  *)
(* the workers, then adds one task per message it dispatches; each worker   *)
(* pops tasks and runs them; and some other thread may call                 *)
(* SearchServer::stop, which touches the queue without taking its mutex.    *)
(***************************************************************************)
EXTENDS Integers, Sequences

CONSTANTS
  ThreadNum,      \* THREAD_POOL_SIZE
  QueSize,        \* TASK_QUEUE_SIZE
  CreateCanFail,  \* whether pthread_create may fail
  CanStop,        \* whether SearchServer::stop is ever called
  MaxTasks,       \* bound: tasks the event loop adds
  MaxSpurious     \* bound: spurious returns of pthread_cond_wait

ASSUME PoolAssumption ==
  /\ ThreadNum \in Nat
  /\ QueSize \in Nat \ {0}
  /\ CreateCanFail \in BOOLEAN
  /\ CanStop \in BOOLEAN
  /\ MaxTasks \in Nat
  /\ MaxSpurious \in Nat

Workers == 0 .. (ThreadNum - 1)     \* thread ids; threadID in Thread.cc
Loop == -1                          \* the thread of the event loop
Nobody == -2                        \* the owner of a free mutex

VARIABLES
  que,          \* TaskQueue::_que, task numbers, oldest first
  flag,         \* TaskQueue::_flag
  mutex,        \* owner of TaskQueue::_mutex
  isExit,       \* ThreadPool::_isExit
  isLooping,    \* EventLoop::_isLooping
  started,      \* index of the loop over _threads in ThreadPool::start
  running,      \* the threads whose _isRunning is set
  joinIdx,      \* index of the loop over _threads in ThreadPool::stop
  lpc,          \* where the event loop's thread is
  wpc,          \* where each worker is
  spc,          \* where the caller of stop is
  cur,          \* the task a worker holds (taskcb), 0 for none
  pushed,       \* history: number of the last task pushed
  taken,        \* history: number of the last task popped
  executed,     \* history: the tasks that were run to their end
  spurious      \* the number of spurious wake-ups so far

queVars == <<que, flag, mutex>>
poolVars == <<isExit, started, running, joinIdx>>
histVars == <<pushed, taken, executed, spurious>>
vars == <<queVars, poolVars, isLooping, lpc, wpc, spc, cur, histVars>>

LoopStates == {"create", "loop", "dispatch", "push_lock", "push_test",
               "push_wait", "push_notify", "returned"}
WorkerStates == {"unborn", "test", "pop_lock", "pop_test", "pop_sleep",
                 "pop_wait", "pop_take", "pop_notify", "run", "exited"}
StopStates == {"idle", "poll", "set_exit", "clear_flag", "broadcast",
               "join", "stopped"}

\* The threads blocked in _notEmpty.wait(); the event loop is the only
\* thread that can block in _notFull.wait().
NotEmptyWaiters == {w \in Workers : wpc[w] = "pop_wait"}

(***************************************************************************)
(* Faulty variants of definitions below, each a bug this code could have.   *)
(* The specification never uses them; they show that a property can fail.   *)
(***************************************************************************)

\* full() compares the wrong way round: one element too many gets in.
FullOffByOne == Len(que) > QueSize

\* start() hands out thread ids from 1.
StartThreadFromOne ==
  /\ lpc = "create"
  /\ started < ThreadNum
  /\ started' = started + 1
  /\ running' = running \union {started + 1}
  /\ wpc' = [wpc EXCEPT ![started] = "test"]
  /\ UNCHANGED <<queVars, isExit, joinIdx, isLooping, lpc, spc, cur, histVars>>

\* push forgets _notEmpty.notify().
PushSilently ==
  /\ lpc = "push_notify"
  /\ mutex' = Nobody
  /\ lpc' = "dispatch"
  /\ UNCHANGED <<que, flag, poolVars, isLooping, wpc, spc, cur, histVars>>

\* The while's condition with _flag negated.
PopTestNegated(w) ==
  /\ wpc[w] = "pop_test"
  /\ wpc' = [wpc EXCEPT ![w] = IF que = <<>> /\ ~flag THEN "pop_sleep"
                                                      ELSE "pop_take"]
  /\ UNCHANGED <<queVars, poolVars, isLooping, lpc, spc, cur, histVars>>

\* pop() takes the front element out before it tests _flag.
PopNullDrops(w) ==
  /\ wpc[w] = "pop_take"
  /\ ~flag
  /\ que' = IF que = <<>> THEN que ELSE Tail(que)
  /\ mutex' = Nobody
  /\ wpc' = [wpc EXCEPT ![w] = "test"]
  /\ UNCHANGED <<flag, poolVars, isLooping, lpc, spc, cur, histVars>>

\* pop forgets _notFull.notify().
PopQuietly(w) ==
  /\ wpc[w] = "pop_notify"
  /\ mutex' = Nobody
  /\ wpc' = [wpc EXCEPT ![w] = "run"]
  /\ UNCHANGED <<que, flag, poolVars, isLooping, lpc, spc, cur, histVars>>

\* doTask tests _isExit once more before it calls taskcb.
RunTaskUnlessExit(w) ==
  /\ wpc[w] = "run"
  /\ executed' = IF isExit THEN executed ELSE executed \union {cur[w]}
  /\ cur' = [cur EXCEPT ![w] = 0]
  /\ wpc' = [wpc EXCEPT ![w] = "test"]
  /\ UNCHANGED <<queVars, poolVars, isLooping, lpc, spc, pushed, taken,
                 spurious>>

\* stop() detaches the threads instead of joining them.
DetachThread ==
  /\ spc = "join"
  /\ joinIdx < ThreadNum
  /\ running' = running \ {joinIdx}
  /\ joinIdx' = joinIdx + 1
  /\ UNCHANGED <<queVars, isExit, started, isLooping, lpc, wpc, spc, cur,
                 histVars>>

-----------------------------------------------------------------------------
empty == que = <<>>
full == Len(que) = QueSize

Init ==
  /\ que = <<>>
  /\ flag = TRUE
  /\ mutex = Nobody
  /\ isExit = FALSE
  /\ isLooping = FALSE
  /\ started = 0
  /\ running = {}
  /\ joinIdx = 0
  /\ lpc = "create"
  /\ wpc = [w \in Workers |-> "unborn"]
  /\ spc = "idle"
  /\ cur = [w \in Workers |-> 0]
  /\ pushed = 0
  /\ taken = 0
  /\ executed = {}
  /\ spurious = 0

(***************************************************************************)
(* The event loop's thread.                                                 *)
(***************************************************************************)

\* ThreadPool::start runs the threads one after the other; where
\* pthread_create fails the Thread stays with _isRunning false.
StartThread ==
  /\ lpc = "create"
  /\ started < ThreadNum
  /\ started' = started + 1
  /\ \/ /\ running' = running \union {started}
        /\ wpc' = [wpc EXCEPT ![started] = "test"]
     \/ /\ CreateCanFail
        /\ UNCHANGED <<running, wpc>>
  /\ UNCHANGED <<queVars, isExit, joinIdx, isLooping, lpc, spc, cur, histVars>>

\* EventLoop::loop sets _isLooping, whatever unloop did before.
EnterLoop ==
  /\ lpc = "create"
  /\ started = ThreadNum
  /\ isLooping' = TRUE
  /\ lpc' = "loop"
  /\ UNCHANGED <<queVars, poolVars, wpc, spc, cur, histVars>>

LoopTest ==
  /\ lpc = "loop"
  /\ lpc' = IF isLooping THEN "dispatch" ELSE "returned"
  /\ UNCHANGED <<queVars, poolVars, isLooping, wpc, spc, cur, histVars>>

\* The events of one epoll_wait are all handled: back to the loop's test.
EndDispatch ==
  /\ lpc = "dispatch"
  /\ lpc' = "loop"
  /\ UNCHANGED <<queVars, poolVars, isLooping, wpc, spc, cur, histVars>>

\* A message arrived: SearchServer::onMessage calls ThreadPool::addTask.
AddTask ==
  /\ lpc = "dispatch"
  /\ pushed < MaxTasks
  /\ lpc' = "push_lock"
  /\ UNCHANGED <<queVars, poolVars, isLooping, wpc, spc, cur, histVars>>

PushLock ==
  /\ lpc = "push_lock"
  /\ mutex = Nobody
  /\ mutex' = Loop
  /\ lpc' = "push_test"
  /\ UNCHANGED <<que, flag, poolVars, isLooping, wpc, spc, cur, histVars>>

\* full(): pthread_cond_wait releases the mutex and sleeps on _notFull.
PushWait ==
  /\ lpc = "push_test"
  /\ full
  /\ mutex' = Nobody
  /\ lpc' = "push_wait"
  /\ UNCHANGED <<que, flag, poolVars, isLooping, wpc, spc, cur, histVars>>

PushTask ==
  /\ lpc = "push_test"
  /\ ~full
  /\ que' = Append(que, pushed + 1)
  /\ pushed' = pushed + 1
  /\ lpc' = "push_notify"
  /\ UNCHANGED <<flag, mutex, poolVars, isLooping, wpc, spc, cur, taken,
                 executed, spurious>>

\* pthread_cond_signal wakes one waiter, if there is one; which one is not
\* said.  The guard's destructor then releases the mutex.
PushNotify ==
  /\ lpc = "push_notify"
  /\ \/ /\ NotEmptyWaiters = {}
        /\ UNCHANGED wpc
     \/ \E w \in NotEmptyWaiters : wpc' = [wpc EXCEPT ![w] = "pop_lock"]
  /\ mutex' = Nobody
  /\ lpc' = "dispatch"
  /\ UNCHANGED <<que, flag, poolVars, isLooping, spc, cur, histVars>>

(***************************************************************************)
(* A worker: ThreadPool::doTask around TaskQueue::pop.                      *)
(***************************************************************************)

WorkerTest(w) ==
  /\ wpc[w] = "test"
  /\ wpc' = [wpc EXCEPT ![w] = IF isExit THEN "exited" ELSE "pop_lock"]
  /\ UNCHANGED <<queVars, poolVars, isLooping, lpc, spc, cur, histVars>>

\* Taking the mutex, on entry to pop and again when a wait returns.
PopLock(w) ==
  /\ wpc[w] = "pop_lock"
  /\ mutex = Nobody
  /\ mutex' = w
  /\ wpc' = [wpc EXCEPT ![w] = "pop_test"]
  /\ UNCHANGED <<que, flag, poolVars, isLooping, lpc, spc, cur, histVars>>

\* The while's condition.  _flag is written without the mutex, so it may
\* change between this read and either of the two steps that follow.
PopTest(w) ==
  /\ wpc[w] = "pop_test"
  /\ wpc' = [wpc EXCEPT ![w] = IF empty /\ flag THEN "pop_sleep"
                                                ELSE "pop_take"]
  /\ UNCHANGED <<queVars, poolVars, isLooping, lpc, spc, cur, histVars>>

PopSleep(w) ==
  /\ wpc[w] = "pop_sleep"
  /\ mutex' = Nobody
  /\ wpc' = [wpc EXCEPT ![w] = "pop_wait"]
  /\ UNCHANGED <<que, flag, poolVars, isLooping, lpc, spc, cur, histVars>>

\* front() and pop() of the queue, under the second test of _flag.
PopTake(w) ==
  /\ wpc[w] = "pop_take"
  /\ flag
  /\ cur' = [cur EXCEPT ![w] = Head(que)]
  /\ que' = Tail(que)
  /\ taken' = Head(que)
  /\ wpc' = [wpc EXCEPT ![w] = "pop_notify"]
  /\ UNCHANGED <<flag, mutex, poolVars, isLooping, lpc, spc, pushed,
                 executed, spurious>>

\* pop returns nullptr, and doTask prints a line and tests _isExit again.
PopNull(w) ==
  /\ wpc[w] = "pop_take"
  /\ ~flag
  /\ mutex' = Nobody
  /\ wpc' = [wpc EXCEPT ![w] = "test"]
  /\ UNCHANGED <<que, flag, poolVars, isLooping, lpc, spc, cur, histVars>>

\* _notFull.notify() and the release of the mutex.
PopNotify(w) ==
  /\ wpc[w] = "pop_notify"
  /\ lpc' = IF lpc = "push_wait" THEN "push_lock" ELSE lpc
  /\ mutex' = Nobody
  /\ wpc' = [wpc EXCEPT ![w] = "run"]
  /\ UNCHANGED <<que, flag, poolVars, isLooping, spc, cur, histVars>>

RunTask(w) ==
  /\ wpc[w] = "run"
  /\ executed' = executed \union {cur[w]}
  /\ cur' = [cur EXCEPT ![w] = 0]
  /\ wpc' = [wpc EXCEPT ![w] = "test"]
  /\ UNCHANGED <<queVars, poolVars, isLooping, lpc, spc, pushed, taken,
                 spurious>>

(***************************************************************************)
(* pthread_cond_wait may return although nobody signalled.                  *)
(***************************************************************************)
SpuriousWakeup ==
  /\ spurious < MaxSpurious
  /\ spurious' = spurious + 1
  /\ \/ /\ lpc = "push_wait"
        /\ lpc' = "push_lock"
        /\ UNCHANGED wpc
     \/ /\ \E w \in NotEmptyWaiters : wpc' = [wpc EXCEPT ![w] = "pop_lock"]
        /\ UNCHANGED lpc
  /\ UNCHANGED <<queVars, poolVars, isLooping, spc, cur, pushed, taken,
                 executed>>

(***************************************************************************)
(* SearchServer::stop, called once, after SearchServer::start has started   *)
(* the pool.  TcpServer::stop only clears _isLooping: the loop may be in    *)
(* the middle of a round, or not yet in loop().                             *)
(***************************************************************************)
StopServer ==
  /\ CanStop
  /\ spc = "idle"
  /\ started = ThreadNum
  /\ isLooping' = FALSE
  /\ spc' = "poll"
  /\ UNCHANGED <<queVars, poolVars, lpc, wpc, cur, histVars>>

\* while (!_taskQue.empty()) sleep(1), without the mutex.
StopPoll ==
  /\ spc = "poll"
  /\ empty
  /\ spc' = "set_exit"
  /\ UNCHANGED <<queVars, poolVars, isLooping, lpc, wpc, cur, histVars>>

StopSetExit ==
  /\ spc = "set_exit"
  /\ isExit' = TRUE
  /\ spc' = "clear_flag"
  /\ UNCHANGED <<queVars, started, running, joinIdx, isLooping, lpc, wpc, cur,
                 histVars>>

\* TaskQueue::wakeup writes _flag and broadcasts without the mutex.
WakeupClearFlag ==
  /\ spc = "clear_flag"
  /\ flag' = FALSE
  /\ spc' = "broadcast"
  /\ UNCHANGED <<que, mutex, poolVars, isLooping, lpc, wpc, cur, histVars>>

WakeupNotifyAll ==
  /\ spc = "broadcast"
  /\ wpc' = [w \in Workers |->
               IF w \in NotEmptyWaiters THEN "pop_lock" ELSE wpc[w]]
  /\ spc' = "join"
  /\ UNCHANGED <<queVars, poolVars, isLooping, lpc, cur, histVars>>

\* Thread::stop of each thread in turn: pthread_join waits for its end.
JoinThread ==
  /\ spc = "join"
  /\ joinIdx < ThreadNum
  /\ joinIdx \in running => wpc[joinIdx] = "exited"
  /\ running' = running \ {joinIdx}
  /\ joinIdx' = joinIdx + 1
  /\ UNCHANGED <<queVars, isExit, started, isLooping, lpc, wpc, spc, cur,
                 histVars>>

StopReturn ==
  /\ spc = "join"
  /\ joinIdx = ThreadNum
  /\ spc' = "stopped"
  /\ UNCHANGED <<queVars, poolVars, isLooping, lpc, wpc, cur, histVars>>

-----------------------------------------------------------------------------
LoopStep == \/ StartThread \/ EnterLoop \/ LoopTest \/ EndDispatch
            \/ PushLock \/ PushWait \/ PushTask \/ PushNotify

WorkerStep(w) == \/ WorkerTest(w) \/ PopLock(w) \/ PopTest(w) \/ PopSleep(w)
                 \/ PopTake(w) \/ PopNull(w) \/ PopNotify(w) \/ RunTask(w)

StopStep == \/ StopPoll \/ StopSetExit \/ WakeupClearFlag \/ WakeupNotifyAll
            \/ JoinThread \/ StopReturn

Next ==
  \/ LoopStep
  \/ AddTask
  \/ \E w \in Workers : WorkerStep(w)
  \/ SpuriousWakeup
  \/ StopServer
  \/ StopStep

Spec == Init /\ [][Next]_vars

\* Every thread that can move is scheduled eventually.  Messages (AddTask),
\* spurious wake-ups and the call of stop need never happen.
Fairness ==
  /\ WF_vars(LoopStep)
  /\ \A w \in Workers : WF_vars(WorkerStep(w))
  /\ WF_vars(StopStep)

FairSpec == Spec /\ Fairness

-----------------------------------------------------------------------------
TypeOK ==
  /\ que \in Seq(Nat)
  /\ flag \in BOOLEAN
  /\ mutex \in Workers \union {Loop, Nobody}
  /\ isExit \in BOOLEAN
  /\ isLooping \in BOOLEAN
  /\ started \in 0 .. ThreadNum
  /\ running \subseteq Workers
  /\ joinIdx \in 0 .. ThreadNum
  /\ lpc \in LoopStates
  /\ wpc \in [Workers -> WorkerStates]
  /\ spc \in StopStates
  /\ cur \in [Workers -> Nat]
  /\ pushed \in Nat
  /\ taken \in Nat
  /\ executed \subseteq Nat
  /\ spurious \in Nat

\* The threads inside a critical section of TaskQueue::push or pop.
LoopHolds == lpc \in {"push_test", "push_notify"}
WorkerHolds(w) == wpc[w] \in {"pop_test", "pop_sleep", "pop_take", "pop_notify"}

\* pop never calls front() on an empty queue, although it leaves its while
\* loop and tests _flag a second time with _flag written by another thread
\* in between (TaskQueue::pop against TaskQueue::wakeup).
PopFindsTask ==
  \A w \in Workers : wpc[w] = "pop_take" /\ flag => que # <<>>

\* Every task pushed is in exactly one place: still queued, in order of
\* arrival, held by exactly one worker, or run (TaskQueue::push, pop and
\* ThreadPool::doTask lose, duplicate and reorder nothing), with or without a stop.
Conservation ==
  /\ que = [i \in 1 .. (pushed - taken) |-> taken + i]
  /\ executed \union {cur[w] : w \in Workers} \subseteq 0 .. taken
  /\ \A i \in 1 .. taken :
        i \in executed \/ \E w \in Workers : cur[w] = i
  /\ \A w \in Workers :
        cur[w] # 0 =>
          /\ cur[w] \notin executed
          /\ \A v \in Workers : cur[v] = cur[w] => v = w

\* As long as the pool was not told to exit, a queued task never finds every
\* worker asleep in _notEmpty.wait(): the push's notify is still to come, or
\* some worker is on its way back to pop.
NoSleepOverWork ==
  que # <<>> /\ ~isExit /\ running # {} =>
    \/ lpc = "push_notify"
    \/ \E w \in running : wpc[w] # "pop_wait"

\* The event loop sleeps in _notFull.wait() only while the queue is full, or
\* while the worker that made room still has to notify it.
NoSleepOverRoom ==
  lpc = "push_wait" =>
    \/ Len(que) = QueSize
    \/ \E w \in Workers : wpc[w] = "pop_notify"

\* When ThreadPool::stop has returned, no thread it created is alive: none
\* will pop again or still runs a task.
StoppedMeansQuiet ==
  spc = "stopped" =>
    \A w \in Workers : wpc[w] \in {"unborn", "exited"} /\ cur[w] = 0

\* If any thread was created, every task the event loop pushed is run in the
\* end, unless the pool is told to exit; and a task that left the queue is run
\* even then, since doTask does not look at _isExit between pop and the call.
EveryTaskRuns ==
  \A i \in 1 .. MaxTasks :
    /\ (pushed >= i /\ running # {}) ~> (i \in executed \/ isExit)
    /\ (taken >= i) ~> (i \in executed)

\* The event loop never stays blocked in addTask: a full queue drains as long
\* as there is a worker and the pool was not told to exit.
PushReturns ==
  (lpc = "push_lock" /\ running # {}) ~> (lpc = "dispatch" \/ isExit)

\* TaskQueue implements the bounded buffer: never more than _queSize tasks,
\* delivered in order, each once, whichever thread pushes or pops.
Buffer == INSTANCE BoundedBuffer
            WITH Capacity <- QueSize, buf <- que, sent <- pushed, got <- taken

ImplementsBuffer == Buffer!Spec

(***************************************************************************)
(* What the comments of the source say of stop; the code does otherwise.    *)
(***************************************************************************)

\* ThreadPool::stop: as long as there are tasks in the queue the pool must
\* not exit.
NoTaskLeftBehind == spc = "stopped" => que = <<>>

\* ThreadPool::stop: all threads asleep on _notEmpty are woken and then all
\* workers exit, so the joins end.
StopReturns == (spc = "join") ~> (spc = "stopped")
=============================================================================
