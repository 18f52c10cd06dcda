------------------------------ MODULE Reactor ------------------------------
(***************************************************************************)
(* The event loop (EventLoop), the connections it serves (TcpConnection,    *)
(* Socket, SocketIO, Acceptor) and the way an answer comes back from a      *)
(* worker: runInLoop, wakeup, the eventfd and doPendingFunctors.            *)
(*                                                                          *)
(* Connections are numbered in the order in which the clients open them.    *)
(* A TcpConnection lives as long as a shared_ptr names it: the loop's map    *)
(* _conns, a task that is queued or being run, the call of addTask.  The     *)
(* functor that sends the answer names it by a bare pointer.  Both of its    *)
(* members _sock and _sockIO close the descriptor when it dies.             *)
(*                                                                          *)
(* The task queue is the bounded buffer that ThreadPool implements; the      *)
(* timer's cache update touches nothing here and is left out.               *)
(***************************************************************************)
EXTENDS Integers, Sequences, FiniteSets

CONSTANTS
  Workers,        \* the worker threads
  QueSize,        \* TASK_QUEUE_SIZE
  NumFds,         \* bound: descriptors the process may have for connections
  MaxConns,       \* bound: connections opened
  MaxReqs         \* bound: requests per connection

ASSUME ReactorAssumption ==
  /\ QueSize \in Nat \ {0}
  /\ NumFds \in Nat \ {0}
  /\ MaxConns \in Nat
  /\ MaxReqs \in Nat

Conns == 1 .. MaxConns
Fds == 1 .. NumFds
None == 0               \* no connection, or a free descriptor
Listen == -1            \* the event of the listening socket
Wakeup == -2            \* the event of _evtfd

VARIABLES
  \* the clients and the network
  peer,         \* what each client did: "none", "open", "closed"
  waiting,      \* the clients whose last request is not answered
  reqs,         \* the number of requests each client sent
  reset,        \* connections the client's kernel reset, not yet noticed
  eof,          \* the clients whose connection the server closed
  wrong,        \* history: the clients that received another's answer
  rude,         \* history: a client closed before its answer came
  backlog,      \* connections the kernel has not yet handed to accept
  inbox,        \* requests received by the kernel and not yet read
  \* the kernel's view of the process
  fdTable,      \* the connection a descriptor is open on
  inEpoll,      \* the connection descriptors registered with _epfd
  evtfd,        \* the counter of the eventfd
  \* the event loop
  lpc,          \* where the loop's thread is
  batch,        \* the events epoll_wait returned that are still to handle
  conns,        \* EventLoop::_conns
  tmp,          \* the functors swapped out by doPendingFunctors
  adding,       \* the task handed to addTask
  \* shared with the workers
  pendings,     \* EventLoop::_pengdings: connections to send an answer on
  taskQ,        \* the tasks in the task queue
  wpc,          \* where each worker is
  wtask,        \* the task each worker holds
  closing,      \* the descriptor a worker will close once more
  \* the connection objects
  conFd,        \* the descriptor a TcpConnection was created with
  destroyed     \* the TcpConnections that were deleted

clientVars == <<peer, waiting, reqs, wrong, rude>>
kernelVars == <<reset, eof, fdTable, inEpoll>>
loopVars == <<lpc, batch, conns, tmp, adding>>
workVars == <<taskQ, wpc, wtask, closing>>
objVars == <<conFd, destroyed>>
vars == <<clientVars, kernelVars, backlog, inbox, evtfd, loopVars, pendings,
          workVars, objVars>>

\* A task names a connection and the message read from it; a read from a
\* descriptor that is not open gives a message that is not a request.
NoTask == [con |-> None, msg |-> "none"]
Tasks == [con : Conns, msg : {"request", "garbage"}]

(***************************************************************************)
(* Faulty variants of definitions below, each a bug this code could have.   *)
(* The specification never uses them; they show that a property can fail.   *)
(***************************************************************************)

\* A callback is given a shared_ptr made from this instead of
\* shared_from_this(): a second owner that knows nothing of the map's.
HeldByNobodyElse(c) == FALSE

\* handleNewConnection ignores the -1 that accept returns.
AcceptUnchecked ==
  /\ lpc = "dispatch"
  /\ Listen \in batch
  /\ {f \in Fds : fdTable[f] = None} = {}
  /\ conFd' = [conFd EXCEPT ![Head(backlog)] = -1]
  /\ backlog' = Tail(backlog)
  /\ batch' = batch \ {Listen}
  /\ UNCHANGED <<clientVars, kernelVars, inbox, evtfd, lpc, conns, tmp, adding,
                 pendings, workVars, destroyed>>

\* _conns[fd] = con, which overwrites, instead of insert.
NewConnectionOverwrites ==
  /\ lpc = "dispatch"
  /\ Listen \in batch
  /\ LET free == {f \in Fds : fdTable[f] = None}
         c == Head(backlog)
     IN  \E f \in free :
           /\ \A g \in free : f <= g
           /\ conFd' = [conFd EXCEPT ![c] = f]
           /\ conns' = [conns EXCEPT ![f] = c]
           /\ fdTable' = [fdTable EXCEPT ![f] = c]
           /\ inEpoll' = inEpoll \union {f}
  /\ backlog' = Tail(backlog)
  /\ batch' = batch \ {Listen}
  /\ UNCHANGED <<clientVars, reset, eof, inbox, evtfd, lpc, tmp, adding,
                 pendings, workVars, destroyed>>

\* The eventfd is read once more when the functors were run.
FunctorsDoneDrains ==
  /\ lpc = "run"
  /\ tmp = <<>>
  /\ evtfd' = 0
  /\ lpc' = "dispatch"
  /\ UNCHANGED <<clientVars, kernelVars, backlog, inbox, batch, conns, tmp,
                 adding, pendings, workVars, objVars>>

\* handleMessage erases the entry and forgets delEpollReadFd.
HandleClosedKeepsEvent(f) ==
  /\ lpc = "dispatch"
  /\ f \in batch
  /\ conns[f] # None
  /\ fdTable[f] # None
  /\ inbox[fdTable[f]] = 0
  /\ peer[fdTable[f]] = "closed"
  /\ conns' = [conns EXCEPT ![f] = None]
  /\ batch' = batch \ {f}
  /\ UNCHANGED <<clientVars, kernelVars, backlog, inbox, evtfd, lpc, tmp,
                 adding, pendings, workVars, objVars>>

\* pop leaves one task in the queue.
TakeTaskButOne(w) ==
  /\ wpc[w] = "idle"
  /\ Len(taskQ) > 1
  /\ wtask' = [wtask EXCEPT ![w] = Head(taskQ)]
  /\ taskQ' = Tail(taskQ)
  /\ wpc' = [wpc EXCEPT ![w] = "work"]
  /\ UNCHANGED <<clientVars, kernelVars, backlog, inbox, evtfd, loopVars,
                 pendings, closing, objVars>>

\* runInLoop forgets wakeup().
WakeForgotten(w) ==
  /\ wpc[w] = "wakeup"
  /\ wpc' = [wpc EXCEPT ![w] = "release"]
  /\ UNCHANGED <<clientVars, kernelVars, backlog, inbox, evtfd, loopVars,
                 pendings, taskQ, wtask, closing, objVars>>

-----------------------------------------------------------------------------
Init ==
  /\ peer = [c \in Conns |-> "none"]
  /\ waiting = {}
  /\ reqs = [c \in Conns |-> 0]
  /\ reset = {}
  /\ eof = {}
  /\ wrong = {}
  /\ rude = FALSE
  /\ backlog = <<>>
  /\ inbox = [c \in Conns |-> 0]
  /\ fdTable = [f \in Fds |-> None]
  /\ inEpoll = {}
  /\ evtfd = 10
  /\ lpc = "wait"
  /\ batch = {}
  /\ conns = [f \in Fds |-> None]
  /\ tmp = <<>>
  /\ adding = NoTask
  /\ pendings = <<>>
  /\ taskQ = <<>>
  /\ wpc = [w \in Workers |-> "idle"]
  /\ wtask = [w \in Workers |-> NoTask]
  /\ closing = [w \in Workers |-> None]
  /\ conFd = [c \in Conns |-> None]
  /\ destroyed = {}

(***************************************************************************)
(* Operators.                                                               *)
(***************************************************************************)

\* Who holds a shared_ptr to a connection: _conns, the tasks that wait, and
\* the tasks that the workers of W hold.
HeldByMap(c) == \E f \in Fds : conns[f] = c
HeldByQueue(c) == adding.con = c \/ \E i \in 1 .. Len(taskQ) : taskQ[i].con = c
HeldByWorker(c, W) == \E w \in W : wtask[w].con = c
HeldByTask(c) == HeldByQueue(c) \/ HeldByWorker(c, Workers)

\* close(f): whatever the descriptor is open on is closed, epoll forgets it.
Close(f) ==
  /\ fdTable' = [fdTable EXCEPT ![f] = None]
  /\ inEpoll' = inEpoll \ {f}
  /\ eof' = IF fdTable[f] = None THEN eof ELSE eof \union {fdTable[f]}

Readable(f) ==
  /\ f \in inEpoll
  /\ inbox[fdTable[f]] > 0 \/ peer[fdTable[f]] = "closed"

Ready ==
  {f \in Fds : Readable(f)}
    \union (IF backlog # <<>> THEN {Listen} ELSE {})
    \union (IF evtfd > 0 THEN {Wakeup} ELSE {})

FreeFds == {f \in Fds : fdTable[f] = None}
IsLowestFree(f) == \A g \in FreeFds : f <= g

\* TcpConnection::isClosed: recv with MSG_PEEK returns 0.  It does not when
\* it fails, be it that the descriptor is closed or the connection was reset.
IsClosed(f) ==
  /\ fdTable[f] # None
  /\ inbox[fdTable[f]] = 0
  /\ peer[fdTable[f]] = "closed"
  /\ fdTable[f] \notin reset

\* ... and then receive reads nothing either.
NothingToRead(f) ==
  \/ fdTable[f] = None
  \/ fdTable[f] \in reset /\ inbox[fdTable[f]] = 0

\* The process dies, and every thread with it.
Killed ==
  /\ lpc' = "dead"
  /\ wpc' = [w \in Workers |-> "dead"]

(***************************************************************************)
(* The clients.                                                             *)
(***************************************************************************)

Connect(c) ==
  /\ peer[c] = "none"
  /\ \A d \in Conns : d < c => peer[d] # "none"
  /\ peer' = [peer EXCEPT ![c] = "open"]
  /\ backlog' = Append(backlog, c)
  /\ UNCHANGED <<waiting, reqs, wrong, rude, kernelVars, inbox, evtfd, loopVars,
                 pendings, workVars, objVars>>

\* The client sends one request and waits for its answer.
Request(c) ==
  /\ peer[c] = "open"
  /\ c \notin waiting \union eof
  /\ reqs[c] < MaxReqs
  /\ reqs' = [reqs EXCEPT ![c] = @ + 1]
  /\ waiting' = waiting \union {c}
  /\ inbox' = [inbox EXCEPT ![c] = @ + 1]
  /\ UNCHANGED <<peer, wrong, rude, kernelVars, backlog, evtfd, loopVars, pendings,
                 workVars, objVars>>

Hangup(c) ==
  /\ peer[c] = "open"
  /\ peer' = [peer EXCEPT ![c] = "closed"]
  /\ waiting' = waiting \ {c}
  /\ rude' = (rude \/ c \in waiting \ eof)
  /\ UNCHANGED <<reqs, wrong, kernelVars, backlog, inbox, evtfd, loopVars,
                 pendings, workVars, objVars>>

(***************************************************************************)
(* The event loop: waitEpollFd and the handlers it calls.                   *)
(***************************************************************************)

EpollWait ==
  /\ lpc = "wait"
  /\ Ready # {}
  /\ batch' = Ready
  /\ lpc' = "dispatch"
  /\ UNCHANGED <<clientVars, kernelVars, backlog, inbox, evtfd, conns, tmp,
                 adding, pendings, workVars, objVars>>

EndOfBatch ==
  /\ lpc = "dispatch"
  /\ batch = {}
  /\ lpc' = "wait"
  /\ UNCHANGED <<clientVars, kernelVars, backlog, inbox, evtfd, batch, conns,
                 tmp, adding, pendings, workVars, objVars>>

\* accept fails when the process has no free descriptor.
AcceptFails ==
  /\ lpc = "dispatch"
  /\ Listen \in batch
  /\ FreeFds = {}
  /\ batch' = batch \ {Listen}
  /\ UNCHANGED <<clientVars, kernelVars, backlog, inbox, evtfd, lpc, conns,
                 tmp, adding, pendings, workVars, objVars>>

\* map::insert keeps an entry that is already there; the new TcpConnection
\* is then deleted when the handler returns, which closes its descriptor.
HandleNewConnection ==
  /\ lpc = "dispatch"
  /\ Listen \in batch
  /\ \E f \in FreeFds :
       LET c == Head(backlog)
       IN  /\ IsLowestFree(f)
           /\ conFd' = [conFd EXCEPT ![c] = f]
           /\ \/ /\ conns[f] = None
                 /\ conns' = [conns EXCEPT ![f] = c]
                 /\ fdTable' = [fdTable EXCEPT ![f] = c]
                 /\ inEpoll' = inEpoll \union {f}
                 /\ UNCHANGED <<eof, destroyed>>
              \/ /\ conns[f] # None
                 /\ destroyed' = destroyed \union {c}
                 /\ eof' = eof \union {c}
                 /\ UNCHANGED <<conns, fdTable, inEpoll>>
  /\ backlog' = Tail(backlog)
  /\ batch' = batch \ {Listen}
  /\ UNCHANGED <<clientVars, reset, inbox, evtfd, lpc, tmp, adding, pendings,
                 workVars>>

\* handleRead: reading the eventfd sets its counter to zero.
HandleRead ==
  /\ lpc = "dispatch"
  /\ Wakeup \in batch
  /\ evtfd' = 0
  /\ lpc' = "swap"
  /\ batch' = batch \ {Wakeup}
  /\ UNCHANGED <<clientVars, kernelVars, backlog, inbox, conns, tmp, adding,
                 pendings, workVars, objVars>>

SwapPendings ==
  /\ lpc = "swap"
  /\ tmp' = pendings
  /\ pendings' = <<>>
  /\ lpc' = "run"
  /\ UNCHANGED <<clientVars, kernelVars, backlog, inbox, evtfd, batch, conns,
                 adding, workVars, objVars>>

\* TcpConnection::send writes to the descriptor number the connection was
\* created with, whatever that number is open on now.  The client that owns
\* it receives the answer; one that has closed resets the connection, and the
\* second write of send may raise SIGPIPE, which nobody handles.
RunFunctor ==
  /\ lpc = "run"
  /\ tmp # <<>>
  /\ LET c == Head(tmp)
         o == fdTable[conFd[c]]
     IN  \/ /\ o = None
            /\ UNCHANGED <<reset, waiting, wrong, lpc, wpc>>
         \/ /\ o # None /\ peer[o] = "closed"
            /\ reset' = reset \union {o}
            /\ Killed \/ UNCHANGED <<lpc, wpc>>
            /\ UNCHANGED <<waiting, wrong>>
         \/ /\ o # None /\ peer[o] = "open"
            /\ waiting' = IF o = c THEN waiting \ {c} ELSE waiting
            /\ wrong' = IF o = c THEN wrong ELSE wrong \union {o}
            /\ UNCHANGED <<reset, lpc, wpc>>
  /\ tmp' = Tail(tmp)
  /\ UNCHANGED <<peer, reqs, rude, eof, fdTable, inEpoll, backlog, inbox, evtfd, batch, conns,
                 adding, pendings, taskQ, wtask, closing, objVars>>

FunctorsDone ==
  /\ lpc = "run"
  /\ tmp = <<>>
  /\ lpc' = "dispatch"
  /\ UNCHANGED <<clientVars, kernelVars, backlog, inbox, evtfd, batch, conns,
                 tmp, adding, pendings, workVars, objVars>>

\* handleMessage, the peer has closed: the entry is erased, and with the
\* last shared_ptr goes the connection and its descriptor.
HandleClosed(f) ==
  /\ lpc = "dispatch"
  /\ f \in batch
  /\ conns[f] # None
  /\ IsClosed(f)
  /\ conns' = [conns EXCEPT ![f] = None]
  /\ \/ /\ HeldByTask(conns[f])
        /\ inEpoll' = inEpoll \ {f}
        /\ UNCHANGED <<eof, fdTable, destroyed>>
     \/ /\ ~HeldByTask(conns[f])
        /\ Close(f)
        /\ destroyed' = destroyed \union {conns[f]}
  /\ batch' = batch \ {f}
  /\ UNCHANGED <<clientVars, reset, backlog, inbox, evtfd, lpc, tmp, adding,
                 pendings, workVars, conFd>>

\* handleMessage, otherwise: onMessage receives and calls addTask.
HandleMessage(f) ==
  /\ lpc = "dispatch"
  /\ f \in batch
  /\ conns[f] # None
  /\ \/ /\ NothingToRead(f)
        /\ adding' = [con |-> conns[f], msg |-> "garbage"]
        /\ reset' = reset \ {fdTable[f]}
        /\ UNCHANGED inbox
     \/ /\ fdTable[f] # None
        /\ inbox[fdTable[f]] > 0
        /\ inbox' = [inbox EXCEPT ![fdTable[f]] = @ - 1]
        /\ adding' = [con |-> conns[f], msg |-> "request"]
        /\ UNCHANGED reset
  /\ lpc' = "add"
  /\ batch' = batch \ {f}
  /\ UNCHANGED <<clientVars, eof, fdTable, inEpoll, backlog, evtfd, conns, tmp, pendings,
                 workVars, objVars>>

\* addTask blocks the loop while the task queue is full.
AddTask ==
  /\ lpc = "add"
  /\ Len(taskQ) < QueSize
  /\ taskQ' = Append(taskQ, adding)
  /\ adding' = NoTask
  /\ lpc' = "dispatch"
  /\ UNCHANGED <<clientVars, kernelVars, backlog, inbox, evtfd, batch, conns,
                 tmp, pendings, wpc, wtask, closing, objVars>>

(***************************************************************************)
(* The workers.                                                             *)
(***************************************************************************)

TakeTask(w) ==
  /\ wpc[w] = "idle"
  /\ taskQ # <<>>
  /\ wtask' = [wtask EXCEPT ![w] = Head(taskQ)]
  /\ taskQ' = Tail(taskQ)
  /\ wpc' = [wpc EXCEPT ![w] = "work"]
  /\ UNCHANGED <<clientVars, kernelVars, backlog, inbox, evtfd, loopVars,
                 pendings, closing, objVars>>

\* threadTask parses the message; json::parse throws on one that is not JSON
\* and nothing catches it.
ParseFails(w) ==
  /\ wpc[w] = "work"
  /\ wtask[w].msg = "garbage"
  /\ Killed
  /\ UNCHANGED <<clientVars, kernelVars, backlog, inbox, evtfd, batch, conns,
                 tmp, adding, pendings, taskQ, wtask, closing, objVars>>

\* threadTask ends in sendInLoop; runInLoop stores the functor ...
RunInLoop(w) ==
  /\ wpc[w] = "work"
  /\ wtask[w].msg = "request"
  /\ pendings' = Append(pendings, wtask[w].con)
  /\ wpc' = [wpc EXCEPT ![w] = "wakeup"]
  /\ UNCHANGED <<clientVars, kernelVars, backlog, inbox, evtfd, loopVars,
                 taskQ, wtask, closing, objVars>>

\* ... and then, with the mutex released, wakes the loop.
WakeLoop(w) ==
  /\ wpc[w] = "wakeup"
  /\ evtfd' = evtfd + 1
  /\ wpc' = [wpc EXCEPT ![w] = "release"]
  /\ UNCHANGED <<clientVars, kernelVars, backlog, inbox, loopVars, pendings,
                 taskQ, wtask, closing, objVars>>

\* doTask's taskcb goes out of scope and with it the task's shared_ptr.  If
\* it was the last one, ~TcpConnection runs here: ~Socket closes ...
ReleaseTask(w) ==
  LET c == wtask[w].con
      others == HeldByMap(c) \/ HeldByQueue(c) \/ HeldByWorker(c, Workers \ {w})
  IN  /\ wpc[w] = "release"
      /\ wtask' = [wtask EXCEPT ![w] = NoTask]
      /\ \/ /\ others
            /\ wpc' = [wpc EXCEPT ![w] = "idle"]
            /\ UNCHANGED <<eof, fdTable, inEpoll, closing, destroyed>>
         \/ /\ ~others
            /\ Close(conFd[c])
            /\ closing' = [closing EXCEPT ![w] = conFd[c]]
            /\ destroyed' = destroyed \union {c}
            /\ wpc' = [wpc EXCEPT ![w] = "close"]
      /\ UNCHANGED <<clientVars, reset, backlog, inbox, evtfd, loopVars, pendings,
                     taskQ, conFd>>

\* ... and ~SocketIO closes the same number again, which accept may have
\* given to another connection in between.
CloseAgain(w) ==
  /\ wpc[w] = "close"
  /\ Close(closing[w])
  /\ closing' = [closing EXCEPT ![w] = None]
  /\ wpc' = [wpc EXCEPT ![w] = "idle"]
  /\ UNCHANGED <<clientVars, reset, backlog, inbox, evtfd, loopVars, pendings,
                 taskQ, wtask, objVars>>

-----------------------------------------------------------------------------
ClientStep == \E c \in Conns : Connect(c) \/ Request(c) \/ Hangup(c)

LoopStep ==
  \/ EpollWait \/ EndOfBatch \/ AcceptFails \/ HandleNewConnection
  \/ HandleRead \/ SwapPendings \/ RunFunctor \/ FunctorsDone \/ AddTask
  \/ \E f \in Fds : HandleClosed(f) \/ HandleMessage(f)

WorkerStep(w) ==
  \/ TakeTask(w) \/ ParseFails(w) \/ RunInLoop(w) \/ WakeLoop(w)
  \/ ReleaseTask(w) \/ CloseAgain(w)

Next == ClientStep \/ LoopStep \/ \E w \in Workers : WorkerStep(w)

Spec == Init /\ [][Next]_vars

\* The threads of the server are scheduled; clients need not do anything.
Fairness == WF_vars(LoopStep) /\ \A w \in Workers : WF_vars(WorkerStep(w))

FairSpec == Spec /\ Fairness

-----------------------------------------------------------------------------
TypeOK ==
  /\ peer \in [Conns -> {"none", "open", "closed"}]
  /\ waiting \subseteq Conns
  /\ reqs \in [Conns -> Nat]
  /\ reset \subseteq Conns
  /\ eof \subseteq Conns
  /\ wrong \subseteq Conns
  /\ rude \in BOOLEAN
  /\ backlog \in Seq(Conns)
  /\ inbox \in [Conns -> Nat]
  /\ fdTable \in [Fds -> Conns \union {None}]
  /\ inEpoll \subseteq Fds
  /\ evtfd \in Nat
  /\ lpc \in {"wait", "dispatch", "swap", "run", "add", "dead"}
  /\ batch \subseteq Fds \union {Listen, Wakeup}
  /\ conns \in [Fds -> Conns \union {None}]
  /\ tmp \in Seq(Conns)
  /\ adding \in Tasks \union {NoTask}
  /\ pendings \in Seq(Conns)
  /\ taskQ \in Seq(Tasks)
  /\ wpc \in [Workers -> {"idle", "work", "wakeup", "release", "close",
                         "dead"}]
  /\ wtask \in [Workers -> Tasks \union {NoTask}]
  /\ closing \in [Workers -> Fds \union {None}]
  /\ conFd \in [Conns -> Fds \union {None}]
  /\ destroyed \subseteq Conns

\* No answer is forgotten in _pengdings: while one is there, the eventfd is
\* readable, or the worker that stored it has yet to write the eventfd, or
\* the loop has read the eventfd and has yet to swap (runInLoop stores before
\* it wakes, waitEpollFd reads before doPendingFunctors swaps).
NoLostWakeup ==
  lpc # "dead" /\ pendings # <<>> =>
    \/ evtfd > 0
    \/ lpc = "swap"
    \/ \E w \in Workers : wpc[w] = "wakeup"

\* An event that epoll reports on a connection's descriptor always finds its
\* entry in _conns, even if descriptors were closed and reused since: the
\* branch of handleMessage that prints "no such connection" is dead.
EventsAreMapped ==
  \A f \in (batch \union inEpoll) \ {Listen, Wakeup} : conns[f] # None

\* As long as every client waits for its answer before it closes, the answers
\* stored for the loop name connections that still exist, although the
\* functor holds a bare pointer and descriptors are closed twice.
FunctorsAlive ==
  ~rude => \A c \in destroyed : \A i \in DOMAIN pendings : pendings[i] # c

\* Likewise no client receives the answer to another client's request: a
\* descriptor number is given to a new connection only when no functor that
\* would write to the old one is left.
RightClient == ~rude => wrong = {}

\* A client that connects is accepted unless the process runs out of
\* descriptors, and from then on a request it sent is answered, or the server
\* closes its connection, unless the process dies or some client closed
\* without waiting.
RequestAnswered ==
  \A c \in Conns :
    /\ peer[c] = "open" ~> (conFd[c] # None \/ FreeFds = {} \/ lpc = "dead" \/ rude)
    /\ (c \in waiting /\ conFd[c] # None) ~>
         (c \notin waiting \/ c \in eof \/ lpc = "dead" \/ rude)

\* The loop is never stuck in a round: after a blocked addTask or a batch of
\* answers it returns to epoll_wait.
LoopReturns == (lpc # "wait") ~> (lpc = "wait" \/ lpc = "dead")

(***************************************************************************)
(* What the comments of the source say; the code does otherwise.            *)
(***************************************************************************)

\* TcpConnection.cc: the "task" is the data to send together with the
\* TcpConnection and its send; so the object is there when the loop runs it.
RunsOnLiveConnection ==
  lpc = "run" /\ tmp # <<>> => Head(tmp) \notin destroyed

\* EventLoop.cc: the descriptor and the TcpConnection are kept in the map.
\* They are not even when all clients wait for their answers.
NewConnectionMapped ==
  [][HandleNewConnection /\ ~rude => \E f \in Fds : conns'[f] = Head(backlog)]_vars
=============================================================================
