--------------------------- MODULE ReactorProofs ---------------------------
(***************************************************************************)
(* Proofs about Reactor, for every number of workers, descriptors,          *)
(* connections and requests, and for clients of either kind.                *)
(***************************************************************************)
EXTENDS Reactor, SequenceTheorems, TLAPS

USE DEF None, Listen, Wakeup, Fds, Conns

(***************************************************************************)
(* No answer is forgotten in _pengdings.                                    *)
(***************************************************************************)

\* What the argument needs of the types.
WakeType ==
  /\ evtfd \in Nat
  /\ wpc \in [Workers -> {"idle", "work", "wakeup", "release", "close", "dead"}]

LEMMA WakeTypeStep == WakeType /\ [Next]_vars => WakeType'
<1> SUFFICES ASSUME WakeType, [Next]_vars PROVE WakeType'
  OBVIOUS
<1> USE DEF WakeType
<1>1. CASE UNCHANGED vars BY <1>1 DEF vars, workVars
<1>2. CASE ClientStep
  BY <1>2 DEF ClientStep, Connect, Request, Hangup, workVars
<1>3. CASE LoopStep
  BY <1>3 DEF LoopStep, EpollWait, EndOfBatch, AcceptFails, HandleNewConnection,
     HandleRead, SwapPendings, RunFunctor, FunctorsDone, AddTask, HandleClosed,
     HandleMessage, workVars, Killed
<1>4. ASSUME NEW w \in Workers, WorkerStep(w) PROVE WakeType'
  BY <1>4 DEF WorkerStep, TakeTask, ParseFails, RunInLoop, WakeLoop, ReleaseTask,
     CloseAgain, Killed
<1> QED BY <1>1, <1>2, <1>3, <1>4 DEF Next

LEMMA WakeupStep == WakeType /\ NoLostWakeup /\ [Next]_vars => NoLostWakeup'
<1> SUFFICES ASSUME WakeType, NoLostWakeup, [Next]_vars PROVE NoLostWakeup'
  OBVIOUS
<1> USE DEF WakeType, NoLostWakeup
<1>1. CASE UNCHANGED vars BY <1>1 DEF vars, workVars, loopVars
<1>2. CASE ClientStep
  BY <1>2 DEF ClientStep, Connect, Request, Hangup, workVars, loopVars
<1>3. CASE LoopStep
  <2>1. CASE HandleRead BY <2>1 DEF HandleRead
  <2>2. CASE SwapPendings BY <2>2 DEF SwapPendings
  <2>3. CASE RunFunctor
    BY <2>3 DEF RunFunctor, Killed
  <2>4. CASE ~(HandleRead \/ SwapPendings \/ RunFunctor)
    <3>1. UNCHANGED <<pendings, evtfd, wpc>> /\ lpc # "swap" /\ lpc # "dead"
      BY <1>3, <2>4 DEF LoopStep, EpollWait, EndOfBatch, AcceptFails,
         HandleNewConnection, FunctorsDone, AddTask, HandleClosed, HandleMessage, workVars
    <3> QED BY <3>1
  <2> QED BY <2>1, <2>2, <2>3, <2>4
<1>4. ASSUME NEW w \in Workers, WorkerStep(w) PROVE NoLostWakeup'
  <2>1. CASE TakeTask(w) BY <2>1 DEF TakeTask, loopVars
  <2>2. CASE ParseFails(w) BY <2>2 DEF ParseFails, Killed
  <2>3. CASE RunInLoop(w) BY <2>3 DEF RunInLoop
  <2>4. CASE WakeLoop(w) BY <2>4 DEF WakeLoop
  <2>5. CASE ReleaseTask(w) BY <2>5 DEF ReleaseTask, loopVars
  <2>6. CASE CloseAgain(w) BY <2>6 DEF CloseAgain, loopVars
  <2> QED BY <1>4, <2>1, <2>2, <2>3, <2>4, <2>5, <2>6 DEF WorkerStep
<1> QED BY <1>1, <1>2, <1>3, <1>4 DEF Next

\* Workers store an answer before they write the eventfd, and the loop reads
\* the eventfd before it swaps: no answer is left behind, however many
\* workers there are and whatever the clients do.
THEOREM NoAnswerForgotten == Spec => []NoLostWakeup
<1>1. Init => WakeType /\ NoLostWakeup
  BY DEF Init, WakeType, NoLostWakeup
<1>2. WakeType /\ NoLostWakeup /\ [Next]_vars => (WakeType /\ NoLostWakeup)'
  BY WakeTypeStep, WakeupStep
<1> QED BY <1>1, <1>2, PTL DEF Spec

-----------------------------------------------------------------------------
(***************************************************************************)
(* Every event has its connection.                                          *)
(***************************************************************************)

MapInv ==
  /\ conns \in [Fds -> Nat]
  /\ backlog \in Seq(Conns)
  /\ Listen \in batch => backlog # <<>>
  /\ inEpoll \subseteq Fds
  /\ batch \subseteq Fds \union {Listen, Wakeup}
  /\ EventsAreMapped

LEMMA MapStep == MapInv /\ [Next]_vars => MapInv'
<1> SUFFICES ASSUME MapInv, [Next]_vars PROVE MapInv'
  OBVIOUS
<1> USE DEF MapInv, EventsAreMapped
<1>1. CASE UNCHANGED vars BY <1>1 DEF vars, loopVars, kernelVars
<1>2. CASE ClientStep
  <2>1. UNCHANGED <<conns, inEpoll, batch>>
    BY <1>2 DEF ClientStep, Connect, Request, Hangup, loopVars, kernelVars
  <2>2. UNCHANGED backlog \/ \E c \in Conns : backlog' = Append(backlog, c)
    BY <1>2 DEF ClientStep, Connect, Request, Hangup
  <2>3. ASSUME NEW c \in Conns PROVE Append(backlog, c) \in Seq(Conns) \ {<<>>}
    BY AppendProperties
  <2> QED BY <2>1, <2>2, <2>3
<1>3. CASE LoopStep
  <2>1. CASE EpollWait
    <3>1. batch' = Ready /\ UNCHANGED <<conns, inEpoll, backlog>>
      BY <2>1 DEF EpollWait, kernelVars
    <3>2. \A e \in Ready : e \in inEpoll \/ (e = Listen /\ backlog # <<>>) \/ e = Wakeup
      BY DEF Ready, Readable
    <3>3. Listen \notin inEpoll
      OBVIOUS
    <3>4. Ready \subseteq Fds \union {Listen, Wakeup}
      BY <3>2
    <3>5. Listen \in Ready => backlog # <<>>
      BY <3>2, <3>3
    <3>6. \A f \in (Ready \union inEpoll) \ {Listen, Wakeup} : conns[f] # None
      BY <3>2
    <3> QED BY <3>1, <3>4, <3>5, <3>6
  <2>2. CASE HandleNewConnection
    <3>1. backlog # <<>> /\ Listen \notin batch' /\ batch' \subseteq batch
      BY <2>2 DEF HandleNewConnection
    <3>2. Head(backlog) \in Conns /\ backlog' \in Seq(Conns)
      <4>1. backlog' = Tail(backlog)
        BY <2>2 DEF HandleNewConnection
      <4> QED BY <3>1, <4>1, HeadTailProperties
    <3>3. \/ UNCHANGED <<conns, inEpoll>>
          \/ \E f \in Fds : /\ conns' = [conns EXCEPT ![f] = Head(backlog)]
                             /\ inEpoll' = inEpoll \union {f}
      BY <2>2 DEF HandleNewConnection, FreeFds
    <3>4. ASSUME NEW f \in Fds, conns' = [conns EXCEPT ![f] = Head(backlog)],
                 inEpoll' = inEpoll \union {f}
          PROVE  MapInv'
      <4>1. conns' \in [Fds -> Nat] /\ inEpoll' \subseteq Fds
        BY <3>2, <3>4
      <4>2. \A g \in Fds : conns[g] # None => conns'[g] # None
        BY <3>2, <3>4
      <4>3. conns'[f] # None
        BY <3>2, <3>4
      <4>4. \A g \in (batch' \union inEpoll') \ {Listen, Wakeup} : g \in Fds
        BY <3>1, <4>1
      <4>5. EventsAreMapped'
        BY <3>1, <3>4, <4>2, <4>3, <4>4
      <4> QED BY <3>1, <3>2, <4>1, <4>5
    <3> QED BY <3>1, <3>2, <3>3, <3>4
  <2>3. ASSUME NEW f \in Fds, HandleClosed(f) PROVE MapInv'
    <3>1. /\ conns' = [conns EXCEPT ![f] = None]
          /\ inEpoll' = inEpoll \ {f}
          /\ batch' = batch \ {f}
          /\ UNCHANGED backlog
      BY <2>3 DEF HandleClosed, Close
    <3> QED BY <3>1
  <2>4. CASE AcceptFails \/ HandleRead \/ \E f \in Fds : HandleMessage(f)
    <3>1. batch' \subseteq batch /\ UNCHANGED <<conns, inEpoll, backlog>>
      BY <2>4 DEF AcceptFails, HandleRead, HandleMessage, kernelVars
    <3> QED BY <3>1
  <2>5. CASE EndOfBatch \/ SwapPendings \/ RunFunctor \/ FunctorsDone \/ AddTask
    <3>1. UNCHANGED <<conns, inEpoll, backlog, batch>>
      BY <2>5 DEF EndOfBatch, SwapPendings, RunFunctor, FunctorsDone, AddTask, kernelVars
    <3> QED BY <3>1
  <2> QED BY <1>3, <2>1, <2>2, <2>3, <2>4, <2>5 DEF LoopStep
<1>4. ASSUME NEW w \in Workers, WorkerStep(w) PROVE MapInv'
  <2>1. inEpoll' \subseteq inEpoll /\ UNCHANGED <<conns, batch, backlog>>
    BY <1>4 DEF WorkerStep, TakeTask, ParseFails, RunInLoop, WakeLoop, ReleaseTask,
       CloseAgain, Close, loopVars, kernelVars
  <2> QED BY <2>1
<1> QED BY <1>1, <1>2, <1>3, <1>4 DEF Next

\* However descriptors are closed, closed again and reused, an event that
\* epoll reports for a connection finds its entry in _conns.
THEOREM EventsMapped == Spec => []EventsAreMapped
<1>1. Init => MapInv
  BY DEF Init, MapInv, EventsAreMapped
<1>2. MapInv => EventsAreMapped
  BY DEF MapInv
<1> QED BY <1>1, <1>2, MapStep, PTL DEF Spec

-----------------------------------------------------------------------------
(***************************************************************************)
(* Types, and what they rest on: whoever is named by the loop or by a       *)
(* worker is a connection that was accepted.                                *)
(***************************************************************************)

Elems(s) == {s[i] : i \in DOMAIN s}
Once(s, x) == \A i, j \in DOMAIN s : s[i] = x /\ s[j] = x => i = j

LEMMA ElemsType == \A S : \A s \in Seq(S) : Elems(s) \subseteq S
<1> SUFFICES ASSUME NEW S, NEW s \in Seq(S), NEW i \in DOMAIN s PROVE s[i] \in S
  BY DEF Elems
<1> QED BY LenProperties, ElementOfSeq

\* What a sequence names when an element joins it at the end or leaves it at
\* the front.
LEMMA ElemsAppend ==
  ASSUME NEW S, NEW s \in Seq(S), NEW x \in S
  PROVE  /\ Append(s, x) \in Seq(S)
         /\ Elems(Append(s, x)) = Elems(s) \union {x}
         /\ \A y : Once(s, y) /\ (x = y => y \notin Elems(s)) => Once(Append(s, x), y)
<1>1. /\ Append(s, x) \in Seq(S) /\ Len(s) \in Nat
      /\ DOMAIN s = 1 .. Len(s) /\ DOMAIN Append(s, x) = 1 .. Len(s) + 1
      /\ \A i \in 1 .. Len(s) : Append(s, x)[i] = s[i]
      /\ Append(s, x)[Len(s) + 1] = x
  BY AppendProperties, LenProperties
<1>2. Elems(Append(s, x)) = Elems(s) \union {x}
  <2>1. ASSUME NEW y \in Elems(Append(s, x)) PROVE y \in Elems(s) \union {x}
    <3>1. PICK i \in 1 .. Len(s) + 1 : y = Append(s, x)[i]
      BY <2>1, <1>1 DEF Elems
    <3>2. CASE i \in 1 .. Len(s) BY <3>1, <3>2, <1>1 DEF Elems
    <3>3. CASE i = Len(s) + 1 BY <3>1, <3>3, <1>1
    <3> QED BY <3>1, <3>2, <3>3, <1>1
  <2>2. ASSUME NEW y \in Elems(s) PROVE y \in Elems(Append(s, x))
    <3>1. PICK i \in 1 .. Len(s) : y = s[i]
      BY <2>2, <1>1 DEF Elems
    <3>2. i \in DOMAIN Append(s, x) /\ y = Append(s, x)[i]
      BY <3>1, <1>1
    <3> QED BY <3>2 DEF Elems
  <2>3. x \in Elems(Append(s, x))
    <3>1. Len(s) + 1 \in DOMAIN Append(s, x) BY <1>1
    <3> QED BY <3>1, <1>1 DEF Elems
  <2> QED BY <2>1, <2>2, <2>3
<1>3. ASSUME NEW y, Once(s, y), x = y => y \notin Elems(s) PROVE Once(Append(s, x), y)
  <2>1. \A k, l \in 1 .. Len(s) : s[k] = y /\ s[l] = y => k = l
    BY <1>3, <1>1 DEF Once
  <2>2. x = y => \A k \in 1 .. Len(s) : s[k] # y
    BY <1>3, <1>1 DEF Elems
  <2>3. \A k \in 1 .. Len(s) + 1 : k \in 1 .. Len(s) \/ k = Len(s) + 1
    BY <1>1
  <2>4. SUFFICES ASSUME NEW k \in 1 .. Len(s) + 1, NEW l \in 1 .. Len(s) + 1,
                        Append(s, x)[k] = y, Append(s, x)[l] = y
                 PROVE  k = l
    BY <1>1 DEF Once
  <2> QED BY <1>1, <2>1, <2>2, <2>3, <2>4
<1> QED BY <1>1, <1>2, <1>3

LEMMA ElemsTail ==
  ASSUME NEW S, NEW s \in Seq(S), s # <<>>
  PROVE  /\ Tail(s) \in Seq(S) /\ Head(s) \in S
         /\ Elems(s) = Elems(Tail(s)) \union {Head(s)}
         /\ \A y : Once(s, y) => Once(Tail(s), y) /\ (Head(s) = y => y \notin Elems(Tail(s)))
<1>1. /\ Tail(s) \in Seq(S) /\ Head(s) \in S /\ Head(s) = s[1]
      /\ Len(s) \in Nat /\ Len(s) > 0
      /\ DOMAIN s = 1 .. Len(s) /\ DOMAIN Tail(s) = 1 .. Len(s) - 1
      /\ \A i \in 1 .. Len(s) - 1 : Tail(s)[i] = s[i + 1]
  BY HeadTailProperties, LenProperties, EmptySeq
<1>2. Elems(s) = Elems(Tail(s)) \union {Head(s)}
  <2>1. ASSUME NEW y \in Elems(s) PROVE y \in Elems(Tail(s)) \union {Head(s)}
    <3>1. PICK i \in 1 .. Len(s) : y = s[i]
      BY <2>1, <1>1 DEF Elems
    <3>2. CASE i = 1 BY <3>1, <3>2, <1>1
    <3>3. CASE i # 1
      <4>1. i - 1 \in 1 .. Len(s) - 1 /\ (i - 1) + 1 = i
        BY <3>3, <1>1
      <4>2. y = Tail(s)[i - 1]
        BY <3>1, <4>1, <1>1
      <4> QED BY <4>1, <4>2, <1>1 DEF Elems
    <3> QED BY <3>2, <3>3
  <2>2. ASSUME NEW y \in Elems(Tail(s)) PROVE y \in Elems(s)
    <3>1. PICK i \in 1 .. Len(s) - 1 : y = Tail(s)[i]
      BY <2>2, <1>1 DEF Elems
    <3>2. i + 1 \in DOMAIN s /\ y = s[i + 1]
      BY <3>1, <1>1
    <3> QED BY <3>2 DEF Elems
  <2>3. 1 \in DOMAIN s BY <1>1
  <2>4. Head(s) \in Elems(s)
    BY <2>3, <1>1 DEF Elems
  <2> QED BY <2>1, <2>2, <2>4
<1>3. ASSUME NEW y, Once(s, y)
      PROVE  Once(Tail(s), y) /\ (Head(s) = y => y \notin Elems(Tail(s)))
  <2>1. \A k, l \in 1 .. Len(s) : s[k] = y /\ s[l] = y => k = l
    BY <1>3, <1>1 DEF Once
  <2>2. \A k \in 1 .. Len(s) - 1 : k + 1 \in 1 .. Len(s) /\ k + 1 # 1
    BY <1>1
  <2>3. Once(Tail(s), y)
    BY <1>1, <2>1, <2>2 DEF Once
  <2>4. Head(s) = y => y \notin Elems(Tail(s))
    BY <1>1, <2>1, <2>2 DEF Elems
  <2> QED BY <2>3, <2>4
<1> QED BY <1>1, <1>2, <1>3

\* Who is named by the map, a task or a functor, and was thus accepted.
Accepted(c) == conFd[c] # None

PlaceInv ==
  /\ \A f \in Fds : conns[f] # None => Accepted(conns[f])
  /\ adding # NoTask => Accepted(adding.con)
  /\ \A t \in Elems(taskQ) : Accepted(t.con)
  /\ \A w \in Workers : wtask[w] # NoTask => Accepted(wtask[w].con)
  /\ \A c \in Elems(pendings) \union Elems(tmp) : Accepted(c)
  /\ \A w \in Workers : wpc[w] \in {"work", "wakeup", "release"} => wtask[w] # NoTask
  /\ \A w \in Workers : wpc[w] = "close" => closing[w] # None
  /\ lpc = "add" => adding # NoTask
  /\ Listen \in batch => backlog # <<>>

TypeInv == TypeOK /\ PlaceInv

LEMMA TaskFacts ==
  /\ NoTask \notin Tasks
  /\ \A t \in Tasks : t.con \in Conns /\ t.con # None /\ t.msg \in {"request", "garbage"}
  /\ \A c \in Conns : {[con |-> c, msg |-> "request"], [con |-> c, msg |-> "garbage"]} \subseteq Tasks
  /\ NoTask.con = None
<1>1. \A t \in Tasks : t.con \in Conns /\ t.con # None /\ t.msg \in {"request", "garbage"}
  BY DEF Tasks
<1>2. NoTask.con = None
  BY DEF NoTask
<1>3. \A c \in Conns : {[con |-> c, msg |-> "request"], [con |-> c, msg |-> "garbage"]} \subseteq Tasks
  BY DEF Tasks
<1> QED BY <1>1, <1>2, <1>3

LEMMA TypeInit == Init => TypeInv
<1> SUFFICES ASSUME Init PROVE TypeInv
  OBVIOUS
<1>1. TypeOK
  <2>1. <<>> \in Seq(Conns) /\ <<>> \in Seq(Tasks)
    OBVIOUS
  <2> QED BY <2>1, ReactorAssumption DEF Init, TypeOK
<1>2. Elems(<<>>) = {}
  BY DEF Elems
<1>3. PlaceInv
  BY <1>2 DEF Init, PlaceInv
<1> QED BY <1>1, <1>3 DEF TypeInv

LEMMA TypeClient == TypeInv /\ ClientStep => TypeInv'
<1> SUFFICES ASSUME TypeInv, NEW c \in Conns, Connect(c) \/ Request(c) \/ Hangup(c)
             PROVE  TypeInv'
  BY DEF ClientStep
<1> USE DEF TypeInv
<1>1. CASE Connect(c)
  <2>1. Append(backlog, c) \in Seq(Conns) /\ Append(backlog, c) # <<>>
    <3>1. backlog \in Seq(Conns) BY DEF TypeOK
    <3> QED BY <3>1, AppendProperties
  <2>2. TypeOK'
    BY <1>1, <2>1 DEF TypeOK, Connect, kernelVars, loopVars, workVars, objVars
  <2>3. PlaceInv'
    BY <1>1, <2>1 DEF PlaceInv, Accepted, Connect, kernelVars, loopVars, workVars, objVars
  <2> QED BY <2>2, <2>3
<1>2. CASE Request(c)
  <2>1. /\ reqs' \in [Conns -> Nat] /\ inbox' \in [Conns -> Nat]
        /\ waiting' \subseteq Conns
    <3> DEFINE more(f) == [f EXCEPT ![c] = @ + 1]
    <3>0. \A f \in [Conns -> Nat] : more(f) \in [Conns -> Nat]
      OBVIOUS
    <3>1. reqs' \in [Conns -> Nat] BY <1>2, <3>0 DEF TypeOK, Request
    <3>2. inbox' \in [Conns -> Nat] BY <1>2, <3>0 DEF TypeOK, Request
    <3>3. waiting' \subseteq Conns BY <1>2 DEF TypeOK, Request
    <3> QED BY <3>1, <3>2, <3>3
  <2>3. TypeOK'
    BY <1>2, <2>1 DEF TypeOK, Request, kernelVars, loopVars, workVars, objVars
  <2>2. PlaceInv'
    BY <1>2 DEF PlaceInv, Accepted, Request, kernelVars, loopVars, workVars, objVars
  <2> QED BY <2>2, <2>3
<1>3. CASE Hangup(c)
  <2>1. TypeOK'
    BY <1>3 DEF TypeOK, Hangup, kernelVars, loopVars, workVars, objVars
  <2>2. PlaceInv'
    BY <1>3 DEF PlaceInv, Accepted, Hangup, kernelVars, loopVars, workVars, objVars
  <2> QED BY <2>1, <2>2
<1> QED BY <1>1, <1>2, <1>3

LEMMA TypeLoop == TypeInv /\ LoopStep => TypeInv'
<1> SUFFICES ASSUME TypeInv, LoopStep PROVE TypeInv'
  OBVIOUS
<1> USE DEF TypeInv, clientVars, kernelVars, loopVars, workVars, objVars
<1>1. CASE EpollWait
  <2>1. Ready \subseteq Fds \union {Listen, Wakeup} /\ (Listen \in Ready => backlog # <<>>)
    BY DEF Ready
  <2>2. TypeOK' BY <1>1, <2>1 DEF TypeOK, EpollWait
  <2>3. PlaceInv' BY <1>1, <2>1 DEF PlaceInv, Accepted, EpollWait
  <2> QED BY <2>2, <2>3
<1>2. CASE EndOfBatch
  <2>1. TypeOK' BY <1>2 DEF TypeOK, EndOfBatch
  <2>2. PlaceInv' BY <1>2 DEF PlaceInv, Accepted, EndOfBatch
  <2> QED BY <2>1, <2>2
<1>3. CASE AcceptFails
  <2>1. TypeOK' BY <1>3 DEF TypeOK, AcceptFails
  <2>2. PlaceInv' BY <1>3 DEF PlaceInv, Accepted, AcceptFails
  <2> QED BY <2>1, <2>2
<1>4. CASE HandleNewConnection
  <2> DEFINE c == Head(backlog)
  <2>1. backlog # <<>>
    BY <1>4 DEF HandleNewConnection, PlaceInv
  <2>2. c \in Conns /\ Tail(backlog) \in Seq(Conns)
    BY <2>1, ElemsTail DEF TypeOK
  <2>3. PICK f \in FreeFds :
           /\ conFd' = [conFd EXCEPT ![c] = f]
           /\ \/ /\ conns[f] = None
                 /\ conns' = [conns EXCEPT ![f] = c]
                 /\ fdTable' = [fdTable EXCEPT ![f] = c]
                 /\ inEpoll' = inEpoll \union {f}
                 /\ UNCHANGED <<eof, destroyed>>
              \/ /\ conns[f] # None
                 /\ destroyed' = destroyed \union {c}
                 /\ eof' = eof \union {c}
                 /\ UNCHANGED <<conns, fdTable, inEpoll>>
    BY <1>4 DEF HandleNewConnection
  <2>4. f \in Fds BY DEF FreeFds
  <2>5. /\ backlog' = Tail(backlog) /\ batch' = batch \ {Listen}
        /\ UNCHANGED <<clientVars, reset, inbox, evtfd, lpc, tmp, adding, pendings,
                 workVars>>
    BY <1>4 DEF HandleNewConnection
  <2> HIDE DEF c
  <2>6. conFd' \in [Conns -> Fds \union {None}] /\ conns' \in [Fds -> Conns \union {None}]
        /\ fdTable' \in [Fds -> Conns \union {None}]
    BY <2>2, <2>3, <2>4, SMTT(30) DEF TypeOK
  <2>7. inEpoll' \subseteq Fds /\ eof' \subseteq Conns /\ destroyed' \subseteq Conns
    BY <2>2, <2>3, <2>4 DEF TypeOK
  <2>8. TypeOK' BY <2>2, <2>5, <2>6, <2>7 DEF TypeOK
  <2>9. \A d \in Conns : Accepted(d) => Accepted(d)'
    BY <2>2, <2>3, <2>4 DEF TypeOK, Accepted
  <2>10. conFd'[c] # None
    BY <2>2, <2>3, <2>4 DEF TypeOK
  <2>11. \A g \in Fds : conns'[g] # None => conFd'[conns'[g]] # None
    <3>1. \A g \in Fds : conns[g] \in Conns \union {None} /\ (conns[g] # None => Accepted(conns[g]))
      BY DEF TypeOK, PlaceInv
    <3>2. \A g \in Fds : conns'[g] = conns[g] \/ conns'[g] = c
      BY <2>3, <2>4 DEF TypeOK
    <3> QED BY <2>9, <2>10, <3>1, <3>2 DEF Accepted
  <2>12. (\A t \in Elems(taskQ) : t.con \in Conns) /\ Elems(pendings) \union Elems(tmp) \subseteq Conns
    <3>1. taskQ \in Seq(Tasks) /\ pendings \in Seq(Conns) /\ tmp \in Seq(Conns)
      BY DEF TypeOK
    <3>2. Elems(taskQ) \subseteq Tasks /\ Elems(pendings) \subseteq Conns /\ Elems(tmp) \subseteq Conns
      BY <3>1, ElemsType
    <3> QED BY <3>2, TaskFacts
  <2>13. adding # NoTask => adding.con \in Conns
    BY TaskFacts DEF TypeOK
  <2>14. \A w \in Workers : wtask[w] # NoTask => wtask[w].con \in Conns
    BY TaskFacts DEF TypeOK
  <2>15. PlaceInv'
    BY <2>5, <2>9, <2>11, <2>12, <2>13, <2>14 DEF PlaceInv, Accepted
  <2> QED BY <2>8, <2>15
<1>5. CASE HandleRead
  <2>1. TypeOK' BY <1>5 DEF TypeOK, HandleRead
  <2>2. PlaceInv' BY <1>5 DEF PlaceInv, Accepted, HandleRead
  <2> QED BY <2>1, <2>2
<1>6. CASE SwapPendings
  <2>1. Elems(<<>>) = {} /\ <<>> \in Seq(Conns) BY DEF Elems
  <2>2. TypeOK' BY <1>6, <2>1 DEF TypeOK, SwapPendings
  <2>3. PlaceInv' BY <1>6, <2>1 DEF PlaceInv, Accepted, SwapPendings
  <2> QED BY <2>2, <2>3
<1>7. CASE RunFunctor
  <2>1. tmp # <<>> /\ tmp' = Tail(tmp)
    BY <1>7 DEF RunFunctor
  <2>2. tmp' \in Seq(Conns) /\ Elems(tmp') \subseteq Elems(tmp) /\ Head(tmp) \in Conns /\ Head(tmp) \in Elems(tmp)
    <3>1. tmp \in Seq(Conns) BY DEF TypeOK
    <3>2. /\ Tail(tmp) \in Seq(Conns) /\ Head(tmp) \in Conns
          /\ Elems(tmp) = Elems(Tail(tmp)) \union {Head(tmp)}
      BY <2>1, <3>1, ElemsTail
    <3> QED BY <2>1, <3>2
  <2>3. conFd[Head(tmp)] \in Fds
    BY <2>2 DEF PlaceInv, Accepted, TypeOK
  <2>4. /\ waiting' \subseteq Conns /\ wrong' \subseteq Conns /\ reset' \subseteq Conns
    BY <1>7, <2>3 DEF RunFunctor, TypeOK
  <2>5. \/ UNCHANGED <<lpc, wpc>>
        \/ lpc' = "dead" /\ wpc' = [w \in Workers |-> "dead"]
    BY <1>7 DEF RunFunctor, Killed
  <2>6. UNCHANGED <<peer, reqs, rude, eof, fdTable, inEpoll, backlog, inbox, evtfd, batch, conns,
                 adding, pendings, taskQ, wtask, closing, objVars>>
    BY <1>7 DEF RunFunctor
  <2>7. TypeOK' BY <2>2, <2>4, <2>5, <2>6 DEF TypeOK
  <2>8. PlaceInv' BY <2>2, <2>5, <2>6 DEF PlaceInv, Accepted
  <2> QED BY <2>7, <2>8
<1>8. CASE FunctorsDone
  <2>1. TypeOK' BY <1>8 DEF TypeOK, FunctorsDone
  <2>2. PlaceInv' BY <1>8 DEF PlaceInv, Accepted, FunctorsDone
  <2> QED BY <2>1, <2>2
<1>9. CASE AddTask
  <2>1. adding \in Tasks
    BY <1>9 DEF AddTask, PlaceInv, TypeOK
  <2>2. taskQ' \in Seq(Tasks) /\ Elems(taskQ') = Elems(taskQ) \union {adding}
    BY <1>9, <2>1, ElemsAppend DEF AddTask, TypeOK
  <2>3. TypeOK' BY <1>9, <2>2 DEF TypeOK, AddTask
  <2>4. PlaceInv' BY <1>9, <2>1, <2>2, TaskFacts DEF PlaceInv, Accepted, AddTask
  <2> QED BY <2>3, <2>4
<1>10. ASSUME NEW f \in Fds, HandleClosed(f) PROVE TypeInv'
  <2>1. conns[f] \in Conns /\ fdTable[f] \in Conns
    BY <1>10 DEF HandleClosed, IsClosed, TypeOK
  <2>2. /\ conns' = [conns EXCEPT ![f] = None] /\ inEpoll' = inEpoll \ {f} /\ batch' = batch \ {f}
        /\ UNCHANGED <<clientVars, reset, backlog, inbox, evtfd, lpc, tmp, adding,
                 pendings, workVars, conFd>>
    BY <1>10 DEF HandleClosed, Close
  <2>3. fdTable' \in [Fds -> Conns \union {None}] /\ eof' \subseteq Conns /\ destroyed' \subseteq Conns
    BY <1>10, <2>1 DEF HandleClosed, Close, TypeOK
  <2>4. TypeOK' BY <2>2, <2>3 DEF TypeOK
  <2>5. PlaceInv' BY <2>2 DEF PlaceInv, Accepted, TypeOK
  <2> QED BY <2>4, <2>5
<1>11. ASSUME NEW f \in Fds, HandleMessage(f) PROVE TypeInv'
  <2>1. conns[f] \in Conns
    BY <1>11 DEF HandleMessage, TypeOK
  <2>2. /\ adding' \in Tasks /\ adding'.con = conns[f]
        /\ reset' \subseteq reset
    <3>1. \/ adding' = [con |-> conns[f], msg |-> "garbage"]
          \/ adding' = [con |-> conns[f], msg |-> "request"]
      BY <1>11 DEF HandleMessage
    <3>2. reset' \subseteq reset
      BY <1>11 DEF HandleMessage
    <3>3. /\ [con |-> conns[f], msg |-> "garbage"].con = conns[f]
          /\ [con |-> conns[f], msg |-> "request"].con = conns[f]
      OBVIOUS
    <3>4. {[con |-> conns[f], msg |-> "request"], [con |-> conns[f], msg |-> "garbage"]} \subseteq Tasks
      BY <2>1, TaskFacts
    <3> QED BY <3>1, <3>2, <3>3, <3>4
  <2>3. inbox' \in [Conns -> Nat]
    BY <1>11 DEF HandleMessage, TypeOK
  <2>4. /\ lpc' = "add" /\ batch' = batch \ {f}
        /\ UNCHANGED <<clientVars, eof, fdTable, inEpoll, backlog, evtfd, conns, tmp, pendings,
                 workVars, objVars>>
    BY <1>11 DEF HandleMessage
  <2>5. TypeOK' BY <2>2, <2>3, <2>4 DEF TypeOK
  <2>6. Accepted(conns[f])
    BY <2>1 DEF PlaceInv
  <2>7. PlaceInv' BY <2>1, <2>2, <2>4, <2>6, TaskFacts DEF PlaceInv, Accepted
  <2> QED BY <2>5, <2>7
<1> QED BY <1>1, <1>2, <1>3, <1>4, <1>5, <1>6, <1>7, <1>8, <1>9, <1>10, <1>11 DEF LoopStep

LEMMA TypeWorker == ASSUME NEW w \in Workers PROVE TypeInv /\ WorkerStep(w) => TypeInv'
<1> SUFFICES ASSUME TypeInv, WorkerStep(w) PROVE TypeInv'
  OBVIOUS
<1> USE DEF TypeInv, clientVars, kernelVars, loopVars, workVars, objVars
<1>1. CASE TakeTask(w)
  <2>1. taskQ # <<>> BY <1>1 DEF TakeTask
  <2>2. /\ Head(taskQ) \in Tasks /\ Head(taskQ) \in Elems(taskQ)
        /\ taskQ' \in Seq(Tasks) /\ Elems(taskQ') \subseteq Elems(taskQ)
    BY <1>1, <2>1, ElemsTail DEF TakeTask, TypeOK
  <2>3. /\ wtask' = [wtask EXCEPT ![w] = Head(taskQ)]
        /\ wpc' = [wpc EXCEPT ![w] = "work"]
        /\ UNCHANGED <<clientVars, kernelVars, backlog, inbox, evtfd, loopVars,
                 pendings, closing, objVars>>
    BY <1>1 DEF TakeTask
  <2>4. wtask' \in [Workers -> Tasks \union {NoTask}] /\
        wpc' \in [Workers -> {"idle", "work", "wakeup", "release", "close", "dead"}]
    BY <2>2, <2>3 DEF TypeOK
  <2>5. TypeOK' BY <2>2, <2>3, <2>4 DEF TypeOK
  <2>6. \A v \in Workers : wtask'[v] # NoTask => Accepted(wtask'[v].con)
    BY <2>2, <2>3 DEF TypeOK, PlaceInv
  <2>7. \A v \in Workers : wpc'[v] \in {"work", "wakeup", "release"} => wtask'[v] # NoTask
    BY <2>2, <2>3, TaskFacts DEF TypeOK, PlaceInv
  <2>8. \A v \in Workers : wpc'[v] = "close" => closing'[v] # None
    BY <2>3 DEF TypeOK, PlaceInv
  <2>9. PlaceInv' BY <2>2, <2>3, <2>6, <2>7, <2>8 DEF PlaceInv, Accepted
  <2> QED BY <2>5, <2>9
<1>2. CASE ParseFails(w)
  <2>1. TypeOK' BY <1>2 DEF TypeOK, ParseFails, Killed
  <2>2. PlaceInv' BY <1>2 DEF PlaceInv, Accepted, ParseFails, Killed
  <2> QED BY <2>1, <2>2
<1>3. CASE RunInLoop(w)
  <2>1. wtask[w] \in Tasks /\ wtask[w] # NoTask
    BY <1>3 DEF RunInLoop, TypeOK, PlaceInv
  <2>2. wtask[w].con \in Conns /\ Accepted(wtask[w].con)
    BY <2>1, TaskFacts DEF PlaceInv
  <2>3. pendings' \in Seq(Conns) /\ Elems(pendings') = Elems(pendings) \union {wtask[w].con}
    <3>1. pendings \in Seq(Conns) /\ pendings' = Append(pendings, wtask[w].con)
      BY <1>3 DEF RunInLoop, TypeOK
    <3> QED BY <2>2, <3>1, ElemsAppend
  <2>4. /\ wpc' = [wpc EXCEPT ![w] = "wakeup"]
        /\ UNCHANGED <<clientVars, kernelVars, backlog, inbox, evtfd, loopVars,
                 taskQ, wtask, closing, objVars>>
    BY <1>3 DEF RunInLoop
  <2>5. TypeOK' BY <2>3, <2>4 DEF TypeOK
  <2>6. /\ \A v \in Workers : wpc'[v] \in {"work", "wakeup", "release"} => wtask'[v] # NoTask
        /\ \A v \in Workers : wpc'[v] = "close" => closing'[v] # None
    BY <2>1, <2>4 DEF TypeOK, PlaceInv
  <2>7. PlaceInv' BY <2>2, <2>3, <2>4, <2>6 DEF PlaceInv, Accepted
  <2> QED BY <2>5, <2>7
<1>4. CASE WakeLoop(w)
  <2>1. TypeOK' BY <1>4 DEF TypeOK, WakeLoop
  <2>2. PlaceInv' BY <1>4 DEF PlaceInv, Accepted, WakeLoop, TypeOK
  <2> QED BY <2>1, <2>2
<1>5. CASE ReleaseTask(w)
  <2> DEFINE c == wtask[w].con
  <2>1. wpc[w] = "release" /\ wtask[w] \in Tasks
    BY <1>5 DEF ReleaseTask, TypeOK, PlaceInv
  <2>2. c \in Conns /\ conFd[c] \in Fds
    BY <2>1, TaskFacts DEF PlaceInv, Accepted, TypeOK
  <2>3. /\ wtask' = [wtask EXCEPT ![w] = NoTask]
        /\ \/ /\ wpc' = [wpc EXCEPT ![w] = "idle"]
              /\ UNCHANGED <<eof, fdTable, inEpoll, closing, destroyed>>
           \/ /\ Close(conFd[c])
              /\ closing' = [closing EXCEPT ![w] = conFd[c]]
              /\ destroyed' = destroyed \union {c}
              /\ wpc' = [wpc EXCEPT ![w] = "close"]
        /\ UNCHANGED <<clientVars, reset, backlog, inbox, evtfd, loopVars, pendings,
                     taskQ, conFd>>
    BY <1>5 DEF ReleaseTask
  <2> HIDE DEF c
  <2>4. /\ fdTable' \in [Fds -> Conns \union {None}] /\ eof' \subseteq Conns
        /\ destroyed' \subseteq Conns /\ inEpoll' \subseteq Fds
        /\ closing' \in [Workers -> Fds \union {None}]
    <3>1. CASE UNCHANGED <<eof, fdTable, inEpoll, closing, destroyed>>
      BY <3>1 DEF TypeOK
    <3>2. CASE Close(conFd[c]) /\ closing' = [closing EXCEPT ![w] = conFd[c]]
               /\ destroyed' = destroyed \union {c}
      <4>1. fdTable' \in [Fds -> Conns \union {None}] /\ inEpoll' \subseteq Fds
        BY <3>2 DEF Close, TypeOK
      <4>2. eof' \subseteq Conns
        BY <2>2, <3>2 DEF Close, TypeOK
      <4>3. closing' \in [Workers -> Fds \union {None}]
        BY <2>2, <3>2 DEF TypeOK
      <4> QED BY <2>2, <3>2, <4>1, <4>2, <4>3 DEF TypeOK
    <3> QED BY <2>3, <3>1, <3>2
  <2>5. /\ wtask' \in [Workers -> Tasks \union {NoTask}]
        /\ wpc' \in [Workers -> {"idle", "work", "wakeup", "release", "close", "dead"}]
    BY <2>3 DEF TypeOK
  <2>6. TypeOK' BY <2>3, <2>4, <2>5 DEF TypeOK
  <2>7. \A v \in Workers : wtask'[v] # NoTask => Accepted(wtask'[v].con)
    BY <2>3 DEF TypeOK, PlaceInv
  <2>8. \A v \in Workers : wpc'[v] \in {"work", "wakeup", "release"} => wtask'[v] # NoTask
    BY <2>3 DEF TypeOK, PlaceInv
  <2>9. \A v \in Workers : wpc'[v] = "close" => closing'[v] # None
    BY <2>2, <2>3 DEF TypeOK, PlaceInv
  <2>10. PlaceInv' BY <2>3, <2>7, <2>8, <2>9 DEF PlaceInv, Accepted
  <2> QED BY <2>6, <2>10
<1>6. CASE CloseAgain(w)
  <2>1. closing[w] \in Fds
    BY <1>6 DEF CloseAgain, TypeOK, PlaceInv
  <2>2. /\ Close(closing[w])
        /\ closing' = [closing EXCEPT ![w] = None]
        /\ wpc' = [wpc EXCEPT ![w] = "idle"]
        /\ UNCHANGED <<clientVars, reset, backlog, inbox, evtfd, loopVars, pendings,
                 taskQ, wtask, objVars>>
    BY <1>6 DEF CloseAgain
  <2>3. /\ fdTable' \in [Fds -> Conns \union {None}] /\ eof' \subseteq Conns
        /\ inEpoll' \subseteq Fds /\ closing' \in [Workers -> Fds \union {None}]
        /\ wpc' \in [Workers -> {"idle", "work", "wakeup", "release", "close", "dead"}]
    BY <2>1, <2>2 DEF Close, TypeOK
  <2>4. TypeOK' BY <2>2, <2>3 DEF TypeOK
  <2>5. /\ \A v \in Workers : wpc'[v] \in {"work", "wakeup", "release"} => wtask'[v] # NoTask
        /\ \A v \in Workers : wpc'[v] = "close" => closing'[v] # None
    BY <2>2 DEF TypeOK, PlaceInv
  <2>6. PlaceInv' BY <2>2, <2>5 DEF PlaceInv, Accepted
  <2> QED BY <2>4, <2>6
<1> QED BY <1>1, <1>2, <1>3, <1>4, <1>5, <1>6 DEF WorkerStep

LEMMA TypeStep == TypeInv /\ [Next]_vars => TypeInv'
<1> SUFFICES ASSUME TypeInv, [Next]_vars PROVE TypeInv'
  OBVIOUS
<1>1. CASE UNCHANGED vars
  <2>1. TypeOK'
    BY <1>1 DEF TypeInv, TypeOK, vars, clientVars, kernelVars, loopVars, workVars, objVars
  <2>2. PlaceInv'
    BY <1>1 DEF TypeInv, PlaceInv, Accepted, vars, loopVars, workVars, objVars
  <2> QED BY <2>1, <2>2 DEF TypeInv
<1> QED BY <1>1, TypeClient, TypeLoop, TypeWorker DEF Next

\* Whatever the threads and the clients do, every variable keeps its type: a
\* functor, a task and a worker always name a connection that was accepted on
\* a descriptor, and accept always finds the connection it was woken for.
THEOREM TypesCorrect == Spec => []TypeOK
<1>1. TypeInv => TypeOK BY DEF TypeInv
<1> QED BY <1>1, TypeInit, TypeStep, PTL DEF Spec

-----------------------------------------------------------------------------
(***************************************************************************)
(* Connections, descriptors and _conns.                                     *)
(***************************************************************************)

ObjInv ==
  /\ \A c \in Conns : Once(backlog, c)
  /\ \A c \in Elems(backlog) : ~Accepted(c) /\ peer[c] # "none"
  /\ \A c \in Conns : peer[c] = "none" => ~Accepted(c)
  /\ \A c \in waiting : peer[c] = "open"
  /\ \A c \in eof \union destroyed : Accepted(c)
  /\ \A f \in Fds : conns[f] # None => conFd[conns[f]] = f /\ conns[f] \notin destroyed
  /\ \A f \in Fds : fdTable[f] # None =>
       /\ conFd[fdTable[f]] = f /\ fdTable[f] \notin eof
       /\ conns[f] \in {None, fdTable[f]}

LEMMA ObjInit == Init => ObjInv
<1>1. Elems(<<>>) = {} /\ \A c : Once(<<>>, c)
  BY DEF Elems, Once
<1> QED BY <1>1 DEF Init, ObjInv, Accepted

LEMMA ObjClient == TypeInv /\ ObjInv /\ ClientStep => ObjInv'
<1> SUFFICES ASSUME TypeInv, ObjInv, NEW c \in Conns, Connect(c) \/ Request(c) \/ Hangup(c)
             PROVE  ObjInv'
  BY DEF ClientStep
<1> USE DEF clientVars, kernelVars, loopVars, workVars, objVars
<1>1. CASE Connect(c)
  <2>1. backlog \in Seq(Conns) /\ backlog' = Append(backlog, c) /\ c \notin Elems(backlog)
    BY <1>1 DEF Connect, TypeInv, TypeOK, ObjInv
  <2>2. /\ Elems(backlog') = Elems(backlog) \union {c}
        /\ \A d \in Conns : Once(backlog', d)
    <3>1. \A d \in Conns : Once(backlog, d) BY DEF ObjInv
    <3> QED BY <2>1, <3>1, ElemsAppend
  <2>3. peer' = [peer EXCEPT ![c] = "open"] /\ peer[c] = "none"
        /\ UNCHANGED <<waiting, eof, destroyed, conns, fdTable, conFd>>
    BY <1>1 DEF Connect
  <2>4. Elems(backlog) \subseteq Conns /\ peer \in [Conns -> {"none", "open", "closed"}]
    BY <2>1, ElemsType DEF TypeInv, TypeOK
  <2>5. waiting \subseteq Conns
    BY DEF TypeInv, TypeOK
  <2>6. \A d \in Elems(backlog') : ~Accepted(d)' /\ peer'[d] # "none"
    BY <2>2, <2>3, <2>4 DEF ObjInv, Accepted
  <2>7. \A d \in Conns : peer'[d] = "none" => ~Accepted(d)'
    BY <2>3, <2>4 DEF ObjInv, Accepted
  <2>8. \A d \in waiting' : peer'[d] = "open"
    BY <2>3, <2>4, <2>5 DEF ObjInv
  <2> QED BY <2>2, <2>3, <2>6, <2>7, <2>8 DEF ObjInv, Accepted
<1>2. CASE Request(c)
  BY <1>2 DEF Request, ObjInv, Accepted
<1>3. CASE Hangup(c)
  <2>1. /\ peer' = [peer EXCEPT ![c] = "closed"] /\ waiting' = waiting \ {c}
        /\ UNCHANGED <<backlog, eof, destroyed, conns, fdTable, conFd>>
    BY <1>3 DEF Hangup
  <2>2. peer \in [Conns -> {"none", "open", "closed"}] /\ waiting \subseteq Conns /\ Elems(backlog) \subseteq Conns
    BY ElemsType DEF TypeInv, TypeOK
  <2>3. peer'[c] = "closed" /\ \A d \in Conns : d # c => peer'[d] = peer[d]
    BY <2>1, <2>2
  <2>4. \A d \in waiting' : peer'[d] = "open"
    BY <2>1, <2>2 DEF ObjInv
  <2> QED BY <2>1, <2>2, <2>3, <2>4 DEF ObjInv, Accepted
<1> QED BY <1>1, <1>2, <1>3

LEMMA ObjNewConnection == TypeInv /\ ObjInv /\ HandleNewConnection => ObjInv'
<1> SUFFICES ASSUME TypeInv, ObjInv, HandleNewConnection PROVE ObjInv'
  OBVIOUS
<1> DEFINE c == Head(backlog)
<1>1. backlog # <<>> /\ backlog \in Seq(Conns)
  BY DEF HandleNewConnection, TypeInv, PlaceInv, TypeOK
<1>2. /\ c \in Conns /\ c \in Elems(backlog) /\ Elems(Tail(backlog)) \subseteq Elems(backlog)
      /\ \A d \in Conns : Once(Tail(backlog), d)
      /\ c \notin Elems(Tail(backlog))
  <2>1. \A d \in Conns : Once(backlog, d) BY DEF ObjInv
  <2>2. /\ Head(backlog) \in Conns
        /\ Elems(backlog) = Elems(Tail(backlog)) \union {Head(backlog)}
        /\ \A y : Once(backlog, y) => Once(Tail(backlog), y) /\ (Head(backlog) = y => y \notin Elems(Tail(backlog)))
    BY <1>1, ElemsTail
  <2> QED BY <2>1, <2>2
<1>3. PICK f \in FreeFds :
           /\ conFd' = [conFd EXCEPT ![c] = f]
           /\ \/ /\ conns[f] = None
                 /\ conns' = [conns EXCEPT ![f] = c]
                 /\ fdTable' = [fdTable EXCEPT ![f] = c]
                 /\ UNCHANGED <<eof, destroyed>>
              \/ /\ conns[f] # None
                 /\ destroyed' = destroyed \union {c}
                 /\ eof' = eof \union {c}
                 /\ UNCHANGED <<conns, fdTable>>
  BY DEF HandleNewConnection
<1>4. backlog' = Tail(backlog) /\ UNCHANGED <<peer, waiting>>
  BY DEF HandleNewConnection, clientVars
<1>5. f \in Fds /\ fdTable[f] = None
  BY DEF FreeFds
<1> HIDE DEF c
<1>6. /\ conFd \in [Conns -> Fds \union {None}] /\ conns \in [Fds -> Conns \union {None}]
      /\ fdTable \in [Fds -> Conns \union {None}] /\ eof \subseteq Conns /\ destroyed \subseteq Conns
      /\ Elems(backlog) \subseteq Conns
  BY <1>1, ElemsType DEF TypeInv, TypeOK
<1>7. ~Accepted(c) /\ peer[c] # "none"
  BY <1>2 DEF ObjInv
<1>8. c \notin eof \union destroyed /\ \A g \in Fds : conns[g] # c /\ fdTable[g] # c
  <2>1. conFd[c] = None /\ c # None /\ \A g \in Fds : g # None
    BY <1>2, <1>7 DEF Accepted
  <2>2. c \notin eof \union destroyed
    BY <1>7 DEF ObjInv
  <2>3. ASSUME NEW g \in Fds PROVE conns[g] # c /\ fdTable[g] # c
    BY <2>1 DEF ObjInv
  <2> QED BY <2>2, <2>3
<1>9. \A d \in Conns : d # c => conFd'[d] = conFd[d]
  BY <1>2, <1>3, <1>6
<1>10. conFd'[c] = f
  BY <1>2, <1>3, <1>6
<1>11. \A d \in Elems(backlog') : conFd'[d] = None /\ peer'[d] # "none"
  BY <1>2, <1>4, <1>6, <1>9 DEF ObjInv, Accepted
<1>12. \A d \in Conns : peer'[d] = "none" => conFd'[d] = None
  BY <1>4, <1>7, <1>9 DEF ObjInv, Accepted
<1>13. \A d \in eof' \union destroyed' : conFd'[d] # None
  <2>1. eof' \union destroyed' \subseteq eof \union destroyed \union {c}
    BY <1>3
  <2>2. \A d \in eof \union destroyed : d \in Conns /\ conFd[d] # None
    BY <1>6 DEF ObjInv, Accepted
  <2>3. f # None
    BY <1>5
  <2> QED BY <1>9, <1>10, <2>1, <2>2, <2>3
\* What holds of the entries of _conns and of the descriptors before the step.
<1>14. \A g \in Fds : conns[g] # None =>
         /\ conns[g] \in Conns \ {c} /\ conFd'[conns[g]] = g /\ conns[g] \notin destroyed
  <2> SUFFICES ASSUME NEW g \in Fds, conns[g] # None
               PROVE  conns[g] \in Conns \ {c} /\ conFd'[conns[g]] = g /\ conns[g] \notin destroyed
    OBVIOUS
  <2>1. conns[g] \in Conns \ {c} BY <1>6, <1>8
  <2> QED BY <1>9, <2>1 DEF ObjInv
<1>15. \A g \in Fds : fdTable[g] # None =>
         /\ fdTable[g] \in Conns \ {c} /\ conFd'[fdTable[g]] = g /\ fdTable[g] \notin eof
         /\ conns[g] \in {None, fdTable[g]}
  <2> SUFFICES ASSUME NEW g \in Fds, fdTable[g] # None
               PROVE  /\ fdTable[g] \in Conns \ {c} /\ conFd'[fdTable[g]] = g /\ fdTable[g] \notin eof
                      /\ conns[g] \in {None, fdTable[g]}
    OBVIOUS
  <2>1. fdTable[g] \in Conns \ {c} BY <1>6, <1>8
  <2> QED BY <1>9, <2>1 DEF ObjInv
<1>16. /\ \A g \in Fds : conns'[g] # None => conFd'[conns'[g]] = g /\ conns'[g] \notin destroyed'
       /\ \A g \in Fds : fdTable'[g] # None =>
            /\ conFd'[fdTable'[g]] = g /\ fdTable'[g] \notin eof'
            /\ conns'[g] \in {None, fdTable'[g]}
  <2>1. CASE /\ conns' = [conns EXCEPT ![f] = c] /\ fdTable' = [fdTable EXCEPT ![f] = c]
             /\ UNCHANGED <<eof, destroyed>>
    <3>1. conns'[f] = c /\ fdTable'[f] = c
      BY <2>1, <1>5, <1>6
    <3>2. \A g \in Fds : g # f => conns'[g] = conns[g] /\ fdTable'[g] = fdTable[g]
      BY <2>1, <1>5, <1>6
    <3> QED BY <2>1, <1>8, <1>10, <1>14, <1>15, <3>1, <3>2
  <2>2. CASE /\ destroyed' = destroyed \union {c} /\ eof' = eof \union {c}
             /\ UNCHANGED <<conns, fdTable>>
    BY <2>2, <1>14, <1>15
  <2> QED BY <1>3, <2>1, <2>2
<1>17. \A d \in Conns : Once(backlog', d)
  BY <1>2, <1>4
<1>18. \A d \in waiting' : peer'[d] = "open"
  BY <1>4 DEF ObjInv
<1> QED BY <1>11, <1>12, <1>13, <1>16, <1>17, <1>18 DEF ObjInv, Accepted

\* Closing the descriptor of a connection that is in no map.
LEMMA ObjClose ==
  ASSUME TypeInv, ObjInv, NEW f \in Fds, Close(f),
         UNCHANGED <<backlog, conFd, peer, waiting>>,
         conns' = [conns EXCEPT ![f] = None] \/ conns' = conns,
         \/ destroyed' = destroyed
         \/ \E c \in Conns : /\ destroyed' = destroyed \union {c} /\ Accepted(c)
                              /\ \A g \in Fds : conns'[g] # c
  PROVE  ObjInv'
<1>1. /\ conFd \in [Conns -> Fds \union {None}] /\ conns \in [Fds -> Conns \union {None}]
      /\ fdTable \in [Fds -> Conns \union {None}]
  BY DEF TypeInv, TypeOK
<1>2. /\ fdTable' = [fdTable EXCEPT ![f] = None]
      /\ eof' = IF fdTable[f] = None THEN eof ELSE eof \union {fdTable[f]}
  BY DEF Close
<1>3. \A g \in Fds : conns'[g] \in {None, conns[g]}
  BY <1>1
<1>4. \A d \in eof' \union destroyed' : Accepted(d)
  <2>1. ASSUME NEW d \in destroyed' PROVE Accepted(d)
    BY DEF ObjInv
  <2>2. ASSUME NEW d \in eof' PROVE Accepted(d)
    <3>1. d \in eof \/ (d = fdTable[f] /\ fdTable[f] # None)
      BY <1>2
    <3>2. fdTable[f] # None => conFd[fdTable[f]] = f
      BY DEF ObjInv
    <3>3. f # None
      OBVIOUS
    <3> QED BY <3>1, <3>2, <3>3 DEF ObjInv, Accepted
  <2> QED BY <2>1, <2>2
<1>5. \A g \in Fds : conns'[g] # None => conFd'[conns'[g]] = g /\ conns'[g] \notin destroyed'
  BY <1>1, <1>3 DEF ObjInv
<1>6. \A g \in Fds : fdTable'[g] # None => g # f /\ fdTable'[g] = fdTable[g]
  BY <1>1, <1>2
<1>7. \A g \in Fds : fdTable'[g] # None =>
        /\ conFd'[fdTable'[g]] = g /\ fdTable'[g] \notin eof'
        /\ conns'[g] \in {None, fdTable'[g]}
  <2> SUFFICES ASSUME NEW g \in Fds, fdTable'[g] # None
               PROVE  /\ conFd[fdTable[g]] = g /\ fdTable[g] \notin eof'
                      /\ conns'[g] \in {None, fdTable[g]}
    BY <1>6
  <2>1. g # f /\ fdTable[g] # None BY <1>6
  <2>2. conFd[fdTable[g]] = g /\ fdTable[g] \notin eof /\ conns[g] \in {None, fdTable[g]}
    BY <2>1 DEF ObjInv
  <2>3. fdTable[f] # None => conFd[fdTable[f]] = f
    BY DEF ObjInv
  <2> QED BY <1>2, <1>3, <2>1, <2>2, <2>3
<1> QED BY <1>4, <1>5, <1>7 DEF ObjInv, Accepted

LEMMA ObjLoop == TypeInv /\ ObjInv /\ LoopStep => ObjInv'
<1> SUFFICES ASSUME TypeInv, ObjInv, LoopStep PROVE ObjInv'
  OBVIOUS
<1> USE DEF clientVars, kernelVars, loopVars, workVars, objVars
<1>1. CASE EpollWait \/ EndOfBatch \/ AcceptFails \/ HandleRead \/ SwapPendings
           \/ FunctorsDone \/ AddTask \/ \E f \in Fds : HandleMessage(f)
  <2>1. UNCHANGED <<backlog, peer, waiting, conFd, eof, destroyed, conns, fdTable>>
    BY <1>1 DEF EpollWait, EndOfBatch, AcceptFails, HandleRead, SwapPendings,
       FunctorsDone, AddTask, HandleMessage
  <2> QED BY <2>1 DEF ObjInv, Accepted
<1>2. CASE RunFunctor
  <2>1. /\ waiting' \subseteq waiting
        /\ UNCHANGED <<backlog, peer, conFd, eof, destroyed, conns, fdTable>>
    BY <1>2 DEF RunFunctor
  <2> QED BY <2>1 DEF ObjInv, Accepted
<1>3. ASSUME NEW f \in Fds, HandleClosed(f) PROVE ObjInv'
  <2>1. /\ conns[f] # None /\ conns' = [conns EXCEPT ![f] = None]
        /\ UNCHANGED <<backlog, conFd, peer, waiting>>
    BY <1>3 DEF HandleClosed
  <2>2. conns \in [Fds -> Conns \union {None}]
    BY DEF TypeInv, TypeOK
  <2>3. \A g \in Fds : conns'[g] \in {None, conns[g]} /\ conns'[f] = None
    BY <2>1, <2>2
  <2>4. CASE UNCHANGED <<eof, fdTable, destroyed>>
    BY <2>1, <2>3, <2>4 DEF ObjInv, Accepted
  <2>5. CASE Close(f) /\ destroyed' = destroyed \union {conns[f]}
    <3>1. conns[f] \in Conns /\ Accepted(conns[f])
      BY <2>1, <2>2 DEF TypeInv, PlaceInv
    <3>2. \A g \in Fds : conns'[g] # conns[f]
      <4>1. \A g \in Fds : conns[g] = conns[f] => g = f
        BY <2>1 DEF ObjInv
      <4> QED BY <2>1, <2>3, <4>1
    <3> QED BY <2>1, <2>5, <3>1, <3>2, ObjClose
  <2> QED BY <1>3, <2>4, <2>5 DEF HandleClosed
<1> QED BY <1>1, <1>2, <1>3, ObjNewConnection DEF LoopStep

LEMMA ObjWorker == ASSUME NEW w \in Workers PROVE TypeInv /\ ObjInv /\ WorkerStep(w) => ObjInv'
<1> SUFFICES ASSUME TypeInv, ObjInv, WorkerStep(w) PROVE ObjInv'
  OBVIOUS
<1> USE DEF clientVars, kernelVars, loopVars, workVars, objVars
<1>1. CASE TakeTask(w) \/ ParseFails(w) \/ RunInLoop(w) \/ WakeLoop(w)
  <2>1. UNCHANGED <<backlog, peer, waiting, conFd, eof, destroyed, conns, fdTable>>
    BY <1>1 DEF TakeTask, ParseFails, RunInLoop, WakeLoop
  <2> QED BY <2>1 DEF ObjInv, Accepted
<1>2. CASE ReleaseTask(w)
  <2> DEFINE c == wtask[w].con
  <2>1. c \in Conns /\ Accepted(c) /\ conFd[c] \in Fds
    <3>1. wtask[w] \in Tasks
      BY <1>2 DEF ReleaseTask, TypeInv, TypeOK, PlaceInv
    <3> QED BY <3>1, TaskFacts DEF TypeInv, TypeOK, PlaceInv, Accepted
  <2>2. UNCHANGED <<backlog, peer, waiting, conFd, conns>>
    BY <1>2 DEF ReleaseTask
  <2>3. \/ UNCHANGED <<eof, fdTable, destroyed>>
        \/ Close(conFd[c]) /\ destroyed' = destroyed \union {c} /\ ~HeldByMap(c)
    BY <1>2 DEF ReleaseTask
  <2> HIDE DEF c
  <2>4. CASE UNCHANGED <<eof, fdTable, destroyed>>
    BY <2>2, <2>4 DEF ObjInv, Accepted
  <2>5. CASE Close(conFd[c]) /\ destroyed' = destroyed \union {c} /\ ~HeldByMap(c)
    <3>1. \A g \in Fds : conns'[g] # c
      BY <2>2, <2>5 DEF HeldByMap
    <3> QED BY <2>1, <2>2, <2>5, <3>1, ObjClose
  <2> QED BY <2>3, <2>4, <2>5
<1>3. CASE CloseAgain(w)
  <2>1. closing[w] \in Fds
    BY <1>3 DEF CloseAgain, TypeInv, TypeOK, PlaceInv
  <2>2. Close(closing[w]) /\ UNCHANGED <<backlog, peer, waiting, conFd, conns, destroyed>>
    BY <1>3 DEF CloseAgain
  <2> QED BY <2>1, <2>2, ObjClose
<1> QED BY <1>1, <1>2, <1>3 DEF WorkerStep

LEMMA ObjStep == TypeInv /\ ObjInv /\ [Next]_vars => ObjInv'
<1> SUFFICES ASSUME TypeInv, ObjInv, [Next]_vars PROVE ObjInv'
  OBVIOUS
<1>1. CASE UNCHANGED vars
  BY <1>1 DEF ObjInv, Accepted, vars, clientVars, kernelVars, loopVars, workVars, objVars
<1> QED BY <1>1, ObjClient, ObjLoop, ObjWorker DEF Next

-----------------------------------------------------------------------------
(***************************************************************************)
(* A client that waits has at most one request anywhere in the server.      *)
(***************************************************************************)

Asked(c) == [con |-> c, msg |-> "request"]
AtWork(c) == \E w \in Workers : wpc[w] = "work" /\ wtask[w] = Asked(c)

\* The request was read and its answer is not yet sent.
Moving(c) ==
  \/ adding = Asked(c)
  \/ Asked(c) \in Elems(taskQ)
  \/ AtWork(c)
  \/ c \in Elems(pendings)
  \/ c \in Elems(tmp)

B(p) == IF p THEN 1 ELSE 0
Tokens(c) ==
  inbox[c] + B(adding = Asked(c)) + B(Asked(c) \in Elems(taskQ)) + B(AtWork(c))
    + B(c \in Elems(pendings)) + B(c \in Elems(tmp))

\* Why a request of c may be in the server.
Owed(c) == c \in waiting \union eof \/ (rude /\ peer[c] = "closed")

OneToken(c) == Tokens(c) <= 1 /\ (Tokens(c) = 1 => Owed(c))

\* Each place holds the request once.
OncePlaced(c) ==
  /\ Once(taskQ, Asked(c)) /\ Once(pendings, c) /\ Once(tmp, c)
  /\ \A v, w \in Workers :
       wpc[v] = "work" /\ wpc[w] = "work" /\ wtask[v] = Asked(c) /\ wtask[w] = Asked(c) => v = w

AddingInv == adding # NoTask => lpc \in {"add", "dead"}

\* A request that moves has its connection in _conns, unless some client
\* closed without waiting.
InMap(c) == ~rude /\ Moving(c) => conns[conFd[c]] = c

TokenInv ==
  /\ AddingInv
  /\ \A c \in Conns : OneToken(c) /\ OncePlaced(c) /\ InMap(c)

LEMMA AskedFacts ==
  \A c \in Conns :
    /\ Asked(c) \in Tasks /\ Asked(c) # NoTask /\ Asked(c).con = c /\ Asked(c).msg = "request"
    /\ \A t \in Tasks : t.msg = "request" /\ t.con = c => t = Asked(c)
    /\ \A d \in Conns : Asked(c) = Asked(d) => c = d
<1> SUFFICES ASSUME NEW c \in Conns
             PROVE  /\ Asked(c) \in Tasks /\ Asked(c) # NoTask /\ Asked(c).con = c /\ Asked(c).msg = "request"
                    /\ \A t \in Tasks : t.msg = "request" /\ t.con = c => t = Asked(c)
                    /\ \A d \in Conns : Asked(c) = Asked(d) => c = d
  OBVIOUS
<1>1. Asked(c) \in Tasks /\ Asked(c).con = c /\ Asked(c).msg = "request"
  BY DEF Asked, Tasks
<1>2. Asked(c) # NoTask
  BY <1>1, TaskFacts
<1>3. \A t \in Tasks : t.msg = "request" /\ t.con = c => t = Asked(c)
  BY DEF Asked, Tasks
<1>4. \A d \in Conns : Asked(d).con = d
  BY DEF Asked
<1>5. \A d \in Conns : Asked(c) = Asked(d) => c = d
  BY <1>1, <1>4
<1> QED BY <1>1, <1>2, <1>3, <1>5

\* The count in words: a request in one place is in no other.
LEMMA TokenBasics ==
  ASSUME TypeInv, NEW c \in Conns
  PROVE  /\ inbox[c] \in Nat /\ Tokens(c) \in Nat
         /\ Tokens(c) = 0 <=> inbox[c] = 0 /\ ~Moving(c)
<1>1. inbox[c] \in Nat
  BY DEF TypeInv, TypeOK
<1> QED BY <1>1 DEF Tokens, B, Moving

LEMMA MovingAccepted == ASSUME TypeInv, NEW c \in Conns, Moving(c) PROVE Accepted(c)
<1>1. CASE adding = Asked(c)
  BY <1>1, AskedFacts DEF TypeInv, PlaceInv
<1>2. CASE Asked(c) \in Elems(taskQ)
  BY <1>2, AskedFacts DEF TypeInv, PlaceInv
<1>3. CASE AtWork(c)
  BY <1>3, AskedFacts DEF TypeInv, PlaceInv, AtWork
<1>4. CASE c \in Elems(pendings) \union Elems(tmp)
  BY <1>4 DEF TypeInv, PlaceInv
<1> QED BY <1>1, <1>2, <1>3, <1>4 DEF Moving

\* A step that moves no request, or drops some, and takes no reason away.
LEMMA TokenFrame ==
  ASSUME TypeInv, TypeInv', NEW c \in Conns, OneToken(c), OncePlaced(c), InMap(c),
         Tokens(c)' <= Tokens(c), OncePlaced(c)',
         Owed(c) => Tokens(c)' = 0 \/ Owed(c)',
         Moving(c)' /\ ~rude' => ~rude /\ (Moving(c) => conns'[conFd'[c]] = conns[conFd[c]])
                                       /\ (~Moving(c) => conns'[conFd'[c]] = c)
  PROVE  OneToken(c)' /\ InMap(c)'
<1>1. Tokens(c) \in Nat /\ Tokens(c)' \in Nat
  <2>1. Tokens(c)' \in Nat
    <3>1. inbox'[c] \in Nat BY DEF TypeInv, TypeOK
    <3> QED BY <3>1 DEF Tokens, B
  <2> QED BY <2>1, TokenBasics
<1>2. OneToken(c)'
  BY <1>1 DEF OneToken
<1>3. InMap(c)'
  BY DEF InMap
<1> QED BY <1>2, <1>3

\* Nothing about requests changes.
LEMMA TokenSame ==
  ASSUME TypeInv, TypeInv', NEW c \in Conns, OneToken(c), OncePlaced(c), InMap(c),
         UNCHANGED <<inbox, adding, taskQ, pendings, tmp, rude, peer>>,
         AtWork(c)' => AtWork(c),
         \A w \in Workers : wpc'[w] = "work" => wpc[w] = "work" /\ wtask'[w] = wtask[w],
         c \in waiting => c \in waiting', eof \subseteq eof',
         Moving(c) /\ ~rude => conns'[conFd'[c]] = conns[conFd[c]]
  PROVE  OneToken(c)' /\ OncePlaced(c)' /\ InMap(c)'
<1>1. Asked(c)' = Asked(c) OBVIOUS
<1>2. Tokens(c)' <= Tokens(c)
  <2>1. inbox[c] \in Nat BY DEF TypeInv, TypeOK
  <2> QED BY <1>1, <2>1 DEF Tokens, B
<1>3. OncePlaced(c)'
  BY <1>1 DEF OncePlaced
<1>4. Owed(c) => Owed(c)'
  BY DEF Owed
<1>5. Moving(c)' => Moving(c)
  BY <1>1 DEF Moving
<1> QED BY <1>2, <1>3, <1>4, <1>5, TokenFrame

LEMMA TokenInit == Init => TokenInv
<1> SUFFICES ASSUME Init PROVE TokenInv
  OBVIOUS
<1>1. Elems(<<>>) = {} /\ \A c : Once(<<>>, c)
  BY DEF Elems, Once
<1>2. AddingInv BY DEF Init, AddingInv
<1>3. ASSUME NEW c \in Conns PROVE OneToken(c) /\ OncePlaced(c) /\ InMap(c)
  <2>1. ~AtWork(c) /\ adding # Asked(c)
    BY AskedFacts DEF Init, AtWork
  <2>2. Tokens(c) = 0 /\ ~Moving(c)
    BY <1>1, <2>1 DEF Init, Tokens, B, Moving
  <2>3. OncePlaced(c) BY <1>1 DEF Init, OncePlaced
  <2> QED BY <2>2, <2>3 DEF OneToken, InMap
<1> QED BY <1>2, <1>3 DEF TokenInv

LEMMA TokenClient ==
  ASSUME TypeInv, TypeInv', ObjInv, TokenInv, ClientStep PROVE TokenInv'
<1>1. PICK d \in Conns : Connect(d) \/ Request(d) \/ Hangup(d)
  BY DEF ClientStep
<1> USE DEF clientVars, kernelVars, loopVars, workVars, objVars
<1>2. AddingInv'
  BY <1>1 DEF Connect, Request, Hangup, TokenInv, AddingInv
<1>3. UNCHANGED <<adding, taskQ, pendings, tmp, wpc, wtask, conns, conFd, eof>>
  BY <1>1 DEF Connect, Request, Hangup
<1>4. ASSUME NEW c \in Conns PROVE OneToken(c)' /\ OncePlaced(c)' /\ InMap(c)'
  <2>1. OneToken(c) /\ OncePlaced(c) /\ InMap(c) /\ OncePlaced(c)'
    BY <1>3 DEF TokenInv, OncePlaced
  <2>2. (AtWork(c)' <=> AtWork(c)) /\ (Moving(c)' <=> Moving(c))
    BY <1>3 DEF AtWork, Moving
  <2>3. inbox \in [Conns -> Nat] /\ peer \in [Conns -> {"none", "open", "closed"}] /\ waiting \subseteq Conns
    BY DEF TypeInv, TypeOK
  <2>4. CASE Connect(d)
    <3>1. peer[d] = "none" /\ peer' = [peer EXCEPT ![d] = "open"] /\ UNCHANGED <<inbox, waiting, rude>>
      BY <2>4 DEF Connect
    <3>2. Owed(c) => Owed(c)'
      BY <1>3, <2>3, <3>1 DEF Owed
    <3>3. Tokens(c)' = Tokens(c)
      BY <1>3, <2>2, <3>1 DEF Tokens, B
    <3>4. Tokens(c) \in Nat BY TokenBasics
    <3> QED BY <1>3, <2>1, <2>2, <3>1, <3>2, <3>3, <3>4, TokenFrame
  <2>5. CASE Hangup(d)
    <3>1. /\ peer' = [peer EXCEPT ![d] = "closed"] /\ peer[d] = "open" /\ waiting' = waiting \ {d}
          /\ rude' = (rude \/ d \in waiting \ eof) /\ UNCHANGED inbox
      BY <2>5 DEF Hangup
    <3>2. Owed(c) => Owed(c)'
      BY <1>3, <2>3, <3>1 DEF Owed
    <3>3. Tokens(c)' = Tokens(c)
      BY <1>3, <2>2, <3>1 DEF Tokens, B
    <3>4. Tokens(c) \in Nat BY TokenBasics
    <3>5. ~rude' => ~rude BY <3>1
    <3> QED BY <1>3, <2>1, <2>2, <3>2, <3>3, <3>4, <3>5, TokenFrame
  <2>6. CASE Request(d)
    <3>1. /\ inbox' = [inbox EXCEPT ![d] = inbox[d] + 1] /\ waiting' = waiting \union {d}
          /\ peer[d] = "open" /\ d \notin waiting \union eof /\ UNCHANGED <<rude, peer>>
      BY <2>6 DEF Request
    <3>2. Owed(c) => Owed(c)'
      BY <1>3, <3>1 DEF Owed
    <3>3. CASE c # d
      <4>1. Tokens(c)' = Tokens(c)
        BY <1>3, <2>2, <2>3, <3>1, <3>3 DEF Tokens, B
      <4>2. Tokens(c) \in Nat BY TokenBasics
      <4> QED BY <1>3, <2>1, <2>2, <3>1, <3>2, <4>1, <4>2, TokenFrame
    <3>4. CASE c = d
      <4>1. Tokens(c) \in Nat /\ Tokens(c) <= 1 /\ ~Owed(c)
        BY <2>1, <3>1, <3>4, TokenBasics DEF OneToken, Owed
      <4>2. Tokens(c) = 0
        BY <2>1, <4>1 DEF OneToken
      <4>3. Owed(c)' BY <3>1, <3>4 DEF Owed
      <4>4. inbox'[c] = inbox[c] + 1 /\ inbox[c] \in Nat
        BY <2>3, <3>1, <3>4
      <4>5. Tokens(c)' = 1
        BY <1>3, <2>2, <4>2, <4>4 DEF Tokens, B
      <4>6. ~Moving(c)' BY <2>2, <4>2, TokenBasics
      <4> QED BY <2>1, <4>3, <4>5, <4>6 DEF OneToken, InMap
    <3> QED BY <3>3, <3>4
  <2> QED BY <1>1, <2>4, <2>5, <2>6
<1> QED BY <1>2, <1>4 DEF TokenInv

LEMMA TokenLoop ==
  ASSUME TypeInv, TypeInv', ObjInv, TokenInv, LoopStep PROVE TokenInv'
<1> USE DEF clientVars, kernelVars, loopVars, workVars, objVars
<1>0. \A c \in Conns : OneToken(c) /\ OncePlaced(c) /\ InMap(c)
  BY DEF TokenInv
<1>a. /\ taskQ \in Seq(Tasks) /\ pendings \in Seq(Conns) /\ tmp \in Seq(Conns)
      /\ inbox \in [Conns -> Nat] /\ conns \in [Fds -> Conns \union {None}]
      /\ conFd \in [Conns -> Fds \union {None}] /\ fdTable \in [Fds -> Conns \union {None}]
  BY DEF TypeInv, TypeOK
<1>b. lpc \notin {"add", "dead"} => adding = NoTask
  BY DEF TokenInv, AddingInv
<1>1. CASE EpollWait \/ EndOfBatch \/ AcceptFails \/ HandleRead \/ FunctorsDone
  <2>1. /\ UNCHANGED <<clientVars, inbox, adding, taskQ, pendings, tmp, wpc, wtask, eof, conns, conFd>>
        /\ lpc \notin {"add", "dead"}
    BY <1>1 DEF EpollWait, EndOfBatch, AcceptFails, HandleRead, FunctorsDone
  <2>2. AddingInv' BY <1>b, <2>1 DEF AddingInv
  <2>3. \A c \in Conns : AtWork(c)' => AtWork(c)
    BY <2>1 DEF AtWork
  <2>4. ASSUME NEW c \in Conns PROVE OneToken(c)' /\ OncePlaced(c)' /\ InMap(c)'
    BY <1>0, <2>1, <2>3, TokenSame
  <2> QED BY <2>2, <2>4 DEF TokenInv
<1>2. CASE HandleNewConnection
  <2>1. /\ UNCHANGED <<clientVars, inbox, adding, taskQ, pendings, tmp, wpc, wtask>>
        /\ eof \subseteq eof' /\ lpc = "dispatch" /\ backlog # <<>>
    BY <1>2 DEF HandleNewConnection, TypeInv, PlaceInv
  <2>2. AddingInv' BY <1>b, <2>1 DEF AddingInv
  <2>3. \A c \in Conns : AtWork(c)' => AtWork(c)
    BY <2>1 DEF AtWork
  <2>4. ASSUME NEW c \in Conns, Moving(c), ~rude PROVE conns'[conFd'[c]] = conns[conFd[c]]
    <3>1. conns[conFd[c]] = c BY <1>0, <2>4 DEF InMap
    <3>2. Accepted(c) BY <2>4, MovingAccepted
    <3>3. Head(backlog) \in Conns /\ ~Accepted(Head(backlog))
      <4>1. backlog \in Seq(Conns) BY DEF TypeInv, TypeOK
      <4>2. Head(backlog) \in Conns /\ Elems(backlog) = Elems(Tail(backlog)) \union {Head(backlog)}
        BY <2>1, <4>1, ElemsTail
      <4> QED BY <4>2 DEF ObjInv
    <3>4. conFd'[c] = conFd[c] /\ conFd[c] \in Fds
      BY <1>2, <1>a, <3>2, <3>3 DEF HandleNewConnection, Accepted
    <3>5. \A f \in Fds : conns[f] # None => conns'[f] = conns[f]
      BY <1>2, <1>a DEF HandleNewConnection
    <3> QED BY <3>1, <3>4, <3>5
  <2>5. ASSUME NEW c \in Conns PROVE OneToken(c)' /\ OncePlaced(c)' /\ InMap(c)'
    BY <1>0, <2>1, <2>3, <2>4, TokenSame
  <2> QED BY <2>2, <2>5 DEF TokenInv
<1>3. ASSUME NEW f \in Fds, HandleClosed(f) PROVE TokenInv'
  <2>1. /\ UNCHANGED <<clientVars, inbox, adding, taskQ, pendings, tmp, wpc, wtask, conFd>>
        /\ eof \subseteq eof' /\ lpc = "dispatch" /\ UNCHANGED lpc
        /\ conns[f] # None /\ conns' = [conns EXCEPT ![f] = None]
        /\ IsClosed(f)
    BY <1>3 DEF HandleClosed, Close
  <2>2. AddingInv' BY <1>b, <2>1 DEF AddingInv
  <2>3. \A c \in Conns : AtWork(c)' => AtWork(c)
    BY <2>1 DEF AtWork
  <2>4. ASSUME NEW c \in Conns, Moving(c), ~rude PROVE conns'[conFd'[c]] = conns[conFd[c]]
    <3>1. conns[conFd[c]] = c BY <1>0, <2>4 DEF InMap
    <3>2. conFd[c] \in Fds BY <1>a, <2>4, MovingAccepted DEF Accepted
    <3>3. CASE conFd[c] # f BY <1>a, <2>1, <3>2, <3>3
    <3>4. CASE conFd[c] = f
      <4>1. fdTable[f] = c /\ inbox[c] = 0 /\ peer[c] = "closed" /\ c \notin eof
        BY <2>1, <3>1, <3>4 DEF IsClosed, ObjInv
      <4>2. ~Owed(c)
        BY <2>4, <4>1 DEF Owed, ObjInv
      <4>3. Tokens(c) = 0
        BY <1>0, <4>2, TokenBasics DEF OneToken
      <4> QED BY <2>4, <4>3, TokenBasics
    <3> QED BY <3>3, <3>4
  <2>5. ASSUME NEW c \in Conns PROVE OneToken(c)' /\ OncePlaced(c)' /\ InMap(c)'
    BY <1>0, <2>1, <2>3, <2>4, TokenSame
  <2> QED BY <2>2, <2>5 DEF TokenInv
<1>4. CASE SwapPendings
  <2>1. /\ UNCHANGED <<clientVars, inbox, adding, taskQ, wpc, wtask, eof, conns, conFd>>
        /\ lpc = "swap" /\ tmp' = pendings /\ pendings' = <<>>
    BY <1>4 DEF SwapPendings
  <2>2. AddingInv' BY <1>b, <2>1 DEF AddingInv
  <2>3. ASSUME NEW c \in Conns PROVE OneToken(c)' /\ OncePlaced(c)' /\ InMap(c)'
    <3>1. Elems(pendings') = {} /\ Once(pendings', c) /\ tmp' = pendings
      BY <2>1 DEF Elems, Once
    <3>2. AtWork(c)' <=> AtWork(c) BY <2>1 DEF AtWork
    <3>3. inbox[c] \in Nat BY <1>a
    <3>4. Tokens(c)' <= Tokens(c)
      BY <2>1, <3>1, <3>2, <3>3 DEF Tokens, B
    <3>5. OncePlaced(c)'
      BY <1>0, <2>1, <3>1 DEF OncePlaced
    <3>6. Moving(c)' => Moving(c)
      BY <2>1, <3>1, <3>2 DEF Moving
    <3>7. Owed(c) => Owed(c)' BY <2>1 DEF Owed
    <3> QED BY <1>0, <2>1, <3>4, <3>5, <3>6, <3>7, TokenFrame
  <2> QED BY <2>2, <2>3 DEF TokenInv
<1>5. CASE RunFunctor
  <2>1. /\ UNCHANGED <<peer, rude, inbox, adding, taskQ, wtask, pendings, eof, conns, conFd>>
        /\ lpc = "run" /\ tmp # <<>> /\ tmp' = Tail(tmp)
        /\ wpc' = wpc \/ wpc' = [w \in Workers |-> "dead"]
    BY <1>5 DEF RunFunctor, Killed
  <2>2. AddingInv' BY <1>b, <2>1 DEF AddingInv
  <2>3. /\ Elems(tmp) = Elems(tmp') \union {Head(tmp)}
        /\ \A c : Once(tmp, c) => Once(tmp', c) /\ (Head(tmp) = c => c \notin Elems(tmp'))
    BY <1>a, <2>1, ElemsTail
  <2>4. ASSUME NEW c \in Conns PROVE OneToken(c)' /\ OncePlaced(c)' /\ InMap(c)'
    <3>1. AtWork(c)' => AtWork(c) BY <2>1 DEF AtWork
    <3>2. inbox[c] \in Nat BY <1>a
    <3>3. Tokens(c)' <= Tokens(c)
      BY <2>1, <2>3, <3>1, <3>2 DEF Tokens, B
    <3>4. Once(tmp, c) /\ Once(tmp', c)
      BY <1>0, <2>3 DEF OncePlaced
    <3>5. OncePlaced(c)'
      <4>1. \A v \in Workers : wpc'[v] = "work" => wpc[v] = "work"
        BY <2>1
      <4> QED BY <1>0, <2>1, <3>4, <4>1 DEF OncePlaced
    <3>6. Moving(c)' => Moving(c)
      BY <2>1, <2>3, <3>1 DEF Moving
    <3>7. Owed(c) => Tokens(c)' = 0 \/ Owed(c)'
      <4>1. CASE c = Head(tmp)
        <5>1. c \in Elems(tmp) /\ c \notin Elems(tmp')
          BY <2>3, <3>4, <4>1
        <5>2. Tokens(c) <= 1 BY <1>0 DEF OneToken
        <5> QED BY <2>1, <3>1, <3>2, <5>1, <5>2 DEF Tokens, B
      <4>2. CASE c # Head(tmp)
        <5>1. c \in waiting => c \in waiting'
          BY <1>5, <4>2 DEF RunFunctor
        <5> QED BY <2>1, <5>1 DEF Owed
      <4> QED BY <4>1, <4>2
    <3> QED BY <1>0, <2>1, <3>3, <3>5, <3>6, <3>7, TokenFrame
  <2> QED BY <2>2, <2>4 DEF TokenInv
<1>6. CASE AddTask
  <2>1. /\ UNCHANGED <<clientVars, inbox, wpc, wtask, pendings, tmp, eof, conns, conFd>>
        /\ taskQ' = Append(taskQ, adding) /\ adding' = NoTask /\ lpc = "add"
    BY <1>6 DEF AddTask
  <2>2. AddingInv' BY <2>1 DEF AddingInv
  <2>3. adding \in Tasks
    BY <2>1 DEF TypeInv, TypeOK, PlaceInv
  <2>4. /\ Elems(taskQ') = Elems(taskQ) \union {adding}
        /\ \A y : Once(taskQ, y) /\ (adding = y => y \notin Elems(taskQ)) => Once(taskQ', y)
    BY <1>a, <2>1, <2>3, ElemsAppend
  <2>5. ASSUME NEW c \in Conns PROVE OneToken(c)' /\ OncePlaced(c)' /\ InMap(c)'
    <3>1. AtWork(c)' <=> AtWork(c) BY <2>1 DEF AtWork
    <3>2. inbox[c] \in Nat BY <1>a
    <3>3. adding' # Asked(c) /\ Asked(c)' = Asked(c)
      BY <2>1, AskedFacts
    <3>4. Tokens(c)' <= Tokens(c)
      BY <2>1, <2>4, <3>1, <3>2, <3>3 DEF Tokens, B
    <3>5. adding = Asked(c) => Asked(c) \notin Elems(taskQ)
      <4>1. Tokens(c) <= 1 BY <1>0 DEF OneToken
      <4> QED BY <3>2, <4>1 DEF Tokens, B
    <3>6. Once(taskQ', Asked(c))
      BY <1>0, <2>4, <3>5 DEF OncePlaced
    <3>7. OncePlaced(c)'
      BY <1>0, <2>1, <3>3, <3>6 DEF OncePlaced
    <3>8. Moving(c)' => Moving(c)
      BY <2>1, <2>4, <3>1, <3>3 DEF Moving
    <3>9. Owed(c) => Owed(c)' BY <2>1 DEF Owed
    <3> QED BY <1>0, <2>1, <3>4, <3>7, <3>8, <3>9, TokenFrame
  <2> QED BY <2>2, <2>5 DEF TokenInv
<1>7. ASSUME NEW f \in Fds, HandleMessage(f) PROVE TokenInv'
  <2>1. /\ UNCHANGED <<clientVars, taskQ, wpc, wtask, pendings, tmp, eof, conns, conFd>>
        /\ lpc = "dispatch" /\ lpc' = "add" /\ conns[f] # None
    BY <1>7 DEF HandleMessage
  <2>2. AddingInv' BY <2>1 DEF AddingInv
  <2>3. \/ adding' = [con |-> conns[f], msg |-> "garbage"] /\ UNCHANGED inbox
        \/ /\ inbox[conns[f]] > 0
           /\ inbox' = [inbox EXCEPT ![conns[f]] = @ - 1]
           /\ adding' = Asked(conns[f])
    <3>1. fdTable[f] # None => fdTable[f] = conns[f]
      BY <2>1 DEF ObjInv
    <3> QED BY <1>7, <3>1 DEF HandleMessage, Asked
  <2>4. conns[f] \in Conns /\ conFd[conns[f]] = f
    <3>1. conns[f] \in Conns BY <1>a, <2>1
    <3>2. conFd[conns[f]] = f BY <2>1 DEF ObjInv
    <3> QED BY <3>1, <3>2
  <2>5. adding = NoTask BY <1>b, <2>1
  <2>6. ASSUME NEW c \in Conns PROVE OneToken(c)' /\ OncePlaced(c)' /\ InMap(c)'
    <3>1. AtWork(c)' <=> AtWork(c) BY <2>1 DEF AtWork
    <3>2. inbox[c] \in Nat BY <1>a
    <3>3. adding # Asked(c) /\ Asked(c)' = Asked(c)
      BY <2>5, AskedFacts
    <3>4. \/ adding' # Asked(c) /\ inbox'[c] <= inbox[c]
          \/ adding' = Asked(c) /\ inbox'[c] = inbox[c] - 1 /\ c = conns[f]
      <4>1. CASE adding' = [con |-> conns[f], msg |-> "garbage"] /\ UNCHANGED inbox
        <5>1. adding'.msg = "garbage" BY <4>1
        <5> QED BY <3>2, <4>1, <5>1, AskedFacts
      <4>2. CASE /\ inbox[conns[f]] > 0
                 /\ inbox' = [inbox EXCEPT ![conns[f]] = @ - 1]
                 /\ adding' = Asked(conns[f])
        <5>1. CASE c = conns[f] BY <1>a, <4>2, <5>1
        <5>2. CASE c # conns[f]
          <6>1. adding' # Asked(c) BY <2>4, <4>2, <5>2, AskedFacts
          <6>2. inbox'[c] = inbox[c] BY <1>a, <4>2, <5>2
          <6> QED BY <3>2, <6>1, <6>2
        <5> QED BY <5>1, <5>2
      <4> QED BY <2>3, <4>1, <4>2
    <3>5. inbox'[c] \in Nat BY DEF TypeInv, TypeOK
    <3>6. Tokens(c)' <= Tokens(c)
      BY <2>1, <3>1, <3>2, <3>3, <3>4, <3>5 DEF Tokens, B
    <3>7. OncePlaced(c)'
      BY <1>0, <2>1, <3>3 DEF OncePlaced
    <3>8. Owed(c) => Owed(c)' BY <2>1 DEF Owed
    <3>9. Moving(c)' => Moving(c) \/ c = conns[f]
      BY <2>1, <3>1, <3>3, <3>4 DEF Moving
    <3>10. conns'[conFd'[c]] = conns[conFd[c]] /\ (c = conns[f] => conns'[conFd'[c]] = c)
      BY <2>1, <2>4
    <3>11. UNCHANGED rude BY <2>1
    <3> QED BY <1>0, <3>6, <3>7, <3>8, <3>9, <3>10, <3>11, TokenFrame
  <2> QED BY <2>2, <2>6 DEF TokenInv
<1> QED BY <1>1, <1>2, <1>3, <1>4, <1>5, <1>6, <1>7 DEF LoopStep

LEMMA TokenWorker ==
  ASSUME TypeInv, TypeInv', ObjInv, TokenInv, NEW w \in Workers, WorkerStep(w) PROVE TokenInv'
<1> USE DEF clientVars, kernelVars, loopVars, workVars, objVars
<1>0. \A c \in Conns : OneToken(c) /\ OncePlaced(c) /\ InMap(c)
  BY DEF TokenInv
<1>a. /\ taskQ \in Seq(Tasks) /\ pendings \in Seq(Conns)
      /\ inbox \in [Conns -> Nat] /\ wtask \in [Workers -> Tasks \union {NoTask}]
      /\ wpc \in [Workers -> {"idle", "work", "wakeup", "release", "close", "dead"}]
  BY DEF TypeInv, TypeOK
<1>1. CASE TakeTask(w)
  <2>1. /\ UNCHANGED <<clientVars, inbox, adding, pendings, tmp, eof, conns, conFd, lpc>>
        /\ taskQ # <<>> /\ taskQ' = Tail(taskQ) /\ wpc[w] = "idle"
        /\ wtask' = [wtask EXCEPT ![w] = Head(taskQ)] /\ wpc' = [wpc EXCEPT ![w] = "work"]
    BY <1>1 DEF TakeTask
  <2>2. AddingInv' BY <2>1 DEF AddingInv, TokenInv
  <2>3. /\ Elems(taskQ) = Elems(taskQ') \union {Head(taskQ)}
        /\ \A y : Once(taskQ, y) => Once(taskQ', y) /\ (Head(taskQ) = y => y \notin Elems(taskQ'))
    BY <1>a, <2>1, ElemsTail
  <2>4. /\ wpc'[w] = "work" /\ wtask'[w] = Head(taskQ)
        /\ \A v \in Workers : v # w => wpc'[v] = wpc[v] /\ wtask'[v] = wtask[v]
    BY <1>a, <2>1
  <2>5. ASSUME NEW c \in Conns PROVE OneToken(c)' /\ OncePlaced(c)' /\ InMap(c)'
    <3>1. AtWork(c)' <=> AtWork(c) \/ Head(taskQ) = Asked(c)
      BY <2>1, <2>4 DEF AtWork, Asked
    <3>2. inbox[c] \in Nat BY <1>a
    <3>3. Asked(c)' = Asked(c) OBVIOUS
    <3>4. Once(taskQ, Asked(c)) BY <1>0 DEF OncePlaced
    <3>5. Once(taskQ', Asked(c)) /\ (Head(taskQ) = Asked(c) => Asked(c) \notin Elems(taskQ'))
      BY <2>3, <3>4
    <3>6. Tokens(c)' <= Tokens(c)
      BY <2>1, <2>3, <3>1, <3>2, <3>3, <3>5 DEF Tokens, B
    <3>7. Head(taskQ) = Asked(c) => ~AtWork(c)
      <4>1. Tokens(c) <= 1 BY <1>0 DEF OneToken
      <4> QED BY <2>3, <3>2, <4>1 DEF Tokens, B
    <3>8. \A u, v \in Workers :
       wpc'[v] = "work" /\ wpc'[u] = "work" /\ wtask'[v] = Asked(c) /\ wtask'[u] = Asked(c) => v = u
      <4>1. \A u, v \in Workers :
             wpc[v] = "work" /\ wpc[u] = "work" /\ wtask[v] = Asked(c) /\ wtask[u] = Asked(c) => v = u
        BY <1>0 DEF OncePlaced
      <4>2. \A v \in Workers : Head(taskQ) = Asked(c) => ~(wpc[v] = "work" /\ wtask[v] = Asked(c))
        BY <3>7 DEF AtWork
      <4> QED BY <2>4, <4>1, <4>2
    <3>9. OncePlaced(c)'
      BY <1>0, <2>1, <3>3, <3>5, <3>8 DEF OncePlaced
    <3>10. Moving(c)' => Moving(c)
      BY <2>1, <2>3, <3>1, <3>3 DEF Moving
    <3>11. Owed(c) => Owed(c)' BY <2>1 DEF Owed
    <3>12. UNCHANGED rude /\ conns'[conFd'[c]] = conns[conFd[c]] BY <2>1
    <3> QED BY <1>0, <3>6, <3>9, <3>10, <3>11, <3>12, TokenFrame
  <2> QED BY <2>2, <2>5 DEF TokenInv
<1>2. CASE ParseFails(w)
  <2>1. /\ UNCHANGED <<clientVars, inbox, adding, taskQ, pendings, tmp, eof, conns, conFd, wtask>>
        /\ lpc' = "dead" /\ wpc' = [v \in Workers |-> "dead"]
    BY <1>2 DEF ParseFails, Killed
  <2>2. AddingInv' BY <2>1 DEF AddingInv
  <2>3. ASSUME NEW c \in Conns PROVE OneToken(c)' /\ OncePlaced(c)' /\ InMap(c)'
    <3>1. ~AtWork(c)' BY <2>1 DEF AtWork
    <3>2. \A v \in Workers : wpc'[v] # "work" BY <2>1
    <3> QED BY <1>0, <2>1, <3>1, <3>2, TokenSame
  <2> QED BY <2>2, <2>3 DEF TokenInv
<1>3. CASE RunInLoop(w)
  <2> DEFINE d == wtask[w].con
  <2>1. /\ UNCHANGED <<clientVars, inbox, adding, taskQ, wtask, tmp, eof, conns, conFd, lpc>>
        /\ wpc[w] = "work" /\ wtask[w].msg = "request"
        /\ pendings' = Append(pendings, d) /\ wpc' = [wpc EXCEPT ![w] = "wakeup"]
    BY <1>3 DEF RunInLoop
  <2>2. AddingInv' BY <2>1 DEF AddingInv, TokenInv
  <2>3. d \in Conns /\ wtask[w] = Asked(d)
    <3>1. wtask[w] \in Tasks BY <2>1 DEF TypeInv, TypeOK, PlaceInv
    <3> QED BY <2>1, <3>1, TaskFacts, AskedFacts
  <2> HIDE DEF d
  <2>4. /\ Elems(pendings') = Elems(pendings) \union {d}
        /\ \A y : Once(pendings, y) /\ (d = y => y \notin Elems(pendings)) => Once(pendings', y)
    <3>1. pendings' = Append(pendings, d) /\ pendings \in Seq(Conns) /\ d \in Conns
      BY <1>a, <2>1, <2>3
    <3>2. /\ Elems(Append(pendings, d)) = Elems(pendings) \union {d}
          /\ \A y : Once(pendings, y) /\ (d = y => y \notin Elems(pendings)) => Once(Append(pendings, d), y)
      BY <3>1, ElemsAppend, ZenonT(30)
    <3> QED BY <3>1, <3>2
  <2>5. wpc'[w] = "wakeup" /\ \A v \in Workers : v # w => wpc'[v] = wpc[v]
    BY <1>a, <2>1
  <2>6. ASSUME NEW c \in Conns PROVE OneToken(c)' /\ OncePlaced(c)' /\ InMap(c)'
    <3>1. AtWork(c)' => AtWork(c) BY <2>1, <2>5 DEF AtWork, Asked
    <3>2. inbox[c] \in Nat BY <1>a
    <3>3. Asked(c)' = Asked(c) OBVIOUS
    <3>4. \A v \in Workers : wpc'[v] = "work" => v # w /\ wpc[v] = "work"
      BY <2>5
    <3>5. c = d => AtWork(c) /\ ~AtWork(c)'
      <4>1. c = d => AtWork(c) BY <2>1, <2>3 DEF AtWork
      <4>2. \A v \in Workers : v # w /\ wpc[v] = "work" /\ wtask[v] = Asked(d) => FALSE
        BY <1>0, <2>1, <2>3 DEF OncePlaced
      <4> QED BY <2>1, <3>3, <3>4, <4>1, <4>2 DEF AtWork
    <3>6. Tokens(c)' <= Tokens(c)
      BY <2>1, <2>4, <3>1, <3>2, <3>3, <3>5 DEF Tokens, B
    <3>7. c = d => c \notin Elems(pendings)
      <4>1. Tokens(c) <= 1 BY <1>0 DEF OneToken
      <4> QED BY <3>2, <3>5, <4>1 DEF Tokens, B
    <3>8. Once(pendings', c)
      BY <1>0, <2>4, <3>7 DEF OncePlaced
    <3>9. OncePlaced(c)'
      BY <1>0, <2>1, <3>3, <3>4, <3>8 DEF OncePlaced
    <3>10. Moving(c)' => Moving(c)
      BY <2>1, <2>4, <3>1, <3>3, <3>5 DEF Moving
    <3>11. Owed(c) => Owed(c)' BY <2>1 DEF Owed
    <3>12. UNCHANGED rude /\ conns'[conFd'[c]] = conns[conFd[c]] BY <2>1
    <3> QED BY <1>0, <3>6, <3>9, <3>10, <3>11, <3>12, TokenFrame
  <2> QED BY <2>2, <2>6 DEF TokenInv
<1>4. CASE WakeLoop(w) \/ ReleaseTask(w) \/ CloseAgain(w)
  <2>1. /\ UNCHANGED <<clientVars, inbox, adding, taskQ, pendings, tmp, conns, conFd, lpc>>
        /\ eof \subseteq eof'
    BY <1>4 DEF WakeLoop, ReleaseTask, CloseAgain, Close
  <2>2. \A v \in Workers : wpc'[v] = "work" => wpc[v] = "work" /\ wtask'[v] = wtask[v]
    BY <1>a, <1>4 DEF WakeLoop, ReleaseTask, CloseAgain
  <2>3. AddingInv' BY <2>1 DEF AddingInv, TokenInv
  <2>4. ASSUME NEW c \in Conns PROVE OneToken(c)' /\ OncePlaced(c)' /\ InMap(c)'
    <3>1. AtWork(c)' => AtWork(c) BY <2>2 DEF AtWork, Asked
    <3> QED BY <1>0, <2>1, <2>2, <3>1, TokenSame
  <2> QED BY <2>3, <2>4 DEF TokenInv
<1> QED BY <1>1, <1>2, <1>3, <1>4 DEF WorkerStep

LEMMA TokenStep == TypeInv /\ TypeInv' /\ ObjInv /\ TokenInv /\ [Next]_vars => TokenInv'
<1> SUFFICES ASSUME TypeInv, TypeInv', ObjInv, TokenInv, [Next]_vars PROVE TokenInv'
  OBVIOUS
<1>1. CASE UNCHANGED vars
  <2> USE <1>1 DEF vars, clientVars, kernelVars, loopVars, workVars, objVars
  <2>1. AddingInv' BY DEF TokenInv, AddingInv
  <2>2. ASSUME NEW c \in Conns PROVE OneToken(c)' /\ OncePlaced(c)' /\ InMap(c)'
    <3>1. AtWork(c)' => AtWork(c) BY DEF AtWork, Asked
    <3>2. OneToken(c) /\ OncePlaced(c) /\ InMap(c) BY DEF TokenInv
    <3> QED BY <3>1, <3>2, TokenSame
  <2> QED BY <2>1, <2>2 DEF TokenInv
<1> QED BY <1>1, TokenClient, TokenLoop, TokenWorker DEF Next

FunctorInv == TypeInv /\ ObjInv /\ TokenInv

LEMMA FunctorAlways == Spec => []FunctorInv
<1>1. Init => FunctorInv
  BY TypeInit, ObjInit, TokenInit DEF FunctorInv
<1>2. FunctorInv /\ [Next]_vars => FunctorInv'
  BY TypeStep, ObjStep, TokenStep DEF FunctorInv
<1> QED BY <1>1, <1>2, PTL DEF Spec

\* The bare pointer in a functor: as long as no client closes without waiting
\* for its answer, the connection that a stored functor names is not deleted.
\* For a request that moves keeps its connection in _conns: handleMessage
\* erases only a connection whose client has closed, and that client had its
\* answer.
THEOREM FunctorsStayAlive == Spec => []FunctorsAlive
<1>1. ASSUME FunctorInv, ~rude, NEW c \in destroyed, NEW i \in DOMAIN pendings, pendings[i] = c
      PROVE  FALSE
  <2>1. c \in Conns /\ Accepted(c)
    BY <1>1 DEF FunctorInv, TypeInv, TypeOK, ObjInv
  <2>2. c \in Elems(pendings)
    BY <1>1 DEF Elems
  <2>3. Moving(c)
    BY <2>2 DEF Moving
  <2>4. conns[conFd[c]] = c
    BY <1>1, <2>1, <2>3 DEF FunctorInv, TokenInv, InMap
  <2>5. conFd[c] \in Fds /\ c # None
    BY <1>1, <2>1 DEF FunctorInv, TypeInv, TypeOK, Accepted
  <2>6. c \notin destroyed
    BY <1>1, <2>4, <2>5 DEF FunctorInv, ObjInv
  <2> QED BY <1>1, <2>6
<1>2. FunctorInv => FunctorsAlive
  BY <1>1 DEF FunctorsAlive
<1> QED BY <1>2, FunctorAlways, PTL

LEMMA RightClientStep == FunctorInv /\ RightClient /\ [Next]_vars => RightClient'
<1> SUFFICES ASSUME FunctorInv, RightClient, [Next]_vars PROVE RightClient'
  OBVIOUS
<1> USE DEF clientVars, RightClient
<1>1. rude => rude'
  BY DEF Next, ClientStep, Connect, Request, Hangup, LoopStep, EpollWait, EndOfBatch, AcceptFails,
     HandleNewConnection, HandleRead, SwapPendings, RunFunctor, FunctorsDone, AddTask, HandleClosed,
     HandleMessage, WorkerStep, TakeTask, ParseFails, RunInLoop, WakeLoop, ReleaseTask, CloseAgain, vars
<1>2. CASE RunFunctor
  <2> DEFINE c == Head(tmp)
             o == fdTable[conFd[c]]
  <2>1. ASSUME ~rude, o # None PROVE o = c
    <3>1. tmp \in Seq(Conns) /\ tmp # <<>>
      BY <1>2 DEF RunFunctor, FunctorInv, TypeInv, TypeOK
    <3>2. c \in Conns /\ c \in Elems(tmp)
      <4>1. Head(tmp) \in Conns /\ Elems(tmp) = Elems(Tail(tmp)) \union {Head(tmp)}
        BY <3>1, ElemsTail
      <4> QED BY <4>1
    <3>3. Moving(c) BY <3>2 DEF Moving
    <3>4. Accepted(c) BY <3>2, <3>3, MovingAccepted DEF FunctorInv
    <3>5. conFd[c] \in Fds /\ c # None
      BY <3>2, <3>4 DEF FunctorInv, TypeInv, TypeOK, Accepted
    <3>6. conns[conFd[c]] = c
      BY <2>1, <3>2, <3>3 DEF FunctorInv, TokenInv, InMap
    <3>7. conns[conFd[c]] \in {None, o}
      BY <2>1, <3>5 DEF FunctorInv, ObjInv
    <3> QED BY <3>5, <3>6, <3>7
  <2>2. wrong' = wrong \/ (o # None /\ o # c)
    BY <1>2 DEF RunFunctor
  <2> QED BY <1>1, <2>1, <2>2
<1>3. CASE ~RunFunctor
  <2>1. UNCHANGED wrong
    BY <1>3 DEF Next, ClientStep, Connect, Request, Hangup, LoopStep, EpollWait, EndOfBatch, AcceptFails,
     HandleNewConnection, HandleRead, SwapPendings, FunctorsDone, AddTask, HandleClosed,
     HandleMessage, WorkerStep, TakeTask, ParseFails, RunInLoop, WakeLoop, ReleaseTask, CloseAgain, vars
  <2> QED BY <1>1, <2>1
<1> QED BY <1>2, <1>3

\* Under the same condition no client receives an answer to another one's
\* request, although descriptor numbers are reused and closed twice.
THEOREM AnswersReachTheirClient == Spec => []RightClient
<1>1. Init => RightClient BY DEF Init, RightClient
<1> QED BY <1>1, RightClientStep, FunctorAlways, PTL DEF Spec
=============================================================================
