---------------------------- MODULE CacheManager ----------------------------
(***************************************************************************)
(* CacheManager: one LRUCache per worker thread, the update that the event   *)
(* loop's timer runs over all of them with no lock, and the backup file.     *)
(*                                                                          *)
(* A worker calls get and put on its own cache, the timer put on all.  Every  *)
(* call either makes of a list or an index is a step of its own, and those of *)
(* a worker and the timer come in any order, in one cache too.  Two threads   *)
(* inside the same list or index at the same moment are undefined behaviour:  *)
(* one comes after the other, or the process dies, which it can do at any     *)
(* moment (Crash).  It also dies where a call is given a freed node.          *)
(*                                                                          *)
(* The process can be started again, with another THREAD_POOL_SIZE.          *)
(***************************************************************************)
EXTENDS LRUCache

CONSTANTS
  Sizes,          \* the values THREAD_POOL_SIZE may be given at a start
  MaxBusy,        \* bound: workers with a request at once
  MaxOverlaps,    \* bound: uses of a cache while the timer updates
  MaxPending,     \* bound: uses not yet synchronised, of all caches
  MaxLines        \* bound: lines written to the file in one update

ASSUME CacheManagerAssumption ==
  /\ Sizes \subseteq Nat \ {0}
  /\ MaxBusy \in Nat /\ MaxOverlaps \in Nat
  /\ MaxPending \in Nat /\ MaxLines \in Nat

NoKey == "none"
ASSUME NoKeyAssumption == NoKey \notin Keys

VARIABLES
  caches,         \* _caches; empty while the process is down
  calls,          \* how far the get or put is that a worker or the timer runs
  file,           \* the lines of the backup file, which outlives the process
  stage,          \* the loop of updateCache that runs, or "idle"
  at,             \* the cache that loop is at
  pos,            \* merge: unused; update: elements of base's list applied;
                  \* write: the node ofs is given next, NoNode for end()
  missed,         \* the key each worker has looked up in vain and computes
  overlaps,       \* history: the number of uses during an update
  disturbed,      \* history: a worker used its cache during an update, or
                  \* the process was started from a file with a key twice
  raced           \* history: the caches that were inside a worker's call and
                  \* the timer's put at once

timerVars == <<stage, at, pos>>
historyVars == <<overlaps, disturbed, raced>>
vars == <<caches, calls, file, timerVars, missed, historyVars>>

Threads == DOMAIN caches
Size == Cardinality(Threads)
Base == caches[0]
Timer == -1
Callers == Threads \union {Timer}
Pendings == {use \in Threads \X (1 .. MaxPending + Size) : use[2] <= Len(caches[use[1]].pending)}

-----------------------------------------------------------------------------
(* A get or a put that is under way: its next step, the node that keyExist    *)
(* found, the pair it moves or puts and the key it evicts.                    *)

NoPair == [key |-> NoKey, val |-> NoKey]
NoCall == [step |-> "none", op |-> "update", node |-> NoNode, elem |-> NoPair, last |-> NoKey]
NoCalls == [t \in {Timer} |-> NoCall]

GetCall(c, k) ==
  IF Found(c, k) THEN [NoCall EXCEPT !.step = "read", !.op = "get", !.node = c.hash[k]] ELSE NoCall

PutCall(c, k, v, op) ==
  [NoCall EXCEPT !.step = IF Found(c, k) THEN "erase" ELSE "push",
                 !.op = op, !.node = c.hash[k], !.elem = [key |-> k, val |-> v]]

Inside(t) == calls[t].step # "none"
UsersInside == {w \in Threads : Inside(w)}
Putting == calls[Timer].step \notin {"none", "drop"}

-----------------------------------------------------------------------------
(* Faulty variants, each a bug this code could have; used by no definition. *)

\* initCache reads the file in the loop that constructs: push_back copies the
\* caches when the vector grows, and the copied index points to old nodes.
BuiltWhileReading(n) ==
  [i \in 0 .. n - 1 |->
     LET c == readFromFile(NewCache(n), file)
     IN  IF i = n - 1 THEN c
         ELSE [c EXCEPT !.data = [j \in DOMAIN @ |-> [@[j] EXCEPT !.node = @ + Len(file)]]]]

\* The second loop starts at cache 1, because cache 0 is the basis.
UpdateSkipsBase ==
  /\ stage = "merge" /\ at = Size
  /\ stage' = "update" /\ at' = 1 /\ pos' = 0
  /\ UNCHANGED <<caches, calls, file, missed, historyVars>>

\* i <= _caches.size() in the second loop.
UpdateNextTooFar ==
  /\ stage = "update" /\ at <= Size /\ pos = Len(Base.pending) /\ ~Inside(Timer)
  /\ at' = at + 1 /\ pos' = 0
  /\ UNCHANGED <<caches, calls, file, stage, missed, historyVars>>

-----------------------------------------------------------------------------
\* initCache: construct all the caches, then read the file into each.
initCache(n) == [i \in 0 .. n - 1 |-> readFromFile(NewCache(n), file)]

Init ==
  /\ caches = <<>> /\ calls = NoCalls
  /\ file = <<>>
  /\ stage = "down" /\ at = 0 /\ pos = 0
  /\ missed = <<>>
  /\ overlaps = 0 /\ disturbed = FALSE /\ raced = {}

\* main: initCache runs before the pool and the event loop are started.
Start(n) ==
  /\ stage = "down"
  /\ caches' = initCache(n)
  /\ calls' = [t \in (0 .. n - 1) \union {Timer} |-> NoCall]
  /\ missed' = [w \in 0 .. n - 1 |-> NoKey]
  /\ stage' = "idle"
  /\ disturbed' = \E i, j \in DOMAIN file : i # j /\ file[i].key = file[j].key
  /\ UNCHANGED <<file, at, pos, overlaps, raced>>

Crash ==
  /\ stage # "down"
  /\ caches' = <<>> /\ calls' = NoCalls /\ missed' = <<>>
  /\ stage' = "down" /\ at' = 0 /\ pos' = 0
  /\ raced' = {}
  /\ UNCHANGED <<file, overlaps, disturbed>>

(***************************************************************************)
(* The workers: threadTask.                                                 *)
(***************************************************************************)

MayUse(w) ==
  /\ stage # "down" /\ ~Inside(w)
  /\ Cardinality(Pendings) < MaxPending
  /\ Cardinality({v \in Threads \ {w} : Inside(v) \/ missed[v] # NoKey}) < MaxBusy

\* Whoever uses a cache while the timer runs disturbs the update.
NoteUse(w) ==
  /\ IF stage = "idle" THEN UNCHANGED <<overlaps, disturbed>>
     ELSE /\ overlaps < MaxOverlaps
          /\ overlaps' = overlaps + 1
          /\ disturbed' = TRUE
  /\ raced' = IF Putting /\ at = w THEN raced \union {w} ELSE raced

\* keyExist: what is not found ends get, and the worker computes the answer.
LookUp(w, k) ==
  /\ MayUse(w) /\ NoteUse(w)
  /\ missed[w] = NoKey
  /\ calls' = [calls EXCEPT ![w] = GetCall(caches[w], k)]
  /\ missed' = [missed EXCEPT ![w] = IF Found(caches[w], k) THEN NoKey ELSE k]
  /\ UNCHANGED <<caches, file, timerVars>>

\* The answer was computed, and the cache may have changed since the lookup.
Store(w, v) ==
  /\ MayUse(w) /\ NoteUse(w)
  /\ missed[w] # NoKey
  /\ calls' = [calls EXCEPT ![w] = PutCall(caches[w], missed[w], v, "put")]
  /\ missed' = [missed EXCEPT ![w] = NoKey]
  /\ UNCHANGED <<caches, file, timerVars>>

\* There is no answer: nothing is put.
NoAnswer(w) ==
  /\ stage # "down" /\ ~Inside(w)
  /\ missed[w] # NoKey
  /\ missed' = [missed EXCEPT ![w] = NoKey]
  /\ UNCHANGED <<caches, calls, file, timerVars, historyVars>>

(***************************************************************************)
(* The rest of get and put, by whichever thread runs it, after keyExist.    *)
(***************************************************************************)

CacheOf(t) == IF t = Timer THEN at ELSE t

Proceed(t, cache, call) ==
  /\ caches' = [caches EXCEPT ![CacheOf(t)] = cache]
  /\ calls' = [calls EXCEPT ![t] = call]
  /\ UNCHANGED <<file, timerVars, missed, historyVars>>

\* elem = *it, of which only get makes use: anything, where the node is freed.
Read(t) ==
  LET c == caches[CacheOf(t)]
      call == calls[t]
  IN  /\ call.step = "read"
      /\ \E elem \in IF HasNode(c, call.node) THEN {Pair(At(c, call.node))} ELSE Pairs :
           Proceed(t, c, [call EXCEPT !.step = "erase", !.elem = elem])

Erase(t) ==
  LET c == caches[CacheOf(t)]
      call == calls[t]
  IN  /\ call.step = "erase" /\ HasNode(c, call.node)
      /\ Proceed(t, EraseNode(c, call.node), [call EXCEPT !.step = "push"])

\* Only a put that found no entry may have to evict one.
PushFront(t) ==
  LET c == caches[CacheOf(t)]
      call == calls[t]
  IN  /\ call.step = "push"
      /\ Proceed(t, EmplaceFront(c, call.elem.key, call.elem.val),
                 [call EXCEPT !.step = IF call.node = NoNode THEN "size" ELSE "index"])

CheckSize(t) ==
  LET c == caches[CacheOf(t)]
      call == calls[t]
  IN  /\ call.step = "size"
      /\ Proceed(t, c, IF Len(c.data) > c.capacity
                       THEN [call EXCEPT !.step = "unindex", !.last = Last(c.data).key]
                       ELSE [call EXCEPT !.step = "index"])

EraseKey(t) ==
  LET c == caches[CacheOf(t)]
      call == calls[t]
  IN  /\ call.step = "unindex"
      /\ Proceed(t, Unindex(c, call.last), [call EXCEPT !.step = "pop"])

RemoveLast(t) ==
  LET c == caches[CacheOf(t)]
      call == calls[t]
  IN  /\ call.step = "pop" /\ c.data # <<>>
      /\ Proceed(t, PopBack(c), [call EXCEPT !.step = "index"])

SetIndex(t) ==
  LET c == caches[CacheOf(t)]
      call == calls[t]
  IN  /\ call.step = "index"
      /\ Proceed(t, IndexFront(c, call.elem.key),
                 IF call.op = "update" THEN NoCall ELSE [call EXCEPT !.step = "record"])

RecordUse(t) ==
  LET c == caches[CacheOf(t)]
      call == calls[t]
  IN  /\ call.step = "record"
      /\ Proceed(t, Record(c, call.elem),
                 IF call.op = "put" THEN NoCall ELSE [call EXCEPT !.step = "return"])

\* get answers what is in front now.
Return(t) ==
  LET c == caches[CacheOf(t)]
  IN  /\ calls[t].step = "return" /\ c.data # <<>>
      /\ Proceed(t, c, NoCall)

CallStep(t) ==
  \/ Read(t) \/ Erase(t) \/ PushFront(t) \/ CheckSize(t) \/ EraseKey(t)
  \/ RemoveLast(t) \/ SetIndex(t) \/ RecordUse(t) \/ Return(t)

(***************************************************************************)
(* The timer: updateCache.                                                  *)
(***************************************************************************)

StartUpdate ==
  /\ stage = "idle"
  /\ overlaps + Cardinality(UsersInside) <= MaxOverlaps
  /\ overlaps' = overlaps + Cardinality(UsersInside)
  /\ disturbed' = (disturbed \/ UsersInside # {})
  /\ stage' = "merge" /\ at' = 1
  /\ UNCHANGED <<caches, calls, file, pos, missed, raced>>

\* mergePendingList: base's list grows at its end, and then the front of the
\* other one is taken off it, whatever it is by then.
MergeOne ==
  /\ stage = "merge" /\ at < Size /\ ~Inside(Timer)
  /\ caches[at].pending # <<>>
  /\ caches' = [caches EXCEPT ![0].pending = Append(@, Head(caches[at].pending))]
  /\ calls' = [calls EXCEPT ![Timer].step = "drop"]
  /\ UNCHANGED <<file, timerVars, missed, historyVars>>

DropOne ==
  /\ calls[Timer].step = "drop"
  /\ caches' = [caches EXCEPT ![at].pending = Tail(@)]
  /\ calls' = [calls EXCEPT ![Timer] = NoCall]
  /\ UNCHANGED <<file, timerVars, missed, historyVars>>

MergeNext ==
  /\ stage = "merge" /\ at < Size /\ ~Inside(Timer)
  /\ caches[at].pending = <<>>
  /\ at' = at + 1
  /\ UNCHANGED <<caches, calls, file, stage, pos, missed, historyVars>>

MergeEnd ==
  /\ stage = "merge" /\ at = Size
  /\ stage' = "update" /\ at' = 0 /\ pos' = 0
  /\ UNCHANGED <<caches, calls, file, missed, historyVars>>

\* update: from the last element of base's pending list to the first; this is
\* the put's keyExist.
Replay(p) ==
  /\ calls' = [calls EXCEPT ![Timer] = PutCall(caches[at], p.key, p.val, "update")]
  /\ raced' = IF Inside(at) THEN raced \union {at} ELSE raced
  /\ pos' = pos + 1
  /\ UNCHANGED <<caches, file, stage, at, missed, overlaps, disturbed>>

\* update goes from the newest to the oldest: a bug, used by no definition.
UpdateForwards ==
  /\ stage = "update" /\ at < Size /\ pos < Len(Base.pending) /\ ~Inside(Timer)
  /\ Replay(Base.pending[pos + 1])

UpdateOne ==
  /\ stage = "update" /\ at < Size /\ pos < Len(Base.pending) /\ ~Inside(Timer)
  /\ Replay(Base.pending[Len(Base.pending) - pos])

UpdateNext ==
  /\ stage = "update" /\ at < Size /\ pos = Len(Base.pending) /\ ~Inside(Timer)
  /\ at' = at + 1 /\ pos' = 0
  /\ UNCHANGED <<caches, calls, file, stage, missed, historyVars>>

UpdateEnd ==
  /\ stage = "update" /\ at = Size
  /\ stage' = "clear" /\ at' = 0
  /\ UNCHANGED <<caches, calls, file, pos, missed, historyVars>>

ClearOne ==
  /\ stage = "clear" /\ at < Size
  /\ caches' = [caches EXCEPT ![at] = clearPendingList(@)]
  /\ at' = at + 1
  /\ UNCHANGED <<calls, file, stage, pos, missed, historyVars>>

\* writeToFile: opening the file empties it; the range-for starts at begin().
OpenFile ==
  /\ stage = "clear" /\ at = Size
  /\ file' = <<>>
  /\ stage' = "write"
  /\ pos' = IF Base.data = <<>> THEN NoNode ELSE Base.data[1].node
  /\ UNCHANGED <<caches, calls, at, missed, historyVars>>

\* One line, which endl flushes, and the iterator goes on to the next node,
\* wherever worker 0 has moved its own to.  A node that was freed and not
\* used again has nothing to go on to: the process dies there (Crash).
WriteLine ==
  /\ stage = "write"
  /\ Len(file) < MaxLines
  /\ \E i \in DOMAIN Base.data :
       /\ Base.data[i].node = pos
       /\ file' = Append(file, Pair(Base.data[i]))
       /\ pos' = IF i = Len(Base.data) THEN NoNode ELSE Base.data[i + 1].node
  /\ UNCHANGED <<caches, calls, stage, at, missed, historyVars>>

CloseFile ==
  /\ stage = "write" /\ pos = NoNode
  /\ stage' = "idle" /\ at' = 0 /\ pos' = 0
  /\ UNCHANGED <<caches, calls, file, missed, historyVars>>

updateCache ==
  \/ StartUpdate \/ MergeOne \/ DropOne \/ MergeNext \/ MergeEnd
  \/ UpdateOne \/ UpdateNext \/ UpdateEnd
  \/ ClearOne \/ OpenFile \/ WriteLine \/ CloseFile

threadTask(w) == NoAnswer(w) \/ \E k \in Keys : LookUp(w, k) \/ \E v \in Vals : Store(w, v)

Next ==
  \/ Crash
  \/ \E n \in Sizes : Start(n)
  \/ updateCache
  \/ \E w \in Threads : threadTask(w)
  \/ \E t \in Callers : CallStep(t)

Spec == Init /\ [][Next]_vars

-----------------------------------------------------------------------------
TypeOK ==
  /\ Threads = {} \/ \E n \in Sizes : Threads = 0 .. n - 1
  /\ \A i \in Threads : CacheType(caches[i])
  /\ file \in Seq(Pairs)
  /\ stage \in {"down", "idle", "merge", "update", "clear", "write"}
  /\ at \in 0 .. Size
  /\ pos \in Nat
  /\ missed \in [Threads -> Keys \union {NoKey}]
  /\ overlaps \in 0 .. MaxOverlaps
  /\ disturbed \in BOOLEAN
  /\ raced \in SUBSET Threads
  /\ DOMAIN calls = Callers
  /\ \A t \in Callers :
       /\ calls[t].step \in {"none", "read", "erase", "push", "size", "unindex", "pop", "index",
                             "record", "return", "drop"}
       /\ calls[t].op \in {"get", "put", "update"} /\ calls[t].node \in Nat
       /\ calls[t].elem \in Pairs \union {NoPair} /\ calls[t].last \in Keys \union {NoKey}

\* Between calls no cache's index holds an iterator of a freed node or of
\* another key's, whatever the file held and the timer put, and although the
\* workers' calls came between the timer's steps.  A cache that a worker's call
\* and the timer's put were inside at once is left out: there a push_front of
\* the one before the other's write to the index leads two keys to one node.
IndexSafe == \A i \in Threads \ raced : ~Inside(i) /\ ~(Putting /\ at = i) => IndexIsSafe(caches[i])

\* The uses in a list, newest first, that no newer one of the same key hides,
\* and how many of them there are down to the one at i.
Firsts(uses) == {i \in DOMAIN uses : \A j \in 1 .. i - 1 : uses[j].key # uses[i].key}
Rank(uses, i) == Cardinality({j \in Firsts(uses) : j <= i})

\* The distinct keys of a list of uses, the most recent ones, at most n.
Recent(n, uses) ==
  LET many == Cardinality(Firsts(uses))
  IN  [k \in 1 .. (IF n < many THEN n ELSE many) |->
         uses[CHOOSE i \in Firsts(uses) : Rank(uses, i) = k]]

\* A cache built from a longer backup goes on as one of that length.
Kept == IF Size < Len(file) THEN Len(file) ELSE Size

\* Between updates that no worker disturbed, a cache that no call is inside
\* holds what the backup file holds as changed by its uses that it has yet to
\* make known.  So
\* once there are none, all caches are the same and a restart changes none.
FileAndPending ==
  stage = "idle" /\ ~disturbed =>
    \A i \in Threads : ~Inside(i) =>
      PairsOf(caches[i].data) = Recent(Kept, caches[i].pending \o file)

\* When such an update has gone through all caches, each of them holds the
\* old backup as changed by the uses of all of them, the newest at the front.
AllUsesApplied ==
  stage = "clear" /\ at = 0 /\ ~disturbed =>
    \A i \in Threads : PairsOf(caches[i].data) = Recent(Kept, Base.pending \o file)

Settled == stage = "idle" /\ \A i \in Threads : ~Inside(i) /\ caches[i].pending = <<>>

\* CacheManager.cc: all caches are updated with cache 0 as the basis; so
\* after the update they hold what cache 0 holds.
UpdatedFromBase ==
  Settled => \A i \in Threads : PairsOf(caches[i].data) = PairsOf(Base.data)
=============================================================================
