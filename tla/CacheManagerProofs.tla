------------------------- MODULE CacheManagerProofs -------------------------
(***************************************************************************)
(* Proofs about CacheManager, for every set of keys and values, every number  *)
(* of threads a start may choose, and every bound: types, an index that does  *)
(* not dangle where no two calls were inside a cache at once, and what the    *)
(* caches and the backup hold of the uses, before, during and after an update *)
(* that no worker disturbs.                                                  *)
(*                                                                          *)
(* A call that is under way leaves a cache with an index that is wrong.  The   *)
(* invariant is therefore about Finish, the cache as it will be when the call *)
(* is through: no step of the call changes that.                             *)
(***************************************************************************)
EXTENDS CacheManager, LRUCacheProofs

\* What is left of a get or a put from the write to the index on, from
\* push_front or emplace_front on, and from the erase on.
AfterIndex(c, elem, op) ==
  LET d == IndexFront(c, elem.key) IN IF op = "update" THEN d ELSE Record(d, elem)
AfterPush(c, node, elem, op) ==
  LET d == EmplaceFront(c, elem.key, elem.val)
  IN  AfterIndex(IF node = NoNode THEN Evict(d) ELSE d, elem, op)
AfterErase(c, node, elem, op) == AfterPush(EraseNode(c, node), node, elem, op)

\* Cache c once the call o is through.
Finish(c, o) ==
  CASE o.step = "read"    -> AfterErase(c, o.node, Pair(At(c, o.node)), o.op)
    [] o.step = "erase"   -> AfterErase(c, o.node, o.elem, o.op)
    [] o.step = "push"    -> AfterPush(c, o.node, o.elem, o.op)
    [] o.step = "size"    -> AfterIndex(Evict(c), o.elem, o.op)
    [] o.step = "unindex" -> AfterIndex(PopBack(Unindex(c, o.last)), o.elem, o.op)
    [] o.step = "pop"     -> AfterIndex(PopBack(c), o.elem, o.op)
    [] o.step = "index"   -> AfterIndex(c, o.elem, o.op)
    [] o.step = "record"  -> Record(c, o.elem)
    [] OTHER              -> c

Steps == {"none", "read", "erase", "push", "size", "unindex", "pop", "index", "record", "return", "drop"}

CallType(o) ==
  /\ o \in [step : Steps, op : {"get", "put", "update"}, node : Nat,
            elem : Pairs \union {NoPair}, last : Keys \union {NoKey}]
  /\ o.step \in {"erase", "push", "size", "unindex", "pop", "index", "record"} => o.elem \in Pairs
  /\ o.step = "unindex" => o.last \in Keys

\* A step of call o makes of cache c cache d and of the call q.
Moves(c, o, d, q) ==
  \/ /\ o.step = "read" /\ d = c
     /\ \E elem \in IF HasNode(c, o.node) THEN {Pair(At(c, o.node))} ELSE Pairs :
          q = [o EXCEPT !.step = "erase", !.elem = elem]
  \/ /\ o.step = "erase" /\ HasNode(c, o.node)
     /\ d = EraseNode(c, o.node) /\ q = [o EXCEPT !.step = "push"]
  \/ /\ o.step = "push"
     /\ d = EmplaceFront(c, o.elem.key, o.elem.val)
     /\ q = [o EXCEPT !.step = IF o.node = NoNode THEN "size" ELSE "index"]
  \/ /\ o.step = "size" /\ d = c
     /\ IF Len(c.data) > c.capacity THEN q = [o EXCEPT !.step = "unindex", !.last = Last(c.data).key]
        ELSE q = [o EXCEPT !.step = "index"]
  \/ /\ o.step = "unindex" /\ d = Unindex(c, o.last) /\ q = [o EXCEPT !.step = "pop"]
  \/ /\ o.step = "pop" /\ c.data # <<>> /\ d = PopBack(c) /\ q = [o EXCEPT !.step = "index"]
  \/ /\ o.step = "index" /\ d = IndexFront(c, o.elem.key)
     /\ q = IF o.op = "update" THEN NoCall ELSE [o EXCEPT !.step = "record"]
  \/ /\ o.step = "record" /\ d = Record(c, o.elem)
     /\ q = IF o.op = "put" THEN NoCall ELSE [o EXCEPT !.step = "return"]
  \/ o.step = "return" /\ d = c /\ q = NoCall

LEMMA CallMoves ==
  ASSUME NEW t, CallStep(t)
  PROVE  \E d, q : Moves(caches[CacheOf(t)], calls[t], d, q) /\ Proceed(t, d, q)
<1>1. CASE Read(t)
  BY <1>1 DEF Read, Moves
<1>2. CASE Erase(t)
  BY <1>2 DEF Erase, Moves
<1>3. CASE PushFront(t)
  BY <1>3 DEF PushFront, Moves
<1>4. CASE CheckSize(t)
  BY <1>4 DEF CheckSize, Moves
<1>5. CASE EraseKey(t)
  BY <1>5 DEF EraseKey, Moves
<1>6. CASE RemoveLast(t)
  BY <1>6 DEF RemoveLast, Moves
<1>7. CASE SetIndex(t)
  BY <1>7 DEF SetIndex, Moves
<1>8. CASE RecordUse(t)
  BY <1>8 DEF RecordUse, Moves
<1>9. CASE Return(t)
  BY <1>9 DEF Return, Moves
<1> QED BY <1>1, <1>2, <1>3, <1>4, <1>5, <1>6, <1>7, <1>8, <1>9 DEF CallStep

LEMMA NoCallFacts == CallType(NoCall) /\ NoCall.step = "none"
BY DEF CallType, NoCall, NoPair, NoNode, Steps

\* No step of a call changes what the cache will be when it is through, as
\* long as the node that keyExist found is still there when it is read.
LEMMA MovesKeepEnd ==
  ASSUME NEW c, NEW o, NEW d, NEW q, Moves(c, o, d, q), CallType(o),
         o.step = "read" => HasNode(c, o.node)
  PROVE  Finish(d, q) = Finish(c, o)
<1>0. o \in [step : Steps, op : {"get", "put", "update"}, node : Nat,
             elem : Pairs \union {NoPair}, last : Keys \union {NoKey}]
  BY DEF CallType
<1>1. CASE o.step = "read"
  <2>1. d = c /\ q = [o EXCEPT !.step = "erase", !.elem = Pair(At(c, o.node))]
    BY <1>1 DEF Moves
  <2>2. q.step = "erase" /\ q.elem = Pair(At(c, o.node)) /\ q.node = o.node /\ q.op = o.op
    BY <1>0, <2>1
  <2> QED BY <1>1, <2>1, <2>2 DEF Finish
<1>2. CASE o.step = "erase"
  <2>1. d = EraseNode(c, o.node) /\ q = [o EXCEPT !.step = "push"]
    BY <1>2 DEF Moves
  <2>2. q.step = "push" /\ q.elem = o.elem /\ q.node = o.node /\ q.op = o.op
    BY <1>0, <2>1
  <2> QED BY <1>2, <2>1, <2>2 DEF Finish, AfterErase
<1>3. CASE o.step = "push"
  <2>1. d = EmplaceFront(c, o.elem.key, o.elem.val)
        /\ q = [o EXCEPT !.step = IF o.node = NoNode THEN "size" ELSE "index"]
    BY <1>3 DEF Moves
  <2>2. q.step = (IF o.node = NoNode THEN "size" ELSE "index") /\ q.elem = o.elem /\ q.op = o.op
    BY <1>0, <2>1
  <2> QED BY <1>3, <2>1, <2>2 DEF Finish, AfterPush
<1>4. CASE o.step = "size"
  <2>1. d = c /\ IF Len(c.data) > c.capacity
                 THEN q = [o EXCEPT !.step = "unindex", !.last = Last(c.data).key]
                 ELSE q = [o EXCEPT !.step = "index"]
    BY <1>4 DEF Moves
  <2>2. /\ q.elem = o.elem /\ q.op = o.op
        /\ Len(c.data) > c.capacity => q.step = "unindex" /\ q.last = Last(c.data).key
        /\ ~(Len(c.data) > c.capacity) => q.step = "index"
    BY <1>0, <2>1
  <2> QED BY <1>4, <2>1, <2>2 DEF Finish, Evict
<1>5. CASE o.step = "unindex"
  <2>1. d = Unindex(c, o.last) /\ q = [o EXCEPT !.step = "pop"]
    BY <1>5 DEF Moves
  <2>2. q.step = "pop" /\ q.elem = o.elem /\ q.op = o.op
    BY <1>0, <2>1
  <2> QED BY <1>5, <2>1, <2>2 DEF Finish
<1>6. CASE o.step = "pop"
  <2>1. d = PopBack(c) /\ q = [o EXCEPT !.step = "index"]
    BY <1>6 DEF Moves
  <2>2. q.step = "index" /\ q.elem = o.elem /\ q.op = o.op
    BY <1>0, <2>1
  <2> QED BY <1>6, <2>1, <2>2 DEF Finish
<1>7. CASE o.step = "index"
  <2>1. d = IndexFront(c, o.elem.key) /\ q = IF o.op = "update" THEN NoCall ELSE [o EXCEPT !.step = "record"]
    BY <1>7 DEF Moves
  <2>2. IF o.op = "update" THEN q.step = "none" ELSE q.step = "record" /\ q.elem = o.elem
    BY <1>0, <2>1, NoCallFacts
  <2> QED BY <1>7, <2>1, <2>2 DEF Finish, AfterIndex
<1>8. CASE o.step = "record"
  <2>1. d = Record(c, o.elem) /\ q = IF o.op = "put" THEN NoCall ELSE [o EXCEPT !.step = "return"]
    BY <1>8 DEF Moves
  <2>2. q.step \in {"none", "return"}
    BY <1>0, <2>1, NoCallFacts
  <2> QED BY <1>8, <2>1, <2>2 DEF Finish
<1>9. CASE o.step = "return"
  <2>1. d = c /\ q.step = "none"
    BY <1>9, NoCallFacts DEF Moves
  <2> QED BY <1>9, <2>1 DEF Finish
<1> QED BY <1>1, <1>2, <1>3, <1>4, <1>5, <1>6, <1>7, <1>8, <1>9 DEF Moves

\* A call just begun will have done what get or put does.
LEMMA GetEnds ==
  ASSUME NEW c, Sound(c), NEW k \in Keys
  PROVE  LET o == GetCall(c, k) IN
           /\ CallType(o) /\ Finish(c, o) = get(c, k) /\ o.step \in {"none", "read"}
           /\ o.step = "read" => HasNode(c, o.node)
<1> DEFINE o == GetCall(c, k)
<1>1. CASE ~Found(c, k)
  <2>1. o = NoCall
    BY <1>1 DEF GetCall
  <2> QED BY <1>1, <2>1, NoCallFacts DEF Finish, get
<1>2. CASE Found(c, k)
  <2>1. o = [NoCall EXCEPT !.step = "read", !.op = "get", !.node = c.hash[k]]
    BY <1>2 DEF GetCall
  <2>2. c.hash[k] \in Nat
    BY DEF Sound, CacheType
  <2>3. o.step = "read" /\ o.op = "get" /\ o.node = c.hash[k] /\ CallType(o)
    BY <2>1, <2>2 DEF NoCall, CallType, Steps
  <2> HIDE DEF o
  <2>4. /\ Place(c, c.hash[k]) \in 1 .. Len(c.data) /\ c.data \in Seq(Entries)
        /\ c.data[Place(c, c.hash[k])].node = c.hash[k]
    BY <1>2, PlaceFacts DEF Sound, CacheType
  <2>5. HasNode(c, o.node) /\ At(c, o.node).node = o.node
    BY <2>3, <2>4 DEF HasNode, At
  <2> DEFINE e == At(c, o.node)
  <2>6. /\ Pair(e).key = e.key /\ Pair(e).val = e.val /\ o.node # NoNode
    BY <1>2, <2>3 DEF Pair, Found
  <2>7. get(c, k) = Record(IndexFront(EmplaceFront(EraseNode(c, e.node), e.key, e.val), e.key), Pair(e))
    BY <1>2, <2>3 DEF get
  <2> HIDE DEF e
  <2>8. AfterErase(c, o.node, Pair(e), "get") =
          Record(IndexFront(EmplaceFront(EraseNode(c, o.node), e.key, e.val), e.key), Pair(e))
    BY <2>6 DEF AfterErase, AfterPush, AfterIndex
  <2>9. Finish(c, o) = get(c, k)
    BY <2>3, <2>5, <2>7, <2>8 DEF Finish, e
  <2> QED BY <2>3, <2>5, <2>9 DEF o
<1> QED BY <1>1, <1>2

LEMMA PutEnds ==
  ASSUME NEW c, CacheType(c), NEW k \in Keys, NEW v \in Vals, NEW op \in {"put", "update"}
  PROVE  LET o == PutCall(c, k, v, op) IN
           /\ CallType(o) /\ Finish(c, o) = put(c, k, v, op = "update") /\ o.step \in {"erase", "push"}
<1> DEFINE o == PutCall(c, k, v, op)
           p == [key |-> k, val |-> v]
<1>1. p \in Pairs /\ p.key = k /\ p.val = v /\ c.hash[k] \in Nat
  BY DEF Pairs, CacheType
<1>2. o = [NoCall EXCEPT !.step = IF Found(c, k) THEN "erase" ELSE "push",
                         !.op = op, !.node = c.hash[k], !.elem = p]
  BY DEF PutCall
<1> HIDE DEF p
<1>3. /\ o.step = (IF Found(c, k) THEN "erase" ELSE "push") /\ o.op = op /\ o.node = c.hash[k]
      /\ o.elem = p /\ CallType(o)
  BY <1>1, <1>2 DEF NoCall, CallType, Steps
<1> HIDE DEF o
<1>4. CASE Found(c, k)
  <2>1. Finish(c, o) = AfterErase(c, c.hash[k], p, op) /\ c.hash[k] # NoNode
    BY <1>3, <1>4 DEF Finish, Found
  <2> QED BY <1>1, <1>3, <1>4, <2>1 DEF AfterErase, AfterPush, AfterIndex, put, p, o
<1>5. CASE ~Found(c, k)
  <2>1. Finish(c, o) = AfterPush(c, c.hash[k], p, op) /\ c.hash[k] = NoNode
    BY <1>3, <1>5 DEF Finish, Found
  <2> QED BY <1>1, <1>3, <1>5, <2>1 DEF AfterPush, AfterIndex, put, p, o
<1> QED BY <1>4, <1>5

LEMMA AtFacts ==
  ASSUME NEW c, CacheType(c), NEW n, HasNode(c, n)
  PROVE  Place(c, n) \in 1 .. Len(c.data) /\ Pair(At(c, n)) \in Pairs
<1>1. c.data \in Seq(Entries) /\ DOMAIN c.data = 1 .. Len(c.data)
  BY DEF CacheType
<1>2. Place(c, n) \in 1 .. Len(c.data)
  BY <1>1 DEF Place, HasNode
<1>3. c.data[Place(c, n)] \in Entries
  BY <1>1, <1>2
<1> QED BY <1>2, <1>3 DEF At, Pair, Pairs, Entries

\* Every step keeps the types, whatever came between it and the one before.
LEMMA MovesKeepTypes ==
  ASSUME NEW c, NEW o, NEW d, NEW q, Moves(c, o, d, q), CacheType(c), CallType(o)
  PROVE  /\ CacheType(d) /\ CallType(q) /\ q.step \notin {"read", "drop"}
         /\ c.pending # <<>> => d.pending # <<>>
<1>0. /\ c \in [capacity : Nat \ {0}, data : Seq(Entries), hash : [Keys -> Nat], pending : Seq(Pairs)]
      /\ o \in [step : Steps, op : {"get", "put", "update"}, node : Nat,
                elem : Pairs \union {NoPair}, last : Keys \union {NoKey}]
  BY DEF CacheType, CallType
<1>e. \A p \in Pairs : p.key \in Keys /\ p.val \in Vals
  BY DEF Pairs
<1>1. CASE o.step = "read"
  <2>1. d = c /\ \E elem \in Pairs : q = [o EXCEPT !.step = "erase", !.elem = elem]
    BY <1>1, AtFacts DEF Moves
  <2>2. PICK elem \in Pairs : q = [o EXCEPT !.step = "erase", !.elem = elem]
    BY <2>1
  <2>3. CallType(q) /\ q.step = "erase"
    BY <1>0, <2>2 DEF CallType, Steps
  <2> QED BY <2>1, <2>3
<1>2. CASE o.step = "erase"
  <2>1. d = EraseNode(c, o.node) /\ q = [o EXCEPT !.step = "push"] /\ HasNode(c, o.node) /\ o.elem \in Pairs
    BY <1>2 DEF Moves, CallType
  <2>2. CallType(q) /\ q.step = "push"
    BY <1>0, <2>1 DEF CallType, Steps
  <2>3. RemoveAt(c.data, Place(c, o.node)) \in Seq(Entries)
    BY <1>0, <2>1, AtFacts, RemoveFacts
  <2>4. CacheType(d) /\ d.pending = c.pending
    BY <1>0, <2>1, <2>3 DEF EraseNode, CacheType
  <2> QED BY <2>2, <2>4
<1>3. CASE o.step = "push"
  <2>1. d = EmplaceFront(c, o.elem.key, o.elem.val) /\ o.elem \in Pairs
        /\ q = [o EXCEPT !.step = IF o.node = NoNode THEN "size" ELSE "index"]
    BY <1>3 DEF Moves, CallType
  <2>2. CallType(q) /\ q.step \in {"size", "index"}
    BY <1>0, <2>1 DEF CallType, Steps
  <2> DEFINE e == [key |-> o.elem.key, val |-> o.elem.val, node |-> FreshNode(c.data)]
  <2>3. e \in Entries
    BY <1>0, <1>e, <2>1, FreshFacts DEF Entries, NoNode
  <2> HIDE DEF e
  <2>4. <<e>> \o c.data \in Seq(Entries)
    BY <1>0, <2>3, ConsFacts
  <2>5. d = [c EXCEPT !.data = <<e>> \o c.data]
    BY <2>1 DEF EmplaceFront, e
  <2>6. CacheType(d) /\ d.pending = c.pending
    BY <1>0, <2>4, <2>5 DEF CacheType
  <2> QED BY <2>2, <2>6
<1>4. CASE o.step = "size"
  <2>1. d = c /\ o.elem \in Pairs
        /\ IF Len(c.data) > c.capacity THEN q = [o EXCEPT !.step = "unindex", !.last = Last(c.data).key]
           ELSE q = [o EXCEPT !.step = "index"]
    BY <1>4 DEF Moves, CallType
  <2>2. Len(c.data) > c.capacity => Last(c.data).key \in Keys
    <3>1. ASSUME NEW s \in Seq(Entries), NEW n \in Nat \ {0}, Len(s) > n PROVE s[Len(s)].key \in Keys
      <4>1. s[Len(s)] \in Entries
        BY <3>1
      <4> QED BY <4>1 DEF Entries
    <3> QED BY <1>0, <3>1 DEF Last
  <2>3. CASE Len(c.data) > c.capacity
    <3>1. CallType(q) /\ q.step = "unindex"
      BY <1>0, <2>1, <2>2, <2>3 DEF CallType, Steps
    <3> QED BY <2>1, <3>1
  <2>4. CASE ~(Len(c.data) > c.capacity)
    <3>1. CallType(q) /\ q.step = "index"
      BY <1>0, <2>1, <2>4 DEF CallType, Steps
    <3> QED BY <2>1, <3>1
  <2> QED BY <2>3, <2>4
<1>5. CASE o.step = "unindex"
  <2>1. d = Unindex(c, o.last) /\ q = [o EXCEPT !.step = "pop"] /\ o.elem \in Pairs
    BY <1>5 DEF Moves, CallType
  <2>2. CallType(q) /\ q.step = "pop"
    BY <1>0, <2>1 DEF CallType, Steps
  <2>3. CacheType(d) /\ d.pending = c.pending
    BY <1>0, <2>1 DEF Unindex, CacheType, NoNode
  <2> QED BY <2>2, <2>3
<1>6. CASE o.step = "pop"
  <2>1. d = PopBack(c) /\ q = [o EXCEPT !.step = "index"] /\ c.data # <<>> /\ o.elem \in Pairs
    BY <1>6 DEF Moves, CallType
  <2>2. CallType(q) /\ q.step = "index"
    BY <1>0, <2>1 DEF CallType, Steps
  <2>3. Front(c.data) \in Seq(Entries)
    <3>1. \A s \in Seq(Entries) : s # <<>> => Len(s) > 0
      OBVIOUS
    <3> QED BY <1>0, <2>1, <3>1, FrontFacts
  <2>4. CacheType(d) /\ d.pending = c.pending
    BY <1>0, <2>1, <2>3 DEF PopBack, CacheType
  <2> QED BY <2>2, <2>4
<1>7. CASE o.step = "index"
  <2>1. d = IndexFront(c, o.elem.key) /\ q = (IF o.op = "update" THEN NoCall ELSE [o EXCEPT !.step = "record"])
        /\ o.elem \in Pairs
    BY <1>7 DEF Moves, CallType
  <2>2. CallType(q) /\ q.step \in {"none", "record"}
    <3>1. CASE o.op = "update"
      BY <2>1, <3>1, NoCallFacts
    <3>2. CASE o.op # "update"
      BY <1>0, <2>1, <3>2 DEF CallType, Steps
    <3> QED BY <3>1, <3>2
  <2> DEFINE n == IF c.data = <<>> THEN NoNode ELSE Head(c.data).node
  <2>3. n \in Nat
    <3>1. \A s \in Seq(Entries) : s # <<>> => Head(s).node \in Nat
      <4> SUFFICES ASSUME NEW s \in Seq(Entries), s # <<>> PROVE Head(s).node \in Nat
        OBVIOUS
      <4>1. Head(s) \in Entries
        OBVIOUS
      <4> QED BY <4>1 DEF Entries
    <3> QED BY <1>0, <3>1 DEF NoNode
  <2>4. d = [c EXCEPT !.hash[o.elem.key] = n]
    BY <2>1 DEF IndexFront
  <2> HIDE DEF n
  <2>5. CacheType(d) /\ d.pending = c.pending
    BY <1>0, <2>3, <2>4 DEF CacheType
  <2> QED BY <2>2, <2>5
<1>8. CASE o.step = "record"
  <2>1. d = Record(c, o.elem) /\ q = (IF o.op = "put" THEN NoCall ELSE [o EXCEPT !.step = "return"])
        /\ o.elem \in Pairs
    BY <1>8 DEF Moves, CallType
  <2>2. CallType(q) /\ q.step \in {"none", "return"}
    <3>1. CASE o.op = "put"
      BY <2>1, <3>1, NoCallFacts
    <3>2. CASE o.op # "put"
      BY <1>0, <2>1, <3>2 DEF CallType, Steps
    <3> QED BY <3>1, <3>2
  <2> DEFINE s == <<o.elem>> \o c.pending
  <2>3. s \in Seq(Pairs) /\ Len(s) = Len(c.pending) + 1 /\ Len(c.pending) \in Nat
    BY <1>0, <2>1, ConsFacts
  <2>4. s # <<>>
    BY <2>3
  <2>5. d = [c EXCEPT !.pending = s]
    BY <2>1 DEF Record
  <2> HIDE DEF s
  <2>6. CacheType(d) /\ d.pending = s
    BY <1>0, <2>3, <2>5 DEF CacheType
  <2> QED BY <2>2, <2>4, <2>6
<1>9. CASE o.step = "return"
  BY <1>9, NoCallFacts DEF Moves
<1> QED BY <1>1, <1>2, <1>3, <1>4, <1>5, <1>6, <1>7, <1>8, <1>9 DEF Moves

\* The list of uses has no part in what a call makes of list and index: the
\* timer may take uses off it in the middle of a worker's call.
Shaped(c) == c = [capacity |-> c.capacity, data |-> c.data, hash |-> c.hash, pending |-> c.pending]

LEMMA Reshape ==
  ASSUME NEW c, Shaped(c), NEW s, NEW x, NEW b, b = [c EXCEPT !.pending = s]
  PROVE  /\ Shaped([c EXCEPT !.data = x])
         /\ [b EXCEPT !.data = x] = [[c EXCEPT !.data = x] EXCEPT !.pending = s]
         /\ Shaped([c EXCEPT !.hash = x])
         /\ [b EXCEPT !.hash = x] = [[c EXCEPT !.hash = x] EXCEPT !.pending = s]
<1> DEFINE d == [capacity |-> c.capacity, data |-> x, hash |-> c.hash, pending |-> c.pending]
           h == [capacity |-> c.capacity, data |-> c.data, hash |-> x, pending |-> c.pending]
<1>1. [c EXCEPT !.data = x] = d /\ [c EXCEPT !.hash = x] = h
  BY DEF Shaped
<1>2. Shaped(d) /\ Shaped(h)
  BY DEF Shaped
<1>3. [d EXCEPT !.pending = s] = [capacity |-> c.capacity, data |-> x, hash |-> c.hash, pending |-> s]
  OBVIOUS
<1>4. [h EXCEPT !.pending = s] = [capacity |-> c.capacity, data |-> c.data, hash |-> x, pending |-> s]
  OBVIOUS
<1> DEFINE r == [capacity |-> c.capacity, data |-> c.data, hash |-> c.hash, pending |-> s]
<1>5. b = r
  BY DEF Shaped
<1>6. [r EXCEPT !.data = x] = [capacity |-> c.capacity, data |-> x, hash |-> c.hash, pending |-> s]
  OBVIOUS
<1>7. [r EXCEPT !.hash = x] = [capacity |-> c.capacity, data |-> c.data, hash |-> x, pending |-> s]
  OBVIOUS
<1> HIDE DEF d, h, r
<1> QED BY <1>1, <1>2, <1>3, <1>4, <1>5, <1>6, <1>7

\* What the methods make of c and of b, which differs from it in its uses.
Aside(c, b, s) ==
  /\ Shaped(b) /\ b.data = c.data /\ b.pending = s
  /\ \A n : Shaped(EraseNode(c, n)) /\ EraseNode(b, n) = [EraseNode(c, n) EXCEPT !.pending = s]
  /\ \A k, v : /\ Shaped(EmplaceFront(c, k, v))
               /\ EmplaceFront(b, k, v) = [EmplaceFront(c, k, v) EXCEPT !.pending = s]
  /\ \A k : Shaped(Unindex(c, k)) /\ Unindex(b, k) = [Unindex(c, k) EXCEPT !.pending = s]
  /\ Shaped(PopBack(c)) /\ PopBack(b) = [PopBack(c) EXCEPT !.pending = s]
  /\ \A k : Shaped(IndexFront(c, k)) /\ IndexFront(b, k) = [IndexFront(c, k) EXCEPT !.pending = s]
  /\ \A p : Record(b, p) = [Record(c, p) EXCEPT !.pending = <<p>> \o s]

LEMMA OtherPending ==
  ASSUME NEW c, Shaped(c), NEW s, NEW b, b = [c EXCEPT !.pending = s]
  PROVE  Aside(c, b, s)
<1>1. b = [capacity |-> c.capacity, data |-> c.data, hash |-> c.hash, pending |-> s]
  BY DEF Shaped
<1>2. Shaped(b) /\ b.capacity = c.capacity /\ b.data = c.data /\ b.hash = c.hash /\ b.pending = s
  BY <1>1 DEF Shaped
<1>3. \A x : /\ Shaped([c EXCEPT !.data = x])
             /\ [b EXCEPT !.data = x] = [[c EXCEPT !.data = x] EXCEPT !.pending = s]
             /\ Shaped([c EXCEPT !.hash = x])
             /\ [b EXCEPT !.hash = x] = [[c EXCEPT !.hash = x] EXCEPT !.pending = s]
  BY Reshape
<1>4. ASSUME NEW n
      PROVE  Shaped(EraseNode(c, n)) /\ EraseNode(b, n) = [EraseNode(c, n) EXCEPT !.pending = s]
  <2> DEFINE x == RemoveAt(c.data, Place(c, n))
  <2>1. Place(b, n) = Place(c, n)
    BY <1>2 DEF Place
  <2>2. EraseNode(c, n) = [c EXCEPT !.data = x] /\ EraseNode(b, n) = [b EXCEPT !.data = x]
    BY <1>2, <2>1 DEF EraseNode
  <2> HIDE DEF x
  <2> QED BY <1>3, <2>2
<1>5. ASSUME NEW k, NEW v
      PROVE  /\ Shaped(EmplaceFront(c, k, v))
             /\ EmplaceFront(b, k, v) = [EmplaceFront(c, k, v) EXCEPT !.pending = s]
  <2> DEFINE x == <<[key |-> k, val |-> v, node |-> FreshNode(c.data)]>> \o c.data
  <2>1. EmplaceFront(c, k, v) = [c EXCEPT !.data = x] /\ EmplaceFront(b, k, v) = [b EXCEPT !.data = x]
    BY <1>2 DEF EmplaceFront
  <2> HIDE DEF x
  <2> QED BY <1>3, <2>1
<1>6. ASSUME NEW k PROVE Shaped(Unindex(c, k)) /\ Unindex(b, k) = [Unindex(c, k) EXCEPT !.pending = s]
  <2> DEFINE x == [c.hash EXCEPT ![k] = NoNode]
  <2>1. Unindex(c, k) = [c EXCEPT !.hash = x] /\ Unindex(b, k) = [b EXCEPT !.hash = x]
    BY <1>2 DEF Unindex
  <2> HIDE DEF x
  <2> QED BY <1>3, <2>1
<1>7. Shaped(PopBack(c)) /\ PopBack(b) = [PopBack(c) EXCEPT !.pending = s]
  <2> DEFINE x == Front(c.data)
  <2>1. PopBack(c) = [c EXCEPT !.data = x] /\ PopBack(b) = [b EXCEPT !.data = x]
    BY <1>2 DEF PopBack
  <2> HIDE DEF x
  <2> QED BY <1>3, <2>1
<1>8. ASSUME NEW k PROVE Shaped(IndexFront(c, k)) /\ IndexFront(b, k) = [IndexFront(c, k) EXCEPT !.pending = s]
  <2> DEFINE x == [c.hash EXCEPT ![k] = IF c.data = <<>> THEN NoNode ELSE Head(c.data).node]
  <2>1. IndexFront(c, k) = [c EXCEPT !.hash = x] /\ IndexFront(b, k) = [b EXCEPT !.hash = x]
    BY <1>2 DEF IndexFront
  <2> HIDE DEF x
  <2> QED BY <1>3, <2>1
<1>9. ASSUME NEW p PROVE Record(b, p) = [Record(c, p) EXCEPT !.pending = <<p>> \o s]
  <2> DEFINE x == <<p>> \o s
             y == <<p>> \o c.pending
  <2>1. Record(c, p) = [c EXCEPT !.pending = y] /\ Record(b, p) = [b EXCEPT !.pending = x]
    BY <1>2 DEF Record
  <2> HIDE DEF x, y
  <2> DEFINE d == [capacity |-> c.capacity, data |-> c.data, hash |-> c.hash, pending |-> y]
  <2>2. [c EXCEPT !.pending = y] = d
    BY DEF Shaped
  <2> DEFINE r == [capacity |-> c.capacity, data |-> c.data, hash |-> c.hash, pending |-> s]
  <2>b. b = r
    BY <1>1
  <2>3. [r EXCEPT !.pending = x] = [capacity |-> c.capacity, data |-> c.data, hash |-> c.hash, pending |-> x]
    OBVIOUS
  <2>a. [d EXCEPT !.pending = x] = [capacity |-> c.capacity, data |-> c.data, hash |-> c.hash, pending |-> x]
    OBVIOUS
  <2> HIDE DEF d, r
  <2>4. Record(b, p) = [Record(c, p) EXCEPT !.pending = x]
    BY <2>1, <2>2, <2>3, <2>a, <2>b
  <2> QED BY <2>4 DEF x
<1> QED BY <1>2, <1>4, <1>5, <1>6, <1>7, <1>8, <1>9 DEF Aside

\* b is c but for its list of uses, and so much is the same after the call.
Apart(c, b) == Shaped(c) /\ \E s \in Seq(Pairs) : b = [c EXCEPT !.pending = s]

LEMMA ApartKept ==
  ASSUME NEW c, NEW b, Apart(c, b)
  PROVE  /\ b.data = c.data
         /\ \A n : Apart(EraseNode(c, n), EraseNode(b, n))
         /\ \A k, v : Apart(EmplaceFront(c, k, v), EmplaceFront(b, k, v))
         /\ \A k : Apart(Unindex(c, k), Unindex(b, k))
         /\ Apart(PopBack(c), PopBack(b))
         /\ \A k : Apart(IndexFront(c, k), IndexFront(b, k))
<1>1. PICK s \in Seq(Pairs) : b = [c EXCEPT !.pending = s]
  BY DEF Apart
<1>0. Shaped(c)
  BY DEF Apart
<1>a. Aside(c, b, s)
  BY <1>0, <1>1, OtherPending, Zenon
<1>3. /\ Shaped(b) /\ b.data = c.data /\ b.pending = s
      /\ \A n : Shaped(EraseNode(c, n)) /\ EraseNode(b, n) = [EraseNode(c, n) EXCEPT !.pending = s]
      /\ \A k, v : /\ Shaped(EmplaceFront(c, k, v))
                   /\ EmplaceFront(b, k, v) = [EmplaceFront(c, k, v) EXCEPT !.pending = s]
      /\ \A k : Shaped(Unindex(c, k)) /\ Unindex(b, k) = [Unindex(c, k) EXCEPT !.pending = s]
      /\ Shaped(PopBack(c)) /\ PopBack(b) = [PopBack(c) EXCEPT !.pending = s]
      /\ \A k : Shaped(IndexFront(c, k)) /\ IndexFront(b, k) = [IndexFront(c, k) EXCEPT !.pending = s]
      /\ \A p : Record(b, p) = [Record(c, p) EXCEPT !.pending = <<p>> \o s]
  BY <1>a DEF Aside
<1>5. ASSUME NEW x, NEW y, Shaped(x), y = [x EXCEPT !.pending = s] PROVE Apart(x, y)
  BY <1>5 DEF Apart
<1>6. ASSUME NEW n PROVE Apart(EraseNode(c, n), EraseNode(b, n))
  BY <1>3, <1>5, Zenon
<1>7. ASSUME NEW k, NEW v PROVE Apart(EmplaceFront(c, k, v), EmplaceFront(b, k, v))
  <2>1. Shaped(EmplaceFront(c, k, v)) /\ EmplaceFront(b, k, v) = [EmplaceFront(c, k, v) EXCEPT !.pending = s]
    BY <1>3
  <2> QED BY <1>5, <2>1, Zenon
<1>8. ASSUME NEW k PROVE Apart(Unindex(c, k), Unindex(b, k))
  BY <1>3, <1>5, Zenon
<1>9. Apart(PopBack(c), PopBack(b))
  BY <1>3, <1>5, Zenon
<1>10. ASSUME NEW k PROVE Apart(IndexFront(c, k), IndexFront(b, k))
  BY <1>3, <1>5, Zenon
<1> QED BY <1>3, <1>6, <1>7, <1>8, <1>9, <1>10

LEMMA RecordApart ==
  ASSUME NEW c, NEW b, Apart(c, b), NEW p \in Pairs
  PROVE  \E s \in Seq(Pairs) : Record(b, p) = [Record(c, p) EXCEPT !.pending = s]
<1>1. PICK s \in Seq(Pairs) : b = [c EXCEPT !.pending = s]
  BY DEF Apart
<1>2. <<p>> \o s \in Seq(Pairs)
  BY ConsFacts
<1>3. Shaped(c)
  BY DEF Apart
<1>4. Aside(c, b, s)
  BY <1>1, <1>3, OtherPending, Zenon
<1>5. Record(b, p) = [Record(c, p) EXCEPT !.pending = <<p>> \o s]
  BY <1>4 DEF Aside
<1> QED BY <1>2, <1>5, Zenon

LEMMA EvictApart ==
  ASSUME NEW c, NEW b, Apart(c, b)
  PROVE  Apart(Evict(c), Evict(b))
<1>1. b.data = c.data /\ b.capacity = c.capacity
  BY ApartKept DEF Apart, Shaped
<1> DEFINE k == Last(c.data).key
<1>2. Apart(Unindex(c, k), Unindex(b, k))
  BY ApartKept
<1>3. Apart(PopBack(Unindex(c, k)), PopBack(Unindex(b, k)))
  BY <1>2, ApartKept
<1> QED BY <1>1, <1>3 DEF Evict

LEMMA AfterIndexApart ==
  ASSUME NEW c, NEW b, Apart(c, b), NEW elem \in Pairs, NEW op
  PROVE  \E s \in Seq(Pairs) : AfterIndex(b, elem, op) = [AfterIndex(c, elem, op) EXCEPT !.pending = s]
<1> DEFINE d == IndexFront(c, elem.key)
           e == IndexFront(b, elem.key)
<1>1. Apart(d, e)
  BY ApartKept
<1>2. /\ AfterIndex(c, elem, op) = IF op = "update" THEN d ELSE Record(d, elem)
      /\ AfterIndex(b, elem, op) = IF op = "update" THEN e ELSE Record(e, elem)
  BY DEF AfterIndex
<1> HIDE DEF d, e
<1>3. CASE op = "update"
  BY <1>1, <1>2, <1>3 DEF Apart
<1>4. CASE op # "update"
  <2>1. \E s \in Seq(Pairs) : Record(e, elem) = [Record(d, elem) EXCEPT !.pending = s]
    BY <1>1, RecordApart
  <2> QED BY <1>2, <1>4, <2>1
<1> QED BY <1>3, <1>4

LEMMA AfterPushApart ==
  ASSUME NEW c, NEW b, Apart(c, b), NEW n, NEW elem \in Pairs, NEW op
  PROVE  \E s \in Seq(Pairs) : AfterPush(b, n, elem, op) = [AfterPush(c, n, elem, op) EXCEPT !.pending = s]
<1> DEFINE d == EmplaceFront(c, elem.key, elem.val)
           e == EmplaceFront(b, elem.key, elem.val)
           x == IF n = NoNode THEN Evict(d) ELSE d
           y == IF n = NoNode THEN Evict(e) ELSE e
<1>1. Apart(d, e)
  BY ApartKept
<1>2. Apart(x, y)
  BY <1>1, EvictApart
<1>3. AfterPush(c, n, elem, op) = AfterIndex(x, elem, op) /\ AfterPush(b, n, elem, op) = AfterIndex(y, elem, op)
  BY DEF AfterPush
<1> HIDE DEF x, y
<1> QED BY <1>2, <1>3, AfterIndexApart

LEMMA FinishApart ==
  ASSUME NEW c, CacheType(c), NEW b, Apart(c, b), NEW o, CallType(o),
         o.step = "read" => HasNode(c, o.node)
  PROVE  \E s \in Seq(Pairs) : Finish(b, o) = [Finish(c, o) EXCEPT !.pending = s]
<1>1. ASSUME NEW elem \in Pairs
      PROVE  \E s \in Seq(Pairs) :
               AfterErase(b, o.node, elem, o.op) = [AfterErase(c, o.node, elem, o.op) EXCEPT !.pending = s]
  <2>1. Apart(EraseNode(c, o.node), EraseNode(b, o.node))
    BY ApartKept
  <2> QED BY <2>1, AfterPushApart DEF AfterErase
<1>2. CASE o.step = "read"
  <2>1. Pair(At(c, o.node)) \in Pairs
    BY <1>2, AtFacts
  <2>2. At(b, o.node) = At(c, o.node)
    <3>1. b.data = c.data
      BY ApartKept
    <3> QED BY <3>1 DEF At, Place
  <2>3. /\ Finish(c, o) = AfterErase(c, o.node, Pair(At(c, o.node)), o.op)
        /\ Finish(b, o) = AfterErase(b, o.node, Pair(At(c, o.node)), o.op)
    BY <1>2, <2>2 DEF Finish
  <2> QED BY <1>1, <2>1, <2>3
<1>3. CASE o.step = "erase"
  <2>1. o.elem \in Pairs
    BY <1>3 DEF CallType
  <2> QED BY <1>1, <1>3, <2>1 DEF Finish
<1>4. CASE o.step = "push"
  <2>1. o.elem \in Pairs
    BY <1>4 DEF CallType
  <2> QED BY <1>4, <2>1, AfterPushApart DEF Finish
<1>5. CASE o.step = "size"
  <2>1. o.elem \in Pairs /\ Apart(Evict(c), Evict(b))
    BY <1>5, EvictApart DEF CallType
  <2> QED BY <1>5, <2>1, AfterIndexApart DEF Finish
<1>6. CASE o.step = "unindex"
  <2>1. o.elem \in Pairs /\ Apart(Unindex(c, o.last), Unindex(b, o.last))
    BY <1>6, ApartKept DEF CallType
  <2>2. Apart(PopBack(Unindex(c, o.last)), PopBack(Unindex(b, o.last)))
    BY <2>1, ApartKept
  <2> QED BY <1>6, <2>1, <2>2, AfterIndexApart DEF Finish
<1>7. CASE o.step = "pop"
  <2>1. o.elem \in Pairs /\ Apart(PopBack(c), PopBack(b))
    BY <1>7, ApartKept DEF CallType
  <2> QED BY <1>7, <2>1, AfterIndexApart DEF Finish
<1>8. CASE o.step = "index"
  <2>1. o.elem \in Pairs
    BY <1>8 DEF CallType
  <2> QED BY <1>8, <2>1, AfterIndexApart DEF Finish
<1>9. CASE o.step = "record"
  <2>1. o.elem \in Pairs
    BY <1>9 DEF CallType
  <2> DEFINE p == o.elem
  <2>2. Finish(c, o) = Record(c, p) /\ Finish(b, o) = Record(b, p) /\ p \in Pairs
    BY <1>9, <2>1 DEF Finish
  <2> HIDE DEF p
  <2>3. \E s \in Seq(Pairs) : Record(b, p) = [Record(c, p) EXCEPT !.pending = s]
    BY <2>2, RecordApart
  <2> QED BY <2>2, <2>3
<1>10. CASE o.step \notin {"read", "erase", "push", "size", "unindex", "pop", "index", "record"}
  <2>1. Finish(c, o) = c /\ Finish(b, o) = b
    BY <1>10 DEF Finish
  <2> QED BY <2>1 DEF Apart
<1> QED BY <1>2, <1>3, <1>4, <1>5, <1>6, <1>7, <1>8, <1>9, <1>10

LEMMA SoundApart ==
  ASSUME NEW c, CacheType(c), NEW s \in Seq(Pairs), NEW o, CallType(o),
         o.step = "read" => HasNode(c, o.node), Sound(Finish(c, o))
  PROVE  LET b == [c EXCEPT !.pending = s] IN
           /\ Sound(Finish(b, o)) /\ CacheType(b) /\ b.pending = s
           /\ \A n : HasNode(c, n) => HasNode(b, n)
<1> DEFINE b == [c EXCEPT !.pending = s]
<1>1. /\ c \in [capacity : Nat \ {0}, data : Seq(Entries), hash : [Keys -> Nat], pending : Seq(Pairs)]
  BY DEF CacheType
<1>2. CacheType(b) /\ b.data = c.data /\ b.pending = s /\ Shaped(c)
  BY <1>1 DEF CacheType, Shaped
<1>3. Apart(c, b)
  BY <1>2 DEF Apart
<1> HIDE DEF b
<1>4. PICK x \in Seq(Pairs) : Finish(b, o) = [Finish(c, o) EXCEPT !.pending = x]
  BY <1>3, FinishApart
<1>5. Sound(Finish(b, o))
  BY <1>4, ClearFacts
<1>6. \A n : HasNode(c, n) => HasNode(b, n)
  BY <1>2 DEF HasNode
<1> QED BY <1>2, <1>5, <1>6 DEF b

-----------------------------------------------------------------------------
\* The call that is inside a cache, of its worker u and of the timer's t,
\* which is here when it is at this cache; a drop leaves list and index alone.
Busy(t, here) == t.step \notin {"none", "drop"} /\ here
Left(u, t, here) == IF u.step # "none" THEN u ELSE IF Busy(t, here) THEN t ELSE NoCall

\* At most one of the two is inside, the cache is in order when it is through,
\* and the node that is going to be read is there.
Fine(c, u, t, here) ==
  /\ ~(u.step # "none" /\ Busy(t, here))
  /\ Sound(Finish(c, Left(u, t, here)))
  /\ Left(u, t, here).step = "read" => HasNode(c, Left(u, t, here).node)

LEMMA FinishNothing ==
  ASSUME NEW c, NEW o, o.step \in {"none", "drop", "return"} PROVE Finish(c, o) = c
BY DEF Finish

LEMMA FineAtRest ==
  ASSUME NEW c, NEW u, NEW t, NEW here, u.step = "none", ~Busy(t, here)
  PROVE  Fine(c, u, t, here) <=> Sound(c)
<1>1. Left(u, t, here) = NoCall
  BY DEF Left
<1>2. Finish(c, NoCall) = c /\ NoCall.step # "read"
  BY NoCallFacts, FinishNothing
<1> QED BY <1>1, <1>2 DEF Fine

\* What the timer does elsewhere is nothing to this cache.
LEMMA FineAway ==
  ASSUME NEW c, NEW u, NEW t, NEW here, NEW s, NEW there, Fine(c, u, t, here),
         ~Busy(t, here), ~Busy(s, there)
  PROVE  Fine(c, u, s, there)
<1>1. Left(u, t, here) = Left(u, s, there)
  BY DEF Left
<1> QED BY <1>1 DEF Fine

LEMMA MovesSteps ==
  ASSUME NEW c, NEW o, NEW d, NEW q, Moves(c, o, d, q)
  PROVE  o.step \notin {"none", "drop"}
BY DEF Moves

LEMMA FineUserMoves ==
  ASSUME NEW c, NEW u, NEW t, NEW here, NEW d, NEW q, Fine(c, u, t, here),
         Moves(c, u, d, q), CacheType(c), CallType(u)
  PROVE  Fine(d, q, t, here)
<1>1. u.step # "none" /\ ~Busy(t, here) /\ Left(u, t, here) = u
  BY MovesSteps DEF Fine, Left
<1>2. Sound(Finish(c, u)) /\ (u.step = "read" => HasNode(c, u.node))
  BY <1>1 DEF Fine
<1>3. Finish(d, q) = Finish(c, u) /\ q.step \notin {"read", "drop"}
  BY <1>2, MovesKeepEnd, MovesKeepTypes
<1>4. CASE q.step = "none"
  <2>1. Finish(d, q) = d
    BY <1>4, FinishNothing
  <2> QED BY <1>1, <1>2, <1>3, <1>4, <2>1, FineAtRest
<1>5. CASE q.step # "none"
  <2>1. Left(q, t, here) = q
    BY <1>5 DEF Left
  <2> QED BY <1>1, <1>2, <1>3, <2>1 DEF Fine
<1> QED BY <1>4, <1>5

LEMMA FineTimerMoves ==
  ASSUME NEW c, NEW u, NEW t, NEW d, NEW q, Fine(c, u, t, TRUE),
         Moves(c, t, d, q), CacheType(c), CallType(t)
  PROVE  Fine(d, u, q, TRUE)
<1>1. Busy(t, TRUE) /\ u.step = "none" /\ Left(u, t, TRUE) = t
  BY MovesSteps DEF Fine, Left, Busy
<1>2. Sound(Finish(c, t)) /\ (t.step = "read" => HasNode(c, t.node))
  BY <1>1 DEF Fine
<1>3. Finish(d, q) = Finish(c, t) /\ q.step \notin {"read", "drop"}
  BY <1>2, MovesKeepEnd, MovesKeepTypes
<1>4. CASE q.step = "none"
  <2>1. Finish(d, q) = d /\ ~Busy(q, TRUE)
    BY <1>4, FinishNothing DEF Busy
  <2> QED BY <1>1, <1>2, <1>3, <2>1, FineAtRest
<1>5. CASE q.step # "none"
  <2>1. Left(u, q, TRUE) = q
    BY <1>1, <1>3, <1>5 DEF Left, Busy
  <2> QED BY <1>1, <1>2, <1>3, <2>1 DEF Fine
<1> QED BY <1>4, <1>5

LEMMA FinePending ==
  ASSUME NEW c, NEW u, NEW t, NEW here, Fine(c, u, t, here),
         CacheType(c), CallType(u), CallType(t), NEW s \in Seq(Pairs)
  PROVE  LET b == [c EXCEPT !.pending = s] IN Fine(b, u, t, here) /\ CacheType(b) /\ b.pending = s
<1> DEFINE o == Left(u, t, here)
           b == [c EXCEPT !.pending = s]
<1>1. CallType(o)
  BY NoCallFacts DEF Left
<1>2. Sound(Finish(c, o)) /\ (o.step = "read" => HasNode(c, o.node))
  BY DEF Fine
<1> HIDE DEF o
<1>3. Sound(Finish(b, o)) /\ CacheType(b) /\ b.pending = s /\ \A n : HasNode(c, n) => HasNode(b, n)
  BY <1>1, <1>2, SoundApart
<1> HIDE DEF b
<1>4. Fine(b, u, t, here)
  BY <1>2, <1>3 DEF Fine, o
<1> QED BY <1>3, <1>4 DEF b

LEMMA TypePending ==
  ASSUME NEW c, CacheType(c), NEW s \in Seq(Pairs)
  PROVE  LET b == [c EXCEPT !.pending = s] IN CacheType(b) /\ b.pending = s
BY DEF CacheType

LEMMA FineGet ==
  ASSUME NEW c, Sound(c), NEW k \in Keys, NEW t, NEW here, ~Busy(t, here)
  PROVE  Fine(c, GetCall(c, k), t, here)
<1> DEFINE o == GetCall(c, k)
<1>1. /\ Finish(c, o) = get(c, k) /\ Sound(get(c, k))
      /\ o.step = "read" => HasNode(c, o.node)
  BY GetEnds, GetFacts
<1> HIDE DEF o
<1>2. CASE o.step = "none"
  BY <1>2, FineAtRest DEF o
<1>3. CASE o.step # "none"
  <2>1. Left(o, t, here) = o
    BY <1>3 DEF Left
  <2> QED BY <1>1, <2>1 DEF Fine, o
<1> QED BY <1>2, <1>3

LEMMA FinePut ==
  ASSUME NEW c, Sound(c), NEW k \in Keys, NEW v \in Vals, NEW op \in {"put", "update"}, NEW o, o = PutCall(c, k, v, op)
  PROVE  /\ \A t, here : ~Busy(t, here) => Fine(c, o, t, here)
         /\ \A u : u.step = "none" => Fine(c, u, o, TRUE)
<1>1. CacheType(c)
  BY DEF Sound
<1>2. Finish(c, o) = put(c, k, v, op = "update") /\ o.step \in {"erase", "push"}
  BY <1>1, PutEnds
<1>3. Sound(put(c, k, v, op = "update"))
  <2> DEFINE x == op = "update"
  <2>1. x \in BOOLEAN
    OBVIOUS
  <2> HIDE DEF x
  <2>2. Sound(put(c, k, v, x))
    BY <2>1, PutFacts
  <2> QED BY <2>2 DEF x
<1>4. ASSUME NEW t, NEW here, ~Busy(t, here) PROVE Fine(c, o, t, here)
  <2>1. Left(o, t, here) = o
    BY <1>2 DEF Left
  <2> QED BY <1>2, <1>3, <1>4, <2>1 DEF Fine
<1>5. ASSUME NEW u, u.step = "none" PROVE Fine(c, u, o, TRUE)
  <2>1. Left(u, o, TRUE) = o
    BY <1>2, <1>5 DEF Left, Busy
  <2> QED BY <1>2, <1>3, <1>5, <2>1 DEF Fine
<1> QED BY <1>4, <1>5

-----------------------------------------------------------------------------
\* The caches there are.
CachesInv ==
  /\ caches = [i \in Threads |-> caches[i]]
  /\ Threads = {} \/ \E n \in Sizes : Threads = 0 .. n - 1
  /\ \A i \in Threads : CacheType(caches[i])
  /\ missed \in [Threads -> Keys \union {NoKey}]

\* Where the timer is.
TimerInv ==
  /\ stage \in {"down", "idle", "merge", "update", "clear", "write"}
  /\ stage = "down" <=> Threads = {}
  /\ stage = "down" => at = 0
  /\ stage = "merge" => at # 0
  /\ at \in 0 .. Size /\ pos \in Nat

\* The calls, and when the timer is in one.
CallsInv ==
  /\ DOMAIN calls = Callers
  /\ \A t \in Callers : CallType(calls[t])
  /\ Inside(Timer) => at \in Threads
  /\ calls[Timer].step = "drop" => stage = "merge" /\ caches[at].pending # <<>>
  /\ Putting => stage = "update"

FileInv ==
  /\ file \in Seq(Pairs)
  /\ overlaps \in 0 .. MaxOverlaps /\ disturbed \in BOOLEAN

\* A cache that no two calls were inside at once will be in order, and all
\* are such while no worker disturbs an update.
RacedInv ==
  /\ raced \subseteq Threads
  /\ \A i \in Threads \ raced : Fine(caches[i], calls[i], calls[Timer], at = i)
  /\ ~disturbed => raced = {} /\ (stage # "idle" => \A w \in Threads : ~Inside(w))

ManagerInv == CachesInv /\ TimerInv /\ CallsInv /\ FileInv /\ RacedInv

LEMMA SizeFacts ==
  ASSUME CachesInv
  PROVE  /\ Size \in Nat /\ Threads = 0 .. Size - 1 /\ (Threads = {} <=> Size = 0)
         /\ Timer \notin Threads /\ Timer \in Callers /\ Callers = Threads \union {Timer}
<1>1. CASE Threads = {}
  BY <1>1, FS_EmptySet DEF Size, Callers
<1>2. CASE \E n \in Sizes : Threads = 0 .. n - 1
  <2>1. PICK n \in Sizes : Threads = 0 .. n - 1
    BY <1>2
  <2>2. n \in Nat \ {0}
    BY CacheManagerAssumption
  <2>3. Cardinality(0 .. n - 1) = IF 0 > n - 1 THEN 0 ELSE n - 1 - 0 + 1
    BY <2>2, FS_Interval
  <2>4. Size = n
    BY <2>1, <2>2, <2>3 DEF Size
  <2>5. Timer \notin Threads
    BY <2>1, <2>2 DEF Timer
  <2> QED BY <2>1, <2>2, <2>4, <2>5 DEF Callers
<1> QED BY <1>1, <1>2 DEF CachesInv

\* The timer is in no call except where it merges or updates a cache.
LEMMA TimerRests ==
  ASSUME ManagerInv, stage \notin {"merge", "update"} \/ at = Size
  PROVE  ~Inside(Timer)
<1>1. Threads = 0 .. Size - 1 /\ Size \in Nat
  BY SizeFacts DEF ManagerInv
<1>2. at = Size => at \notin Threads
  BY <1>1
<1> QED BY <1>2 DEF ManagerInv, CallsInv, Inside, Putting

LEMMA NotBusy == ASSUME ~Inside(Timer) PROVE ~Putting /\ \A h : ~Busy(calls[Timer], h)
BY DEF Inside, Putting, Busy

\* A step that changes one cache and leaves it well typed.
LEMMA OneCacheChanges ==
  ASSUME CachesInv, NEW w \in Threads, NEW d, CacheType(d), caches' = [caches EXCEPT ![w] = d],
         missed' \in [Threads -> Keys \union {NoKey}]
  PROVE  /\ CachesInv' /\ Threads' = Threads /\ Size' = Size /\ Callers' = Callers
         /\ \A i \in Threads : caches'[i] = IF i = w THEN d ELSE caches[i]
<1>1. Threads' = Threads
  BY DEF Threads
<1>2. caches' = [i \in Threads' |-> caches'[i]]
  BY <1>1 DEF Threads
<1>4. \A i \in Threads : caches'[i] = IF i = w THEN d ELSE caches[i]
  BY DEF Threads
<1>3. \A i \in Threads' : CacheType(caches'[i])
  BY <1>1, <1>4 DEF CachesInv
<1> QED BY <1>1, <1>2, <1>3, <1>4 DEF CachesInv, Size, Callers

\* A step that changes one call.
LEMMA OneCallChanges ==
  ASSUME CallsInv, Threads' = Threads, NEW t \in Callers, NEW q, CallType(q), calls' = [calls EXCEPT ![t] = q]
  PROVE  /\ DOMAIN calls' = Callers' /\ \A x \in Callers' : CallType(calls'[x])
         /\ \A x \in Callers : calls'[x] = IF x = t THEN q ELSE calls[x]
<1>1. Callers' = Callers
  BY DEF Callers
<1>2. \A x \in Callers : calls'[x] = IF x = t THEN q ELSE calls[x]
  BY DEF CallsInv
<1>3. \A x \in Callers' : CallType(calls'[x])
  BY <1>1, <1>2 DEF CallsInv
<1> QED BY <1>1, <1>2, <1>3 DEF CallsInv

LEMMA ManagerInit == Init => ManagerInv
<1> SUFFICES ASSUME Init PROVE ManagerInv
  OBVIOUS
<1>1. caches = <<>> /\ missed = <<>> /\ file = <<>> /\ stage = "down" /\ at = 0 /\ pos = 0
      /\ overlaps = 0 /\ disturbed = FALSE /\ raced = {} /\ calls = NoCalls
  BY DEF Init
<1>2. Threads = {} /\ Callers = {Timer}
  BY <1>1 DEF Threads, Callers
<1>3. CachesInv
  <2>1. caches = [i \in {} |-> caches[i]] /\ missed \in [{} -> Keys \union {NoKey}]
    BY <1>1
  <2> QED BY <1>2, <2>1 DEF CachesInv
<1>4. Size = 0
  BY <1>2, <1>3, SizeFacts
<1>5. TimerInv
  BY <1>1, <1>2, <1>4 DEF TimerInv
<1>6. CallsInv
  <2>1. DOMAIN calls = {Timer} /\ calls[Timer] = NoCall
    BY <1>1 DEF NoCalls
  <2> QED BY <1>2, <2>1, NoCallFacts DEF CallsInv, Inside, Putting
<1>7. FileInv
  <2>1. <<>> \in Seq(Pairs)
    OBVIOUS
  <2>2. overlaps \in 0 .. MaxOverlaps
    BY <1>1, CacheManagerAssumption
  <2> QED BY <1>1, <2>1, <2>2 DEF FileInv
<1>8. RacedInv
  BY <1>1, <1>2 DEF RacedInv
<1> QED BY <1>3, <1>5, <1>6, <1>7, <1>8 DEF ManagerInv

LEMMA CrashStep == ManagerInv /\ Crash => ManagerInv'
<1> SUFFICES ASSUME ManagerInv, Crash PROVE ManagerInv'
  OBVIOUS
<1>1. caches' = <<>> /\ missed' = <<>> /\ stage' = "down" /\ at' = 0 /\ pos' = 0
      /\ calls' = NoCalls /\ raced' = {} /\ UNCHANGED <<file, overlaps, disturbed>>
  BY DEF Crash
<1>2. Threads' = {} /\ Callers' = {Timer}
  BY <1>1 DEF Threads, Callers
<1>3. CachesInv'
  <2>1. caches' = [i \in {} |-> caches'[i]] /\ missed' \in [{} -> Keys \union {NoKey}]
    BY <1>1
  <2> QED BY <1>2, <2>1 DEF CachesInv
<1>4. Size' = 0
  BY <1>2, FS_EmptySet DEF Size
<1>6. CallsInv'
  <2>1. DOMAIN calls' = {Timer} /\ calls'[Timer] = NoCall
    BY <1>1 DEF NoCalls
  <2> QED BY <1>2, <2>1, NoCallFacts DEF CallsInv, Inside, Putting
<1>7. FileInv'
  BY <1>1 DEF ManagerInv, FileInv
<1>8. RacedInv'
  BY <1>1, <1>2 DEF RacedInv
<1>9. TimerInv'
  BY <1>1, <1>2, <1>4 DEF TimerInv
<1> QED BY <1>3, <1>6, <1>7, <1>8, <1>9 DEF ManagerInv

LEMMA StartStep == ASSUME NEW n \in Sizes, ManagerInv, Start(n) PROVE ManagerInv'
<1>1. /\ stage = "down" /\ at = 0 /\ pos \in Nat /\ stage' = "idle" /\ caches' = initCache(n)
      /\ calls' = [t \in (0 .. n - 1) \union {Timer} |-> NoCall]
      /\ missed' = [w \in 0 .. n - 1 |-> NoKey] /\ disturbed' \in BOOLEAN
      /\ UNCHANGED <<file, at, pos, overlaps, raced>>
  BY DEF Start, ManagerInv, TimerInv
<1>2. n \in Nat \ {0}
  BY CacheManagerAssumption
<1>3. Threads' = 0 .. n - 1 /\ \A i \in 0 .. n - 1 : caches'[i] = readFromFile(NewCache(n), file)
  BY <1>1 DEF Threads, initCache
<1>4. Sound(readFromFile(NewCache(n), file))
  BY <1>2, ReadFacts DEF ManagerInv, FileInv
<1>5. CachesInv'
  <2>1. caches' = [i \in Threads' |-> caches'[i]]
    BY <1>1, <1>3 DEF initCache
  <2>2. \A i \in Threads' : CacheType(caches'[i])
    BY <1>3, <1>4 DEF Sound
  <2>3. missed' \in [Threads' -> Keys \union {NoKey}]
    BY <1>1, <1>3
  <2> QED BY <1>3, <2>1, <2>2, <2>3 DEF CachesInv
<1>6. Size' = n /\ Threads' # {}
  <2>1. Cardinality(0 .. n - 1) = IF 0 > n - 1 THEN 0 ELSE n - 1 - 0 + 1
    BY <1>2, FS_Interval
  <2>2. Cardinality(0 .. n - 1) = n
    BY <1>2, <2>1
  <2>3. Size' = n
    BY <1>3, <2>2 DEF Size
  <2>4. 0 \in 0 .. n - 1
    BY <1>2
  <2> QED BY <1>3, <2>3, <2>4
<1>7. Callers' = Threads' \union {Timer} /\ \A t \in Callers' : calls'[t] = NoCall
  BY <1>1, <1>3 DEF Callers
<1>8. CallsInv'
  <2>1. DOMAIN calls' = Callers' /\ calls'[Timer] = NoCall
    BY <1>1, <1>3, <1>7
  <2> QED BY <1>7, <2>1, NoCallFacts DEF CallsInv, Inside, Putting
<1>9. RacedInv'
  <2>1. raced' = {}
    BY <1>1 DEF ManagerInv, TimerInv, RacedInv
  <2>2. ASSUME NEW i \in Threads' PROVE Fine(caches'[i], calls'[i], calls'[Timer], at' = i)
    <3>1. calls'[i] = NoCall /\ calls'[Timer] = NoCall /\ Sound(caches'[i])
      BY <1>3, <1>4, <1>7
    <3>2. ~Busy(NoCall, at' = i)
      BY NoCallFacts DEF Busy
    <3> QED BY <3>1, <3>2, NoCallFacts, FineAtRest
  <2> QED BY <1>1, <2>1, <2>2 DEF RacedInv
<1>10. TimerInv' /\ FileInv'
  BY <1>1, <1>2, <1>6 DEF ManagerInv, TimerInv, FileInv
<1> QED BY <1>5, <1>8, <1>9, <1>10 DEF ManagerInv

\* A worker begins a get or a put: keyExist, and q is what is left to do.
LEMMA UseStep ==
  ASSUME ManagerInv, NEW w \in Threads, MayUse(w), NoteUse(w), UNCHANGED <<caches, file, timerVars>>,
         missed' \in [Threads -> Keys \union {NoKey}], NEW q, CallType(q), calls' = [calls EXCEPT ![w] = q],
         Sound(caches[w]) => \A t, here : ~Busy(t, here) => Fine(caches[w], q, t, here)
  PROVE  ManagerInv'
<1>1. /\ UNCHANGED <<caches, file, stage, at, pos>> /\ stage # "down" /\ ~Inside(w)
      /\ raced' = IF Putting /\ at = w THEN raced \union {w} ELSE raced
  BY DEF timerVars, MayUse, NoteUse
<1>2. CachesInv /\ TimerInv /\ CallsInv /\ FileInv /\ RacedInv
  BY DEF ManagerInv
<1>3. overlaps' \in 0 .. MaxOverlaps /\ disturbed' \in BOOLEAN /\ (~disturbed' => stage = "idle" /\ ~disturbed)
  <2>2. MaxOverlaps \in Nat /\ overlaps \in 0 .. MaxOverlaps /\ disturbed \in BOOLEAN
    BY <1>2, CacheManagerAssumption DEF FileInv
  <2>3. CASE stage = "idle" /\ UNCHANGED <<overlaps, disturbed>>
    BY <2>2, <2>3
  <2>4. CASE overlaps < MaxOverlaps /\ overlaps' = overlaps + 1 /\ disturbed' = TRUE
    BY <2>2, <2>4
  <2> QED BY <2>3, <2>4 DEF NoteUse
<1>4. Threads' = Threads /\ Size' = Size
  BY <1>1 DEF Threads, Size
<1>5. CachesInv'
  BY <1>1, <1>2, <1>4 DEF CachesInv
<1>6. TimerInv' /\ FileInv'
  BY <1>1, <1>2, <1>3, <1>4 DEF TimerInv, FileInv
<1>7. w \in Callers /\ Timer \in Callers /\ w # Timer /\ Callers = Threads \union {Timer}
  BY <1>2, SizeFacts
<1>8. /\ DOMAIN calls' = Callers' /\ \A x \in Callers' : CallType(calls'[x])
      /\ \A x \in Callers : calls'[x] = IF x = w THEN q ELSE calls[x]
  <2>1. CallsInv /\ Threads' = Threads /\ w \in Callers /\ CallType(q) /\ calls' = [calls EXCEPT ![w] = q]
    BY <1>2, <1>4, <1>7
  <2> QED BY <2>1, OneCallChanges, Zenon
<1>9. calls'[Timer] = calls[Timer]
  BY <1>7, <1>8
<1>10. CallsInv'
  BY <1>1, <1>2, <1>4, <1>8, <1>9 DEF CallsInv, Inside, Putting
<1>11. ASSUME NEW i \in Threads, i \notin raced' PROVE Fine(caches'[i], calls'[i], calls'[Timer], at' = i)
  <2>1. i \notin raced /\ Fine(caches[i], calls[i], calls[Timer], at = i) /\ calls'[i] = IF i = w THEN q ELSE calls[i]
    BY <1>1, <1>2, <1>7, <1>8, <1>11 DEF RacedInv
  <2>2. CASE i # w
    BY <1>1, <1>9, <2>1, <2>2
  <2>3. CASE i = w
    <3>1. ~Busy(calls[Timer], at = i) /\ calls[i].step = "none"
      BY <1>1, <1>11, <2>3 DEF Busy, Putting, Inside
    <3>2. Sound(caches[i])
      BY <2>1, <3>1, FineAtRest
    <3> QED BY <1>1, <1>9, <2>1, <2>3, <3>1, <3>2
  <2> QED BY <2>2, <2>3
<1>12. raced' \subseteq Threads /\ (~disturbed' => raced' = {})
  <2>1. ~disturbed' => ~Putting
    BY <1>2, <1>3 DEF CallsInv
  <2> QED BY <1>1, <1>2, <1>3, <2>1 DEF RacedInv
<1>13. RacedInv'
  BY <1>1, <1>3, <1>4, <1>11, <1>12 DEF RacedInv
<1> QED BY <1>5, <1>6, <1>10, <1>13 DEF ManagerInv

LEMMA WorkerStep == ASSUME ManagerInv, NEW w \in Threads, threadTask(w) PROVE ManagerInv'
<1>1. CacheType(caches[w]) /\ missed \in [Threads -> Keys \union {NoKey}]
  BY DEF ManagerInv, CachesInv
<1>2. CASE NoAnswer(w)
  <2>1. /\ missed' = [missed EXCEPT ![w] = NoKey]
        /\ UNCHANGED <<caches, calls, file, stage, at, pos, overlaps, disturbed, raced>>
    BY <1>2 DEF NoAnswer, timerVars, historyVars
  <2>2. missed' \in [Threads -> Keys \union {NoKey}]
    BY <1>1, <2>1
  <2> QED BY <2>1, <2>2 DEF ManagerInv, CachesInv, TimerInv, CallsInv, FileInv, RacedInv, Threads, Size,
                            Callers, Inside, Putting
<1>3. ASSUME NEW k \in Keys, LookUp(w, k) PROVE ManagerInv'
  <2> DEFINE q == GetCall(caches[w], k)
  <2>1. /\ MayUse(w) /\ NoteUse(w) /\ UNCHANGED <<caches, file, timerVars>>
        /\ calls' = [calls EXCEPT ![w] = q]
        /\ missed' = [missed EXCEPT ![w] = IF Found(caches[w], k) THEN NoKey ELSE k]
    BY <1>3 DEF LookUp
  <2>2. CallType(q)
    <3>1. caches[w].hash[k] \in Nat
      BY <1>1 DEF CacheType
    <3> QED BY <3>1 DEF GetCall, NoCall, NoPair, NoNode, CallType, Steps
  <2>3. missed' \in [Threads -> Keys \union {NoKey}]
    BY <1>1, <2>1
  <2>4. Sound(caches[w]) => \A t, here : ~Busy(t, here) => Fine(caches[w], q, t, here)
    BY FineGet
  <2> HIDE DEF q
  <2> QED BY <2>1, <2>2, <2>3, <2>4, UseStep
<1>4. ASSUME NEW v \in Vals, Store(w, v) PROVE ManagerInv'
  <2> DEFINE k == missed[w]
             q == PutCall(caches[w], k, v, "put")
  <2>1. /\ MayUse(w) /\ NoteUse(w) /\ UNCHANGED <<caches, file, timerVars>> /\ k \in Keys
        /\ calls' = [calls EXCEPT ![w] = q]
        /\ missed' = [missed EXCEPT ![w] = NoKey]
    BY <1>1, <1>4 DEF Store
  <2> HIDE DEF k
  <2>2. CallType(q)
    BY <1>1, <2>1, PutEnds
  <2>3. missed' \in [Threads -> Keys \union {NoKey}]
    BY <1>1, <2>1
  <2>4. Sound(caches[w]) => \A t, here : ~Busy(t, here) => Fine(caches[w], q, t, here)
    BY <2>1, FinePut
  <2> HIDE DEF q
  <2> QED BY <2>1, <2>2, <2>3, <2>4, UseStep
<1> QED BY <1>2, <1>3, <1>4 DEF threadTask

\* The rest of a call, step by step.
LEMMA CallStepKeeps == ASSUME ManagerInv, NEW t \in Callers, CallStep(t) PROVE ManagerInv'
<1> DEFINE i == CacheOf(t)
<1>1. PICK d, q : Moves(caches[i], calls[t], d, q) /\ Proceed(t, d, q)
  BY CallMoves
<1>2. CachesInv /\ TimerInv /\ CallsInv /\ FileInv /\ RacedInv
  BY DEF ManagerInv
<1>3. /\ caches' = [caches EXCEPT ![i] = d] /\ calls' = [calls EXCEPT ![t] = q]
      /\ UNCHANGED <<file, stage, at, pos, missed, overlaps, disturbed, raced>>
  BY <1>1 DEF Proceed, timerVars, historyVars
<1>4. calls[t].step \notin {"none", "drop"}
  BY <1>1, MovesSteps
<1>5. /\ Timer \notin Threads /\ Timer \in Callers /\ Callers = Threads \union {Timer}
  BY <1>2, SizeFacts
<1>6. i \in Threads /\ (t = Timer => i = at) /\ (t # Timer => i = t)
  <2>1. t = Timer => at \in Threads
    BY <1>2, <1>4 DEF CallsInv, Inside
  <2> QED BY <1>5, <2>1 DEF CacheOf
<1> HIDE DEF i
<1>7. CacheType(caches[i]) /\ CallType(calls[t])
  BY <1>2, <1>6 DEF CachesInv, CallsInv
<1>8. /\ CacheType(d) /\ CallType(q) /\ q.step \notin {"read", "drop"}
      /\ caches[i].pending # <<>> => d.pending # <<>>
  BY <1>1, <1>7, MovesKeepTypes
<1>9. /\ CachesInv' /\ Threads' = Threads /\ Size' = Size /\ Callers' = Callers
      /\ \A j \in Threads : caches'[j] = IF j = i THEN d ELSE caches[j]
  <2>1. missed' \in [Threads -> Keys \union {NoKey}]
    BY <1>2, <1>3 DEF CachesInv
  <2> QED BY <1>2, <1>3, <1>6, <1>8, <2>1, OneCacheChanges
<1>10. /\ DOMAIN calls' = Callers' /\ \A x \in Callers' : CallType(calls'[x])
       /\ \A x \in Callers : calls'[x] = IF x = t THEN q ELSE calls[x]
  BY <1>2, <1>3, <1>8, <1>9, OneCallChanges
<1>11. TimerInv' /\ FileInv'
  BY <1>2, <1>3, <1>9 DEF TimerInv, FileInv
<1>12. CallsInv'
  <2>1. CASE t = Timer
    <3>1. calls'[Timer] = q
      BY <1>5, <1>10, <2>1
    <3>2. at \in Threads /\ stage = "update"
      BY <1>2, <1>4, <1>6, <2>1 DEF CallsInv, Putting
    <3> QED BY <1>3, <1>8, <1>9, <1>10, <3>1, <3>2 DEF CallsInv, Inside, Putting
  <2>2. CASE t # Timer
    <3>1. calls'[Timer] = calls[Timer]
      BY <1>5, <1>10, <2>2
    <3>2. calls[Timer].step = "drop" => stage = "merge" /\ caches'[at].pending # <<>>
      <4>1. calls[Timer].step = "drop" => at \in Threads /\ stage = "merge" /\ caches[at].pending # <<>>
        BY <1>2 DEF CallsInv, Inside
      <4> QED BY <1>8, <1>9, <4>1
    <3> QED BY <1>2, <1>3, <1>9, <1>10, <3>1, <3>2 DEF CallsInv, Inside, Putting
  <2> QED BY <2>1, <2>2
<1>13. ASSUME NEW j \in Threads, j \notin raced PROVE Fine(caches'[j], calls'[j], calls'[Timer], at' = j)
  <2>1. /\ Fine(caches[j], calls[j], calls[Timer], at = j) /\ j \in Callers
        /\ at' = at
    BY <1>2, <1>3, <1>5, <1>13 DEF RacedInv
  <2>2. CASE t # Timer /\ j = t
    <3>1. caches'[j] = d /\ calls'[j] = q /\ calls'[Timer] = calls[Timer]
      BY <1>5, <1>6, <1>9, <1>10, <2>1, <2>2
    <3>2. Moves(caches[j], calls[j], d, q) /\ CacheType(caches[j]) /\ CallType(calls[j])
      BY <1>1, <1>6, <1>7, <2>2
    <3> QED BY <2>1, <3>1, <3>2, FineUserMoves
  <2>3. CASE t # Timer /\ j # t
    <3>1. caches'[j] = caches[j] /\ calls'[j] = calls[j] /\ calls'[Timer] = calls[Timer]
      BY <1>5, <1>6, <1>9, <1>10, <2>1, <2>3
    <3> QED BY <2>1, <3>1
  <2>4. CASE t = Timer /\ j = at
    <3>1. caches'[j] = d /\ calls'[j] = calls[j] /\ calls'[Timer] = q /\ (at = j) = TRUE
      BY <1>5, <1>6, <1>9, <1>10, <2>1, <2>4
    <3>2. Moves(caches[j], calls[Timer], d, q) /\ CacheType(caches[j]) /\ CallType(calls[Timer])
      BY <1>1, <1>6, <1>7, <2>4
    <3>3. Fine(caches[j], calls[j], calls[Timer], TRUE)
      BY <2>1, <2>4
    <3>4. Fine(d, calls[j], q, TRUE)
      BY <3>2, <3>3, FineTimerMoves
    <3> QED BY <2>1, <3>1, <3>4
  <2>5. CASE t = Timer /\ j # at
    <3>1. caches'[j] = caches[j] /\ calls'[j] = calls[j] /\ calls'[Timer] = q
      BY <1>5, <1>6, <1>9, <1>10, <2>1, <2>5
    <3>2. ~Busy(calls[Timer], at = j) /\ ~Busy(q, at' = j)
      BY <2>1, <2>5 DEF Busy
    <3> QED BY <2>1, <3>1, <3>2, FineAway
  <2> QED BY <2>2, <2>3, <2>4, <2>5
<1>14. ~disturbed /\ stage # "idle" => \A w \in Threads : calls'[w].step = "none"
  <2> SUFFICES ASSUME ~disturbed, stage # "idle", NEW w \in Threads PROVE calls'[w].step = "none"
    OBVIOUS
  <2>1. \A v \in Threads : calls[v].step = "none"
    BY <1>2 DEF RacedInv, Inside
  <2>2. t = Timer
    BY <1>4, <1>5, <2>1
  <2> QED BY <1>5, <1>10, <2>1, <2>2
<1>15. RacedInv'
  BY <1>2, <1>3, <1>9, <1>13, <1>14 DEF RacedInv, Inside
<1> QED BY <1>9, <1>11, <1>12, <1>15 DEF ManagerInv

\* Steps of the timer that leave the caches as they are: it is in no call.
LEMMA QuietStep ==
  ASSUME ManagerInv,
         \/ StartUpdate \/ MergeNext \/ MergeEnd \/ UpdateNext \/ UpdateEnd
         \/ OpenFile \/ WriteLine \/ CloseFile
  PROVE  ManagerInv' /\ ~Inside(Timer)
<1>1. UNCHANGED <<caches, calls, missed, raced>>
  BY DEF StartUpdate, MergeNext, MergeEnd, UpdateNext, UpdateEnd, OpenFile, WriteLine, CloseFile, historyVars
<1>2. /\ Size \in Nat /\ Threads = 0 .. Size - 1 /\ (Threads = {} <=> Size = 0)
      /\ Threads' = Threads /\ Size' = Size /\ Callers' = Callers /\ CachesInv /\ CachesInv'
  <2>1. CachesInv
    BY DEF ManagerInv
  <2>2. Threads' = Threads /\ Size' = Size /\ Callers' = Callers
    BY <1>1 DEF Threads, Size, Callers
  <2>3. CachesInv'
    BY <1>1, <2>1, <2>2 DEF CachesInv
  <2> QED BY <2>1, <2>2, <2>3, SizeFacts
<1>3. TimerInv /\ CallsInv /\ FileInv /\ RacedInv
  BY DEF ManagerInv
<1>a. ~Inside(Timer)
  BY TimerRests DEF StartUpdate, MergeNext, MergeEnd, UpdateNext, UpdateEnd, OpenFile, WriteLine, CloseFile
<1>b. CallsInv'
  BY <1>1, <1>2, <1>3, <1>a DEF CallsInv, Inside, Putting
<1>c. RacedInv'
  <2>1. ASSUME NEW i \in Threads, i \notin raced PROVE Fine(caches'[i], calls'[i], calls'[Timer], at' = i)
    <3>1. Fine(caches[i], calls[i], calls[Timer], at = i)
      BY <1>3, <2>1 DEF RacedInv
    <3>2. \A h : ~Busy(calls[Timer], h)
      BY <1>a, NotBusy
    <3> QED BY <1>1, <3>1, <3>2, FineAway
  <2>2. /\ ~disturbed' => ~disturbed
        /\ ~disturbed' /\ stage' # "idle" => \A w \in Threads : ~Inside(w)
    <3>1. CASE StartUpdate
      <4>1. disturbed' = (disturbed \/ UsersInside # {})
        BY <3>1 DEF StartUpdate
      <4> QED BY <4>1 DEF UsersInside
    <3>2. CASE MergeNext \/ MergeEnd \/ UpdateNext \/ UpdateEnd \/ OpenFile \/ WriteLine \/ CloseFile
      <4>1. disturbed' = disturbed /\ stage # "idle"
        BY <3>2 DEF MergeNext, MergeEnd, UpdateNext, UpdateEnd, OpenFile, WriteLine, CloseFile, historyVars
      <4> QED BY <1>3, <4>1 DEF RacedInv
    <3> QED BY <3>1, <3>2
  <2> QED BY <1>1, <1>2, <1>3, <2>1, <2>2 DEF RacedInv, Inside
<1>4. stage # "down" => Base.data \in Seq(Entries)
  <2>1. stage # "down" => 0 \in Threads
    BY <1>2, <1>3 DEF TimerInv
  <2> QED BY <1>2, <2>1 DEF CachesInv, CacheType, Base
<1>d. ASSUME TimerInv', FileInv' PROVE ManagerInv'
  BY <1>2, <1>b, <1>c, <1>d DEF ManagerInv
<1>5. CASE StartUpdate
  <2>1. /\ stage = "idle" /\ stage' = "merge" /\ at' = 1 /\ UNCHANGED <<file, pos>>
        /\ overlaps + Cardinality(UsersInside) <= MaxOverlaps
        /\ overlaps' = overlaps + Cardinality(UsersInside)
        /\ disturbed' = (disturbed \/ UsersInside # {})
    BY <1>5 DEF StartUpdate
  <2>2. Cardinality(UsersInside) \in Nat
    <3>1. IsFiniteSet(Threads)
      BY <1>2, FS_Interval
    <3>2. IsFiniteSet(UsersInside)
      BY <3>1, FS_Subset DEF UsersInside
    <3> QED BY <3>2, FS_CardinalityType
  <2>3. overlaps' \in 0 .. MaxOverlaps
    BY <1>3, <2>1, <2>2, CacheManagerAssumption DEF FileInv
  <2> QED BY <1>2, <1>3, <1>a, <1>d, <2>1, <2>3 DEF TimerInv, FileInv
<1>6. CASE MergeNext \/ UpdateNext
  BY <1>1, <1>2, <1>3, <1>a, <1>d, <1>6 DEF MergeNext, UpdateNext, TimerInv, FileInv, historyVars
<1>7. CASE MergeEnd \/ UpdateEnd
  BY <1>1, <1>2, <1>3, <1>a, <1>d, <1>7 DEF MergeEnd, UpdateEnd, TimerInv, FileInv, historyVars
<1>8. CASE OpenFile
  <2>1. /\ stage = "clear" /\ stage' = "write" /\ file' = <<>> /\ at' = at
        /\ pos' = IF Base.data = <<>> THEN NoNode ELSE Base.data[1].node
        /\ UNCHANGED historyVars
    BY <1>8 DEF OpenFile
  <2>2. Base.data # <<>> => Base.data[1] \in Entries
    BY <1>4, <2>1
  <2>3. pos' \in Nat
    BY <2>1, <2>2 DEF Entries, NoNode
  <2> QED BY <1>2, <1>3, <1>a, <1>d, <2>1, <2>3 DEF TimerInv, FileInv, historyVars
<1>9. CASE WriteLine
  <2>1. PICK i \in DOMAIN Base.data :
          /\ file' = Append(file, Pair(Base.data[i]))
          /\ pos' = IF i = Len(Base.data) THEN NoNode ELSE Base.data[i + 1].node
    BY <1>9 DEF WriteLine
  <2>2. stage = "write" /\ UNCHANGED <<stage, at, historyVars>> /\ Base.data \in Seq(Entries)
    BY <1>4, <1>9 DEF WriteLine
  <2> DEFINE s == Base.data
  <2> HIDE DEF s
  <2>3. s \in Seq(Entries) /\ i \in DOMAIN s /\ file' = Append(file, Pair(s[i]))
        /\ pos' = IF i = Len(s) THEN NoNode ELSE s[i + 1].node
    BY <2>1, <2>2 DEF s
  <2>4. s[i] \in Entries /\ (i # Len(s) => s[i + 1] \in Entries)
    BY <2>3
  <2>5. file' \in Seq(Pairs) /\ pos' \in Nat
    <3>1. Pair(s[i]) \in Pairs
      BY <2>4 DEF Pair, Pairs, Entries
    <3>2. pos' \in Nat
      BY <2>3, <2>4 DEF Entries, NoNode
    <3> QED BY <1>3, <2>3, <3>1, <3>2 DEF FileInv
  <2> QED BY <1>2, <1>3, <1>a, <1>d, <2>2, <2>5 DEF TimerInv, FileInv, historyVars
<1>10. CASE CloseFile
  BY <1>1, <1>2, <1>3, <1>a, <1>d, <1>10 DEF CloseFile, TimerInv, FileInv, historyVars
<1> QED BY <1>a, <1>5, <1>6, <1>7, <1>8, <1>9, <1>10

\* The timer changes a list of uses, in a cache that a worker may be inside.
LEMMA MergeStep == ASSUME ManagerInv, MergeOne PROVE ManagerInv'
<1>1. CachesInv /\ TimerInv /\ CallsInv /\ FileInv /\ RacedInv
  BY DEF ManagerInv
<1>2. /\ Size \in Nat /\ Threads = 0 .. Size - 1
      /\ Timer \notin Threads /\ Timer \in Callers /\ Callers = Threads \union {Timer}
  BY <1>1, SizeFacts
<1> DEFINE q == [calls[Timer] EXCEPT !.step = "drop"]
           a == Append(caches[0].pending, Head(caches[at].pending))
           c0 == [caches[0] EXCEPT !.pending = a]
<1>3. /\ stage = "merge" /\ at < Size /\ caches[at].pending # <<>> /\ ~Inside(Timer)
      /\ caches' = [caches EXCEPT ![0] = c0] /\ calls' = [calls EXCEPT ![Timer] = q]
      /\ UNCHANGED <<file, stage, at, pos, missed, overlaps, disturbed, raced>>
  BY DEF MergeOne, timerVars, historyVars
<1>4. 0 \in Threads /\ at \in Threads /\ at # 0
  BY <1>1, <1>2, <1>3 DEF TimerInv
<1>5. CacheType(caches[0]) /\ CacheType(caches[at]) /\ CallType(calls[Timer])
  BY <1>1, <1>2, <1>4 DEF CachesInv, CallsInv
<1>6. a \in Seq(Pairs)
  <2>1. caches[0].pending \in Seq(Pairs) /\ caches[at].pending \in Seq(Pairs)
    BY <1>5 DEF CacheType
  <2> QED BY <1>3, <2>1
<1>7. CallType(q) /\ q.step = "drop"
  BY <1>5 DEF CallType, Steps
<1> HIDE DEF q, a
<1>8. CacheType(c0)
  BY <1>5, <1>6, TypePending
<1>9. /\ CachesInv' /\ Threads' = Threads /\ Size' = Size /\ Callers' = Callers
      /\ \A i \in Threads : caches'[i] = IF i = 0 THEN c0 ELSE caches[i]
  <2>1. missed' \in [Threads -> Keys \union {NoKey}]
    BY <1>1, <1>3 DEF CachesInv
  <2> HIDE DEF c0
  <2> QED BY <1>1, <1>3, <1>4, <1>8, <2>1, OneCacheChanges
<1>10. /\ DOMAIN calls' = Callers' /\ \A x \in Callers' : CallType(calls'[x])
       /\ \A x \in Callers : calls'[x] = IF x = Timer THEN q ELSE calls[x]
  BY <1>1, <1>2, <1>3, <1>7, <1>9, OneCallChanges
<1>11. calls'[Timer] = q /\ caches'[at] = caches[at]
  BY <1>2, <1>4, <1>9, <1>10
<1>12. CallsInv'
  BY <1>3, <1>4, <1>7, <1>9, <1>10, <1>11 DEF CallsInv, Inside, Putting
<1>13. ASSUME NEW i \in Threads, i \notin raced PROVE Fine(caches'[i], calls'[i], calls'[Timer], at' = i)
  <2>1. Fine(caches[i], calls[i], calls[Timer], at = i) /\ calls'[i] = calls[i]
    BY <1>1, <1>2, <1>10, <1>13 DEF RacedInv
  <2>2. ~Busy(calls[Timer], at = i) /\ ~Busy(q, at' = i)
    BY <1>3, <1>7, NotBusy DEF Busy
  <2>3. Fine(caches[i], calls[i], q, at' = i)
    BY <2>1, <2>2, FineAway
  <2>4. CallType(calls[i])
    BY <1>1, <1>2 DEF CallsInv
  <2>5. i = 0 => Fine(c0, calls[i], q, at' = i)
    BY <1>5, <1>6, <1>7, <2>3, <2>4, FinePending
  <2> HIDE DEF c0
  <2> QED BY <1>9, <1>11, <2>1, <2>3, <2>5
<1>14. RacedInv'
  BY <1>1, <1>2, <1>3, <1>9, <1>10, <1>13 DEF RacedInv, Inside
<1> QED BY <1>1, <1>3, <1>9, <1>12, <1>14 DEF ManagerInv, TimerInv, FileInv

LEMMA DropStep == ASSUME ManagerInv, DropOne PROVE ManagerInv'
<1>1. CachesInv /\ TimerInv /\ CallsInv /\ FileInv /\ RacedInv
  BY DEF ManagerInv
<1>2. /\ Timer \notin Threads /\ Timer \in Callers /\ Callers = Threads \union {Timer}
  BY <1>1, SizeFacts
<1> DEFINE b == Tail(caches[at].pending)
           c1 == [caches[at] EXCEPT !.pending = b]
<1>3. /\ calls[Timer].step = "drop"
      /\ caches' = [caches EXCEPT ![at] = c1] /\ calls' = [calls EXCEPT ![Timer] = NoCall]
      /\ UNCHANGED <<file, stage, at, pos, missed, overlaps, disturbed, raced>>
  BY DEF DropOne, timerVars, historyVars
<1>4. at \in Threads /\ caches[at].pending # <<>>
  BY <1>1, <1>3 DEF CallsInv, Inside
<1>5. CacheType(caches[at])
  BY <1>1, <1>4 DEF CachesInv
<1>6. b \in Seq(Pairs)
  <2>1. caches[at].pending \in Seq(Pairs)
    BY <1>5 DEF CacheType
  <2> QED BY <1>4, <2>1
<1> HIDE DEF b
<1>8. CacheType(c1)
  BY <1>5, <1>6, TypePending
<1>9. /\ CachesInv' /\ Threads' = Threads /\ Size' = Size /\ Callers' = Callers
      /\ \A i \in Threads : caches'[i] = IF i = at THEN c1 ELSE caches[i]
  <2>1. missed' \in [Threads -> Keys \union {NoKey}]
    BY <1>1, <1>3 DEF CachesInv
  <2> HIDE DEF c1
  <2> QED BY <1>1, <1>3, <1>4, <1>8, <2>1, OneCacheChanges
<1>10. /\ DOMAIN calls' = Callers' /\ \A x \in Callers' : CallType(calls'[x])
       /\ \A x \in Callers : calls'[x] = IF x = Timer THEN NoCall ELSE calls[x]
  BY <1>1, <1>2, <1>3, <1>9, NoCallFacts, OneCallChanges
<1>11. calls'[Timer] = NoCall
  BY <1>2, <1>10
<1>12. CallsInv'
  BY <1>10, <1>11, NoCallFacts DEF CallsInv, Inside, Putting
<1>13. ASSUME NEW i \in Threads, i \notin raced PROVE Fine(caches'[i], calls'[i], calls'[Timer], at' = i)
  <2>1. Fine(caches[i], calls[i], calls[Timer], at = i) /\ calls'[i] = calls[i]
    BY <1>1, <1>2, <1>10, <1>13 DEF RacedInv
  <2>2. ~Busy(calls[Timer], at = i) /\ ~Busy(NoCall, at' = i)
    BY <1>3, NoCallFacts DEF Busy
  <2>3. Fine(caches[i], calls[i], NoCall, at' = i)
    BY <2>1, <2>2, FineAway
  <2>4. CallType(calls[i])
    BY <1>1, <1>2 DEF CallsInv
  <2>5. i = at => Fine(c1, calls[i], NoCall, at' = i)
    BY <1>5, <1>6, <2>3, <2>4, NoCallFacts, FinePending
  <2> HIDE DEF c1
  <2> QED BY <1>9, <1>11, <2>1, <2>3, <2>5
<1>14. RacedInv'
  BY <1>1, <1>2, <1>3, <1>9, <1>10, <1>13 DEF RacedInv, Inside
<1> QED BY <1>1, <1>3, <1>9, <1>12, <1>14 DEF ManagerInv, TimerInv, FileInv

LEMMA ClearStep == ASSUME ManagerInv, ClearOne PROVE ManagerInv'
<1>1. CachesInv /\ TimerInv /\ CallsInv /\ FileInv /\ RacedInv
  BY DEF ManagerInv
<1>2. Size \in Nat /\ Threads = 0 .. Size - 1 /\ Timer \in Callers /\ Callers = Threads \union {Timer}
  BY <1>1, SizeFacts
<1> DEFINE c1 == [caches[at] EXCEPT !.pending = <<>>]
<1>3. /\ stage = "clear" /\ at < Size /\ at' = at + 1
      /\ caches' = [caches EXCEPT ![at] = c1]
      /\ UNCHANGED <<calls, file, stage, pos, missed, overlaps, disturbed, raced>>
  BY DEF ClearOne, historyVars, clearPendingList
<1>4. at \in Threads /\ <<>> \in Seq(Pairs) /\ ~Inside(Timer)
  BY <1>1, <1>2, <1>3, TimerRests DEF TimerInv
<1>5. CacheType(caches[at])
  BY <1>1, <1>4 DEF CachesInv
<1>8. CacheType(c1)
  BY <1>4, <1>5, TypePending
<1>9. /\ CachesInv' /\ Threads' = Threads /\ Size' = Size /\ Callers' = Callers
      /\ \A i \in Threads : caches'[i] = IF i = at THEN c1 ELSE caches[i]
  <2>1. missed' \in [Threads -> Keys \union {NoKey}]
    BY <1>1, <1>3 DEF CachesInv
  <2> HIDE DEF c1
  <2> QED BY <1>1, <1>3, <1>4, <1>8, <2>1, OneCacheChanges
<1>12. CallsInv'
  BY <1>1, <1>3, <1>4, <1>9 DEF CallsInv, Inside, Putting
<1>13. ASSUME NEW i \in Threads, i \notin raced PROVE Fine(caches'[i], calls'[i], calls'[Timer], at' = i)
  <2>1. Fine(caches[i], calls[i], calls[Timer], at = i)
    BY <1>1, <1>13 DEF RacedInv
  <2>2. ~Busy(calls[Timer], at = i) /\ ~Busy(calls[Timer], at' = i)
    BY <1>4, NotBusy
  <2>3. Fine(caches[i], calls[i], calls[Timer], at' = i)
    BY <2>1, <2>2, FineAway
  <2>4. CallType(calls[i]) /\ CallType(calls[Timer])
    BY <1>1, <1>2 DEF CallsInv
  <2>5. i = at => Fine(c1, calls[i], calls[Timer], at' = i)
    BY <1>4, <1>5, <2>3, <2>4, FinePending
  <2> HIDE DEF c1
  <2> QED BY <1>3, <1>9, <2>3, <2>5
<1>14. RacedInv'
  BY <1>1, <1>3, <1>9, <1>13 DEF RacedInv, Inside
<1>15. TimerInv' /\ FileInv'
  BY <1>1, <1>2, <1>3, <1>9 DEF TimerInv, FileInv
<1> QED BY <1>9, <1>12, <1>14, <1>15 DEF ManagerInv

\* The timer's put begins; a worker may be inside the cache.
LEMMA UpdateStep == ASSUME ManagerInv, UpdateOne PROVE ManagerInv'
<1>1. CachesInv /\ TimerInv /\ CallsInv /\ FileInv /\ RacedInv
  BY DEF ManagerInv
<1>2. /\ Size \in Nat /\ Threads = 0 .. Size - 1
      /\ Timer \notin Threads /\ Timer \in Callers /\ Callers = Threads \union {Timer}
  BY <1>1, SizeFacts
<1> DEFINE p == Base.pending[Len(Base.pending) - pos]
           q == PutCall(caches[at], p.key, p.val, "update")
<1>3. /\ stage = "update" /\ at < Size /\ pos < Len(Base.pending) /\ pos' = pos + 1 /\ ~Inside(Timer)
      /\ calls' = [calls EXCEPT ![Timer] = q]
      /\ raced' = IF Inside(at) THEN raced \union {at} ELSE raced
      /\ UNCHANGED <<caches, file, stage, at, missed, overlaps, disturbed>>
  BY DEF UpdateOne, Replay
<1>4. 0 \in Threads /\ at \in Threads
  BY <1>1, <1>2, <1>3 DEF TimerInv
<1>5. p \in Pairs
  <2>1. Base.pending \in Seq(Pairs)
    BY <1>1, <1>4 DEF CachesInv, CacheType, Base
  <2> DEFINE s == Base.pending
  <2> HIDE DEF s
  <2>2. s \in Seq(Pairs) /\ pos \in Nat /\ pos < Len(s)
    BY <1>1, <1>3, <2>1 DEF TimerInv, s
  <2>3. s[Len(s) - pos] \in Pairs
    BY <2>2
  <2> QED BY <2>3 DEF s
<1> HIDE DEF p
<1>6. p.key \in Keys /\ p.val \in Vals
  BY <1>5 DEF Pairs
<1>7. CacheType(caches[at])
  BY <1>1, <1>4 DEF CachesInv
<1>8. CallType(q) /\ q.step \in {"erase", "push"}
  BY <1>6, <1>7, PutEnds
<1>a. Sound(caches[at]) => \A u : u.step = "none" => Fine(caches[at], u, q, TRUE)
  BY <1>6, FinePut
<1> HIDE DEF q
<1>9. Threads' = Threads /\ Size' = Size /\ Callers' = Callers
  BY <1>3 DEF Threads, Size, Callers
<1>10. /\ DOMAIN calls' = Callers' /\ \A x \in Callers' : CallType(calls'[x])
       /\ \A x \in Callers : calls'[x] = IF x = Timer THEN q ELSE calls[x]
  BY <1>1, <1>2, <1>3, <1>8, <1>9, OneCallChanges
<1>11. calls'[Timer] = q
  BY <1>2, <1>10
<1>12. CallsInv'
  BY <1>3, <1>4, <1>8, <1>9, <1>10, <1>11 DEF CallsInv, Inside, Putting
<1>13. ASSUME NEW i \in Threads, i \notin raced' PROVE Fine(caches'[i], calls'[i], calls'[Timer], at' = i)
  <2>1. Fine(caches[i], calls[i], calls[Timer], at = i) /\ calls'[i] = calls[i]
    BY <1>1, <1>2, <1>3, <1>10, <1>13 DEF RacedInv
  <2>2. ~Busy(calls[Timer], at = i)
    BY <1>3, NotBusy
  <2>3. CASE i # at
    <3>1. ~Busy(q, at' = i)
      BY <1>3, <2>3 DEF Busy
    <3>2. Fine(caches[i], calls[i], q, at' = i)
      BY <2>1, <2>2, <3>1, FineAway
    <3> QED BY <1>3, <1>11, <2>1, <3>2
  <2>4. CASE i = at
    <3>1. calls[i].step = "none"
      BY <1>3, <1>13, <2>4 DEF Inside
    <3>2. Sound(caches[i])
      BY <2>1, <2>2, <3>1, FineAtRest
    <3>3. Fine(caches[i], calls[i], q, TRUE) /\ (at' = i) = TRUE
      BY <1>3, <1>a, <2>4, <3>1, <3>2
    <3> QED BY <1>3, <1>11, <2>1, <3>3
  <2> QED BY <2>3, <2>4
<1>14. raced' \subseteq Threads /\ (~disturbed => raced' = {})
  <2>1. ~disturbed => ~Inside(at)
    BY <1>1, <1>3, <1>4 DEF RacedInv
  <2> QED BY <1>1, <1>3, <1>4, <2>1 DEF RacedInv
<1>15. RacedInv'
  BY <1>1, <1>2, <1>3, <1>9, <1>10, <1>13, <1>14 DEF RacedInv, Inside
<1>16. CachesInv' /\ TimerInv' /\ FileInv'
  BY <1>1, <1>3, <1>9 DEF CachesInv, TimerInv, FileInv
<1> QED BY <1>12, <1>15, <1>16 DEF ManagerInv

LEMMA ManagerStep == ManagerInv /\ [Next]_vars => ManagerInv'
<1> SUFFICES ASSUME ManagerInv, [Next]_vars PROVE ManagerInv'
  OBVIOUS
<1>1. CASE updateCache
  BY <1>1, QuietStep, MergeStep, DropStep, UpdateStep, ClearStep DEF updateCache
<1>2. CASE UNCHANGED vars
  BY <1>2 DEF vars, timerVars, historyVars, ManagerInv, CachesInv, TimerInv, CallsInv, FileInv, RacedInv,
              Threads, Size, Callers, Inside, Putting
<1> QED BY <1>1, <1>2, CrashStep, StartStep, WorkerStep, CallStepKeeps DEF Next

\* The types of everything, the caches and the calls under way included.
THEOREM TypesCorrect == Spec => []TypeOK
<1>1. ASSUME ManagerInv PROVE TypeOK
  <2>1. ASSUME NEW t \in Callers
        PROVE  /\ calls[t].step \in {"none", "read", "erase", "push", "size", "unindex", "pop", "index",
                                     "record", "return", "drop"}
               /\ calls[t].op \in {"get", "put", "update"} /\ calls[t].node \in Nat
               /\ calls[t].elem \in Pairs \union {NoPair} /\ calls[t].last \in Keys \union {NoKey}
    BY <1>1 DEF ManagerInv, CallsInv, CallType, Steps
  <2> QED BY <1>1, <2>1 DEF ManagerInv, CachesInv, TimerInv, CallsInv, FileInv, RacedInv, TypeOK
<1> QED BY <1>1, ManagerInit, ManagerStep, PTL DEF Spec

\* Between calls the index of a cache leads to no freed node and to no other
\* key's, wherever in a worker's get or put the timer's merge, clear and backup
\* came and whenever the process died, as long as no call of the worker and
\* put of the timer were inside that cache at once.
THEOREM IndicesSafe == Spec => []IndexSafe
<1>1. ASSUME ManagerInv PROVE IndexSafe
  <2> SUFFICES ASSUME NEW i \in Threads \ raced, ~Inside(i), ~(Putting /\ at = i) PROVE IndexIsSafe(caches[i])
    BY DEF IndexSafe
  <2>1. Fine(caches[i], calls[i], calls[Timer], at = i)
    BY <1>1 DEF ManagerInv, RacedInv
  <2>2. calls[i].step = "none" /\ ~Busy(calls[Timer], at = i)
    BY DEF Inside, Busy, Putting
  <2> QED BY <2>1, <2>2, FineAtRest DEF Sound
<1> QED BY <1>1, ManagerInit, ManagerStep, PTL DEF Spec

-----------------------------------------------------------------------------
(***************************************************************************)
(* The caches with the calls under way completed: a get or a put is a single *)
(* step of view, the one with which it begins, and so is the move of a use.  *)
(* While no worker disturbs an update, view is all that the update sees.     *)
(***************************************************************************)
Shown(c, u, t, here) ==
  IF t.step = "drop" /\ here THEN [c EXCEPT !.pending = Tail(c.pending)] ELSE Finish(c, Left(u, t, here))

view == [i \in Threads |-> Shown(caches[i], calls[i], calls[Timer], at = i)]
Basis == view[0]

LEMMA ShownAtRest ==
  ASSUME NEW c, NEW u, NEW t, NEW here, u.step = "none", t.step = "none" \/ ~here
  PROVE  Shown(c, u, t, here) = c
<1>1. Left(u, t, here) = NoCall
  BY DEF Left, Busy
<1>2. Finish(c, NoCall) = c
  BY NoCallFacts, FinishNothing
<1> QED BY <1>1, <1>2 DEF Shown

LEMMA ShownUserMoves ==
  ASSUME NEW c, NEW u, NEW t, NEW here, t.step = "none", Fine(c, u, t, here),
         NEW d, NEW q, Moves(c, u, d, q), CacheType(c), CallType(u)
  PROVE  Shown(d, q, t, here) = Shown(c, u, t, here)
<1>1. u.step # "none" /\ Left(u, t, here) = u
  BY MovesSteps DEF Left
<1>2. Finish(d, q) = Finish(c, u)
  BY <1>1, MovesKeepEnd DEF Fine
<1>3. Finish(d, Left(q, t, here)) = Finish(d, q)
  <2>1. CASE q.step = "none"
    <3>1. Left(q, t, here) = NoCall
      BY <2>1 DEF Left, Busy
    <3> QED BY <2>1, <3>1, NoCallFacts, FinishNothing
  <2>2. CASE q.step # "none"
    BY <2>2 DEF Left
  <2> QED BY <2>1, <2>2
<1> QED BY <1>1, <1>2, <1>3 DEF Shown

LEMMA ShownTimerMoves ==
  ASSUME NEW c, NEW u, NEW t, u.step = "none", Fine(c, u, t, TRUE),
         NEW d, NEW q, Moves(c, t, d, q), CacheType(c), CallType(t)
  PROVE  Shown(d, u, q, TRUE) = Shown(c, u, t, TRUE)
<1>1. Busy(t, TRUE) /\ Left(u, t, TRUE) = t /\ t.step # "drop"
  BY MovesSteps DEF Left, Busy
<1>2. Finish(d, q) = Finish(c, t) /\ q.step # "drop"
  <2>1. t.step = "read" => HasNode(c, t.node)
    BY <1>1 DEF Fine
  <2> QED BY <2>1, MovesKeepEnd, MovesKeepTypes
<1>3. Finish(d, Left(u, q, TRUE)) = Finish(d, q)
  <2>1. CASE q.step = "none"
    <3>1. Left(u, q, TRUE) = NoCall
      BY <2>1 DEF Left, Busy
    <3>2. Finish(d, q) = d /\ Finish(d, NoCall) = d
      BY <2>1, NoCallFacts, FinishNothing
    <3> QED BY <3>1, <3>2
  <2>2. CASE q.step # "none"
    BY <1>2, <2>2 DEF Left, Busy
  <2> QED BY <2>1, <2>2
<1> QED BY <1>1, <1>2, <1>3 DEF Shown

\* Away from the cache the timer is at, its call is not seen.
LEMMA ShownAway ==
  ASSUME NEW c, NEW u, NEW t, NEW s PROVE Shown(c, u, t, FALSE) = Shown(c, u, s, FALSE)
BY DEF Shown, Left, Busy

LEMMA ShownElsewhere ==
  ASSUME NEW c, NEW u, NEW t, u.step = "none" PROVE Shown(c, u, t, FALSE) = c
<1>1. Left(u, t, FALSE) = NoCall
  BY DEF Left, Busy
<1>2. Finish(c, NoCall) = c
  BY NoCallFacts, FinishNothing
<1> QED BY <1>1, <1>2 DEF Shown

LEMMA ManagerFacts ==
  ASSUME ManagerInv
  PROVE  /\ Size \in Nat /\ Threads = 0 .. Size - 1 /\ file \in Seq(Pairs)
         /\ at \in 0 .. Size /\ pos \in Nat
         /\ stage # "down" => Size >= 1 /\ 0 \in Threads
         /\ view = [i \in Threads |-> view[i]]
         /\ ~disturbed => \A i \in Threads :
              Sound(view[i]) /\ view[i].data \in Seq(Entries) /\ view[i].pending \in Seq(Pairs)
         /\ \A i \in Threads : i \in Nat
         /\ Kept \in Nat
<1>1. Size \in Nat /\ Threads = 0 .. Size - 1 /\ (Threads = {} <=> Size = 0)
  BY SizeFacts DEF ManagerInv
<1>2. file \in Seq(Pairs) /\ at \in 0 .. Size /\ pos \in Nat /\ (stage = "down" <=> Threads = {})
  BY DEF ManagerInv, FileInv, TimerInv
<1>3. Kept \in Nat
  BY <1>1, <1>2 DEF Kept
<1>4. stage # "down" => Size >= 1 /\ 0 \in Threads
  BY <1>1, <1>2
<1>5. view = [i \in Threads |-> view[i]]
  BY DEF view
<1>6. ASSUME ~disturbed, NEW i \in Threads PROVE Sound(view[i])
  <2> DEFINE c == caches[i]
             t == calls[Timer]
  <2>1. view[i] = Shown(c, calls[i], t, at = i)
    BY DEF view
  <2>2. Fine(c, calls[i], t, at = i)
    BY <1>6 DEF ManagerInv, RacedInv
  <2>3. CASE t.step = "drop" /\ at = i
    <3>1. calls[i].step = "none" /\ c.pending # <<>> /\ CacheType(c)
      BY <1>6, <2>3 DEF ManagerInv, CallsInv, CachesInv, RacedInv, Inside
    <3>2. Sound(c)
      BY <2>2, <2>3, <3>1, FineAtRest DEF Busy
    <3>3. Tail(c.pending) \in Seq(Pairs)
      <4>1. c.pending \in Seq(Pairs)
        BY <3>1 DEF CacheType
      <4> QED BY <3>1, <4>1
    <3>4. Sound([c EXCEPT !.pending = Tail(c.pending)])
      BY <3>2, <3>3, ClearFacts
    <3> QED BY <2>1, <2>3, <3>4 DEF Shown
  <2>4. CASE ~(t.step = "drop" /\ at = i)
    BY <2>1, <2>2, <2>4 DEF Fine, Shown
  <2> QED BY <2>3, <2>4
<1>7. ASSUME ~disturbed, NEW i \in Threads
      PROVE  Sound(view[i]) /\ view[i].data \in Seq(Entries) /\ view[i].pending \in Seq(Pairs)
  BY <1>6, <1>7 DEF Sound, CacheType
<1> QED BY <1>1, <1>2, <1>3, <1>4, <1>5, <1>7

\* With no call under way the caches are what view shows.
LEMMA Bare == ManagerInv /\ (\A t \in Callers : ~Inside(t)) => view = caches
<1> SUFFICES ASSUME ManagerInv, \A t \in Callers : ~Inside(t) PROVE view = caches
  OBVIOUS
<1>1. Callers = Threads \union {Timer} /\ caches = [i \in Threads |-> caches[i]]
  BY SizeFacts DEF ManagerInv, CachesInv
<1>2. ASSUME NEW i \in Threads PROVE Shown(caches[i], calls[i], calls[Timer], at = i) = caches[i]
  BY <1>1, ShownAtRest DEF Inside
<1> QED BY <1>1, <1>2 DEF view

\* So it is where the update is between its calls, and at their ends.
LEMMA BareStep ==
  ASSUME ManagerInv, ManagerInv', ~disturbed, stage # "idle" \/ (\A w \in Threads : ~Inside(w)),
         ~Inside(Timer), UNCHANGED calls, Threads' = Threads
  PROVE  view = caches /\ view' = caches' /\ Basis = Base /\ Basis' = Base'
<1>1. \A t \in Callers : ~Inside(t)
  <2>1. \A w \in Threads : ~Inside(w)
    BY DEF ManagerInv, RacedInv
  <2> QED BY <2>1 DEF Callers
<1>2. (\A t \in Callers : ~Inside(t))'
  <2>1. Callers' = Callers
    BY DEF Callers
  <2> QED BY <1>1, <2>1 DEF Inside
<1>3. view = caches
  BY <1>1, Bare
<1>4. (ManagerInv /\ (\A t \in Callers : ~Inside(t)) => view = caches)'
  BY Bare, PTL
<1>5. view' = caches'
  BY <1>2, <1>4
<1> QED BY <1>3, <1>5 DEF Basis, Base
-----------------------------------------------------------------------------
(***************************************************************************)
(* What a list of at most n entries shows of a list of uses: the last use of *)
(* every key, in the order of the uses, and when keys are left out, then     *)
(* only because the list is full and of keys used before all it holds.       *)
(***************************************************************************)
Shows(s, n, uses) ==
  /\ Len(s) <= n
  /\ \A a \in 1 .. Len(s) :
       \E i \in Firsts(uses) : s[a].key = uses[i].key /\ s[a].val = uses[i].val
  /\ \A a, b \in 1 .. Len(s), i, j \in Firsts(uses) :
       a < b /\ s[a].key = uses[i].key /\ s[b].key = uses[j].key => i < j
  /\ \A j \in Firsts(uses) :
       \/ \E a \in 1 .. Len(s) : s[a].key = uses[j].key
       \/ /\ Len(s) = n
          /\ \A a \in 1 .. Len(s), i \in Firsts(uses) : s[a].key = uses[i].key => i < j

LEMMA FirstsFacts ==
  ASSUME NEW uses \in Seq(Pairs)
  PROVE  /\ Firsts(uses) \subseteq 1 .. Len(uses)
         /\ IsFiniteSet(Firsts(uses)) /\ Cardinality(Firsts(uses)) \in Nat
         /\ \A i \in Firsts(uses) : uses[i] \in Pairs
         /\ \A i, j \in Firsts(uses) : uses[i].key = uses[j].key => i = j
<1>1. Firsts(uses) \subseteq 1 .. Len(uses) /\ Len(uses) \in Nat
  BY DEF Firsts
<1>2. IsFiniteSet(1 .. Len(uses))
  BY <1>1, FS_Interval
<1>3. IsFiniteSet(Firsts(uses))
  BY <1>1, <1>2, FS_Subset
<1>4. ASSUME NEW i \in Firsts(uses), NEW j \in Firsts(uses), uses[i].key = uses[j].key PROVE i = j
  <2>1. i \in 1 .. Len(uses) /\ j \in 1 .. Len(uses)
    BY <1>1
  <2>2. ~(i < j) /\ ~(j < i)
    BY <1>4, <2>1 DEF Firsts
  <2> QED BY <2>1, <2>2
<1> QED BY <1>1, <1>3, <1>4, FS_CardinalityType

LEMMA RankOrder ==
  ASSUME NEW uses \in Seq(Pairs), NEW i \in Firsts(uses), NEW j \in Firsts(uses),
         Rank(uses, i) = Rank(uses, j)
  PROVE  i = j
<1> DEFINE F == Firsts(uses)
           Down(x) == {y \in F : y <= x}
<1>1. F \subseteq Nat /\ IsFiniteSet(F)
  BY FirstsFacts
<1>2. ASSUME NEW x \in F, NEW y \in F, x < y PROVE Rank(uses, x) # Rank(uses, y)
  <2>1. Down(x) \in SUBSET Down(y) /\ y \in Down(y) /\ y \notin Down(x)
    BY <1>1, <1>2
  <2>2. IsFiniteSet(Down(y))
    <3>1. Down(y) \in SUBSET F
      OBVIOUS
    <3> QED BY <1>1, <3>1, FS_Subset
  <2>3. Cardinality(Down(y)) # Cardinality(Down(x))
    <3> HIDE DEF Down
    <3> QED BY <2>1, <2>2, FS_Subset
  <2> QED BY <2>3 DEF Rank
<1>3. i \in Nat /\ j \in Nat
  BY <1>1
<1> QED BY <1>2, <1>3

\* As many elements as places when no element is at two of them.
LEMMA ImageSize ==
  ASSUME NEW n \in Nat, NEW T, NEW f \in [1 .. n -> T],
         \A a, b \in 1 .. n : f[a] = f[b] => a = b,
         \A y \in T : \E a \in 1 .. n : f[a] = y
  PROVE  IsFiniteSet(T) /\ Cardinality(T) = n
<1>1. f \in Bijection(1 .. n, T)
  BY DEF Bijection, Injection, IsInjective, Surjection
<1>2. ExistsBijection(1 .. n, T)
  BY <1>1 DEF ExistsBijection
<1>3. IsFiniteSet(1 .. n) /\ Cardinality(1 .. n) = IF 1 > n THEN 0 ELSE n - 1 + 1
  BY FS_Interval
<1>4. (IF 1 > n THEN 0 ELSE n - 1 + 1) = n
  OBVIOUS
<1> QED BY <1>2, <1>3, <1>4, FS_Bijection

\* A list that shows the uses is the list of the recent ones.
LEMMA ShownIsRecent ==
  ASSUME NEW uses \in Seq(Pairs), NEW n \in Nat, NEW s \in Seq(Entries), Shows(s, n, uses)
  PROVE  PairsOf(s) = Recent(n, uses)
<1> DEFINE F == Firsts(uses)
           L == Len(s)
           m == [a \in 1 .. L |-> CHOOSE i \in F : s[a].key = uses[i].key /\ s[a].val = uses[i].val]
<1>1. /\ F \subseteq 1 .. Len(uses) /\ F \subseteq Nat /\ IsFiniteSet(F) /\ Cardinality(F) \in Nat
      /\ \A i \in F : uses[i] \in Pairs
      /\ \A i, j \in F : uses[i].key = uses[j].key => i = j
  BY FirstsFacts
<1>2. L \in Nat /\ L <= n /\ DOMAIN s = 1 .. L
  BY DEF Shows
<1>3. \A a \in 1 .. L : m[a] \in F /\ s[a].key = uses[m[a]].key /\ s[a].val = uses[m[a]].val
  BY DEF Shows
<1>4. m \in [1 .. L -> F]
  BY <1>3
<1> HIDE DEF m
<1>5. \A a, b \in 1 .. L : a < b => m[a] < m[b]
  <2>1. \A a, b \in 1 .. L, i, j \in F : a < b /\ s[a].key = uses[i].key /\ s[b].key = uses[j].key => i < j
    BY DEF Shows
  <2> QED BY <1>3, <2>1
<1>6. ASSUME NEW j \in F
      PROVE  \/ \E a \in 1 .. L : m[a] = j
             \/ L = n /\ \A a \in 1 .. L : m[a] < j
  <2>1. CASE \E a \in 1 .. L : s[a].key = uses[j].key
    <3>1. PICK a \in 1 .. L : s[a].key = uses[j].key
      BY <2>1
    <3>2. m[a] \in F /\ uses[m[a]].key = uses[j].key
      BY <1>3, <3>1
    <3> QED BY <1>1, <3>2
  <2>2. CASE L = n /\ \A a \in 1 .. L, i \in F : s[a].key = uses[i].key => i < j
    BY <1>3, <2>2
  <2> QED BY <2>1, <2>2 DEF Shows
<1>7. ASSUME NEW a \in 1 .. L PROVE Rank(uses, m[a]) = a
  <2> DEFINE T == {y \in F : y <= m[a]}
             g == [b \in 1 .. a |-> m[b]]
  <2>0. a \in Nat /\ \A b \in 1 .. a : b \in 1 .. L
    BY <1>2
  <2>1. \A b \in 1 .. a : g[b] \in T
    <3> TAKE b \in 1 .. a
    <3>1. b \in 1 .. L /\ m[b] \in F /\ m[a] \in F /\ m[b] \in Nat /\ m[a] \in Nat
      BY <1>1, <1>4, <2>0
    <3>2. b = a \/ b < a
      BY <2>0
    <3> QED BY <1>5, <3>1, <3>2
  <2>2. \A y \in T : \E b \in 1 .. a : g[b] = y
    <3> TAKE y \in T
    <3>1. y \in F /\ y <= m[a] /\ m[a] \in F /\ y \in Nat /\ m[a] \in Nat
      BY <1>1, <1>4
    <3>2. PICK b \in 1 .. L : m[b] = y
      BY <1>6, <3>1
    <3>3. ~(a < b)
      BY <1>5, <3>1, <3>2
    <3>4. b \in 1 .. a
      BY <2>0, <3>2, <3>3
    <3> QED BY <3>2, <3>4
  <2>3. \A b, c \in 1 .. a : g[b] = g[c] => b = c
    <3> TAKE b, c \in 1 .. a
    <3>1. b \in 1 .. L /\ c \in 1 .. L /\ b \in Nat /\ c \in Nat /\ m[b] \in Nat /\ m[c] \in Nat
      BY <1>1, <1>4, <2>0
    <3>2. ~(b < c /\ m[b] = m[c]) /\ ~(c < b /\ m[b] = m[c])
      BY <1>5, <3>1
    <3> QED BY <3>1, <3>2
  <2>4. g \in [1 .. a -> T]
    BY <2>1
  <2> HIDE DEF g, T
  <2>5. Cardinality(T) = a
    BY <2>0, <2>2, <2>3, <2>4, ImageSize
  <2> QED BY <2>5 DEF Rank, T
<1>8. ASSUME NEW a \in 1 .. L PROVE (CHOOSE i \in F : Rank(uses, i) = a) = m[a]
  <2>1. m[a] \in F /\ Rank(uses, m[a]) = a
    BY <1>4, <1>7
  <2>2. \A i \in F : Rank(uses, i) = a => i = m[a]
    BY <2>1, RankOrder
  <2> QED BY <2>1, <2>2
<1>9. L = IF n < Cardinality(F) THEN n ELSE Cardinality(F)
  <2> DEFINE M == {m[a] : a \in 1 .. L}
  <2>1. M \in SUBSET F
    BY <1>4
  <2>2. IsFiniteSet(M) /\ Cardinality(M) = L
    <3>1. \A a, b \in 1 .. L : m[a] = m[b] => a = b
      <4> TAKE a, b \in 1 .. L
      <4>1. a \in Nat /\ b \in Nat /\ m[a] \in Nat /\ m[b] \in Nat
        BY <1>1, <1>4
      <4>2. ~(a < b /\ m[a] = m[b]) /\ ~(b < a /\ m[a] = m[b])
        BY <1>5, <4>1
      <4> QED BY <4>1, <4>2
    <3>2. m \in [1 .. L -> M] /\ \A y \in M : \E a \in 1 .. L : m[a] = y
      BY <1>4
    <3> HIDE DEF M
    <3> QED BY <1>2, <3>1, <3>2, ImageSize
  <2> HIDE DEF L
  <2>3. CASE \A j \in F : \E a \in 1 .. L : m[a] = j
    <3>1. F = M
      BY <2>1, <2>3
    <3> HIDE DEF M
    <3>2. Cardinality(F) = L
      BY <2>2, <3>1
    <3> HIDE DEF F
    <3> QED BY <1>2, <3>2
  <2>4. CASE \E j \in F : ~ \E a \in 1 .. L : m[a] = j
    <3>1. PICK j \in F : ~ \E a \in 1 .. L : m[a] = j
      BY <2>4
    <3>2. L = n
      BY <1>6, <3>1
    <3>3. j \notin M
      BY <3>1
    <3> HIDE DEF M
    <3>4. Cardinality(M) # Cardinality(F) /\ Cardinality(M) <= Cardinality(F)
      BY <1>1, <2>1, <3>3, FS_Subset
    <3> HIDE DEF F
    <3> QED BY <1>1, <1>2, <2>2, <3>2, <3>4
  <2> QED BY <2>3, <2>4
<1>10. ASSUME NEW a \in 1 .. L PROVE Pair(s[a]) = uses[CHOOSE i \in F : Rank(uses, i) = a]
  <2>1. m[a] \in F /\ s[a].key = uses[m[a]].key /\ s[a].val = uses[m[a]].val
    BY <1>3
  <2>2. uses[m[a]] \in Pairs
    BY <1>1, <2>1
  <2>3. Pair(s[a]) = uses[m[a]]
    BY <2>1, <2>2 DEF Pair, Pairs
  <2> QED BY <1>8, <2>3
<1>11. Recent(n, uses) = [a \in 1 .. L |-> uses[CHOOSE i \in F : Rank(uses, i) = a]]
  BY <1>9 DEF Recent
<1>12. PairsOf(s) = [a \in 1 .. L |-> Pair(s[a])]
  BY <1>2 DEF PairsOf
<1> HIDE DEF L, F
<1> QED BY <1>10, <1>11, <1>12

\* A use in front is the first of its key, and the uses it hides are none.
LEMMA FirstsCons ==
  ASSUME NEW uses \in Seq(Pairs), NEW p \in Pairs
  PROVE  LET more == <<p>> \o uses IN
           /\ more \in Seq(Pairs) /\ more[1] = p
           /\ \A i \in 1 .. Len(uses) : more[i + 1] = uses[i]
           /\ 1 \in Firsts(more)
           /\ \A i \in Firsts(uses) : uses[i].key # p.key => i + 1 \in Firsts(more)
           /\ \A i \in Firsts(more) :
                i = 1 \/ /\ i - 1 \in Firsts(uses) /\ uses[i - 1].key # p.key
                         /\ more[i] = uses[i - 1]
<1> DEFINE more == <<p>> \o uses
           n == Len(uses)
<1>1. /\ more \in Seq(Pairs) /\ Len(more) = n + 1 /\ more[1] = p
      /\ \A i \in 1 .. n : more[i + 1] = uses[i]
  BY ConsFacts
<1>2. n \in Nat /\ DOMAIN uses = 1 .. n /\ DOMAIN more = 1 .. n + 1
  BY <1>1
<1> HIDE DEF more, n
<1>3. 1 \in Firsts(more)
  BY <1>2 DEF Firsts
<1>4. \A i \in 2 .. n + 1 : i - 1 \in 1 .. n /\ more[i] = uses[i - 1]
  <2> TAKE i \in 2 .. n + 1
  <2>1. i - 1 \in 1 .. n /\ (i - 1) + 1 = i
    BY <1>2
  <2> QED BY <1>1, <2>1
<1>5. ASSUME NEW i \in Firsts(uses), uses[i].key # p.key PROVE i + 1 \in Firsts(more)
  <2>1. i \in 1 .. n /\ \A j \in 1 .. i - 1 : uses[j].key # uses[i].key
    BY <1>2 DEF Firsts
  <2>2. ASSUME NEW j \in 1 .. (i + 1) - 1 PROVE more[j].key # more[i + 1].key
    <3>1. CASE j = 1
      BY <1>1, <1>5, <2>1, <3>1
    <3>2. CASE j # 1
      <4>1. j \in 2 .. n + 1 /\ j - 1 \in 1 .. i - 1
        BY <1>2, <2>1, <3>2
      <4> QED BY <1>1, <1>4, <2>1, <4>1
    <3> QED BY <3>1, <3>2
  <2>3. i + 1 \in 1 .. n + 1
    BY <1>2, <2>1
  <2> QED BY <1>2, <2>2, <2>3 DEF Firsts
<1>6. ASSUME NEW i \in Firsts(more), i # 1
      PROVE  i - 1 \in Firsts(uses) /\ uses[i - 1].key # p.key /\ more[i] = uses[i - 1]
  <2>1. i \in 2 .. n + 1 /\ \A j \in 1 .. i - 1 : more[j].key # more[i].key
    BY <1>2, <1>6 DEF Firsts
  <2>2. i - 1 \in 1 .. n /\ more[i] = uses[i - 1]
    BY <1>4, <2>1
  <2>3. ASSUME NEW j \in 1 .. (i - 1) - 1 PROVE uses[j].key # uses[i - 1].key
    <3>1. j \in 1 .. n /\ j + 1 \in 1 .. i - 1
      BY <1>2, <2>1
    <3> QED BY <1>1, <2>1, <2>2, <3>1
  <2>4. uses[i - 1].key # p.key
    <3>1. 1 \in 1 .. i - 1
      BY <2>1
    <3> QED BY <1>1, <2>1, <2>2, <3>1
  <2> QED BY <1>2, <2>2, <2>3, <2>4 DEF Firsts
<1> QED BY <1>1, <1>3, <1>5, <1>6 DEF more, n

\* A list t that shows one more use than s: the use in front, then what s
\* holds of other keys, from its front to its end or until t is full.
LEMMA UseInFront ==
  ASSUME NEW uses \in Seq(Pairs), NEW p \in Pairs, NEW n \in Nat,
         NEW s \in Seq(Entries), NEW t \in Seq(Entries), Shows(s, n, uses),
         Len(t) >= 1, Len(t) <= n, Len(s) = n => Len(t) = n,
         t[1].key = p.key, t[1].val = p.val,
         NEW old \in [2 .. Len(t) -> 1 .. Len(s)],
         \A a \in 2 .. Len(t) :
           s[old[a]].key # p.key /\ t[a].key = s[old[a]].key /\ t[a].val = s[old[a]].val,
         \A a, b \in 2 .. Len(t) : a < b => old[a] < old[b],
         \A c \in 1 .. Len(s) : s[c].key # p.key =>
           \/ \E a \in 2 .. Len(t) : old[a] = c
           \/ Len(t) = n /\ \A a \in 2 .. Len(t) : old[a] < c
  PROVE  Shows(t, n, <<p>> \o uses)
<1> DEFINE more == <<p>> \o uses
           F == Firsts(uses)
           G == Firsts(more)
           L == Len(t)
<1>1. /\ more[1] = p
      /\ \A i \in 1 .. Len(uses) : more[i + 1] = uses[i]
      /\ 1 \in G
      /\ \A i \in F : uses[i].key # p.key => i + 1 \in G
      /\ \A i \in G : i = 1 \/ /\ i - 1 \in F /\ uses[i - 1].key # p.key
                               /\ more[i] = uses[i - 1]
  BY FirstsCons, ZenonT(30)
<1>2. F \subseteq 1 .. Len(uses) /\ L \in Nat /\ L >= 1 /\ Len(uses) \in Nat /\ \A i \in F : i \in Nat
  <2>1. F \subseteq 1 .. Len(uses)
    <3> HIDE DEF more, G, L
    <3> QED BY FirstsFacts
  <2>2. Len(uses) \in Nat /\ L \in Nat /\ L >= 1
    OBVIOUS
  <2> HIDE DEF F, L
  <2>3. \A i \in F : i \in Nat
    BY <2>1, <2>2
  <2> QED BY <2>1, <2>2, <2>3
<1>3. \A i \in G : i \in Nat /\ i >= 1
  <2>1. more \in Seq(Pairs)
    BY FirstsCons
  <2>2. G \subseteq 1 .. Len(more)
    <3> HIDE DEF more
    <3> QED BY <2>1, FirstsFacts
  <2> QED BY <2>2
<1> HIDE DEF more, F, G
<1>4. /\ \A a \in 1 .. Len(s) : \E i \in F : s[a].key = uses[i].key /\ s[a].val = uses[i].val
      /\ \A a, b \in 1 .. Len(s), i, j \in F :
           a < b /\ s[a].key = uses[i].key /\ s[b].key = uses[j].key => i < j
      /\ \A j \in F :
           \/ \E a \in 1 .. Len(s) : s[a].key = uses[j].key
           \/ Len(s) = n /\ \A a \in 1 .. Len(s), i \in F : s[a].key = uses[i].key => i < j
  BY DEF Shows, F
<1>5. \A a \in 1 .. L : a = 1 \/ a \in 2 .. L
  BY <1>2
<1>6. ASSUME NEW a \in 2 .. L
      PROVE  \E i \in G : t[a].key = more[i].key /\ t[a].val = more[i].val
  <2>1. old[a] \in 1 .. Len(s)
    OBVIOUS
  <2>2. PICK i \in F : s[old[a]].key = uses[i].key /\ s[old[a]].val = uses[i].val
    BY <1>4, <2>1
  <2>3. i + 1 \in G /\ more[i + 1] = uses[i]
    BY <1>1, <1>2, <2>2
  <2> QED BY <2>2, <2>3
<1>7. ASSUME NEW a \in 1 .. L, NEW i \in G, t[a].key = more[i].key
      PROVE  \/ a = 1 /\ i = 1
             \/ /\ a \in 2 .. L /\ i # 1 /\ i - 1 \in F /\ i - 1 \in Nat
                /\ old[a] \in 1 .. Len(s) /\ s[old[a]].key = uses[i - 1].key
  <2>1. CASE a = 1
    <3>1. more[i].key = p.key
      BY <1>7, <2>1
    <3> QED BY <1>1, <2>1, <3>1
  <2>2. CASE a \in 2 .. L
    <3>1. old[a] \in 1 .. Len(s) /\ t[a].key = s[old[a]].key /\ s[old[a]].key # p.key
      BY <2>2
    <3>2. i # 1
      BY <1>1, <1>7, <3>1
    <3>3. i - 1 \in F /\ more[i] = uses[i - 1]
      BY <1>1, <3>2
    <3>4. s[old[a]].key = uses[i - 1].key
      BY <1>7, <3>1, <3>3
    <3>5. i - 1 \in Nat
      BY <1>2, <1>3, <3>3
    <3> QED BY <2>2, <3>1, <3>2, <3>3, <3>4, <3>5
  <2> QED BY <1>5, <2>1, <2>2
<1>8. ASSUME NEW a \in 1 .. L, NEW b \in 1 .. L, NEW i \in G, NEW j \in G,
             a < b, t[a].key = more[i].key, t[b].key = more[j].key
      PROVE  i < j
  <2>1. b # 1
    BY <1>8
  <2>2. /\ b \in 2 .. L /\ j # 1 /\ j - 1 \in F /\ j - 1 \in Nat
        /\ old[b] \in 1 .. Len(s) /\ s[old[b]].key = uses[j - 1].key
    BY <1>7, <1>8, <2>1
  <2>0. i \in Nat /\ j \in Nat /\ j >= 1
    BY <1>3
  <2>3. CASE a = 1 /\ i = 1
    BY <2>0, <2>2, <2>3
  <2>4. CASE /\ a \in 2 .. L /\ i # 1 /\ i - 1 \in F /\ i - 1 \in Nat
             /\ old[a] \in 1 .. Len(s) /\ s[old[a]].key = uses[i - 1].key
    <3>1. old[a] < old[b]
      BY <1>8, <2>2, <2>4
    <3> DEFINE x == old[a]
               y == old[b]
    <3>2. x \in 1 .. Len(s) /\ y \in 1 .. Len(s) /\ x < y
          /\ s[x].key = uses[i - 1].key /\ s[y].key = uses[j - 1].key
      BY <2>2, <2>4, <3>1
    <3> HIDE DEF x, y
    <3>a. i - 1 \in F /\ j - 1 \in F
      BY <2>2, <2>4
    <3>b. \A k, l \in F : s[x].key = uses[k].key /\ s[y].key = uses[l].key => k < l
      BY <1>4, <3>2
    <3>3. i - 1 < j - 1
      BY <3>2, <3>a, <3>b
    <3> QED BY <2>0, <3>3
  <2> QED BY <1>7, <1>8, <2>3, <2>4
<1>9. ASSUME NEW j \in G
      PROVE  \/ \E a \in 1 .. L : t[a].key = more[j].key
             \/ L = n /\ \A a \in 1 .. L, i \in G : t[a].key = more[i].key => i < j
  <2>1. CASE j = 1
    <3>1. 1 \in 1 .. L /\ t[1].key = more[j].key
      BY <1>1, <1>2, <2>1
    <3> QED BY <3>1
  <2>2. CASE j # 1
    <3>1. j - 1 \in F /\ uses[j - 1].key # p.key /\ more[j] = uses[j - 1] /\ j > 1 /\ j \in Nat
      BY <1>1, <1>3, <2>2
    <3>2. CASE \E c \in 1 .. Len(s) : s[c].key = uses[j - 1].key
      <4>1. PICK c \in 1 .. Len(s) : s[c].key = uses[j - 1].key
        BY <3>2
      <4>2. CASE \E a \in 2 .. L : old[a] = c
        <5>1. PICK a \in 2 .. L : old[a] = c
          BY <4>2
        <5>2. a \in 1 .. L /\ t[a].key = s[c].key
          BY <5>1
        <5> QED BY <3>1, <4>1, <5>2
      <4>3. CASE L = n /\ \A a \in 2 .. L : old[a] < c
        <5>1. ASSUME NEW a \in 1 .. L, NEW i \in G, t[a].key = more[i].key PROVE i < j
          <6>1. CASE a = 1 /\ i = 1
            BY <3>1, <6>1
          <6>2. CASE /\ a \in 2 .. L /\ i - 1 \in F /\ i - 1 \in Nat
                     /\ old[a] \in 1 .. Len(s) /\ s[old[a]].key = uses[i - 1].key
            <7>1. old[a] < c
              BY <4>3, <6>2
            <7>2. i - 1 < j - 1
              BY <1>4, <3>1, <4>1, <6>2, <7>1
            <7> QED BY <1>3, <3>1, <7>2
          <6> QED BY <1>7, <5>1, <6>1, <6>2
        <5> QED BY <4>3, <5>1
      <4>4. s[c].key # p.key
        BY <3>1, <4>1
      <4> QED BY <4>2, <4>3, <4>4
    <3>3. CASE Len(s) = n /\ \A a \in 1 .. Len(s), i \in F : s[a].key = uses[i].key => i < j - 1
      <4>1. ASSUME NEW a \in 1 .. L, NEW i \in G, t[a].key = more[i].key PROVE i < j
        <5>1. CASE a = 1 /\ i = 1
          BY <3>1, <5>1
        <5>2. CASE /\ a \in 2 .. L /\ i - 1 \in F /\ i - 1 \in Nat
                   /\ old[a] \in 1 .. Len(s) /\ s[old[a]].key = uses[i - 1].key
          <6>1. i - 1 < j - 1
            BY <3>3, <5>2
          <6> QED BY <1>3, <3>1, <6>1
        <5> QED BY <1>7, <4>1, <5>1, <5>2
      <4> QED BY <3>3, <4>1
    <3> QED BY <1>4, <3>1, <3>2, <3>3
  <2> QED BY <2>1, <2>2
<1>10. \A a \in 1 .. L : \E i \in G : t[a].key = more[i].key /\ t[a].val = more[i].val
  <2> TAKE a \in 1 .. L
  <2>1. CASE a = 1
    BY <1>1, <2>1
  <2>2. CASE a \in 2 .. L
    BY <1>6, <2>2
  <2> QED BY <1>5, <2>1, <2>2
<1> HIDE DEF L
<1>11. Len(t) <= n /\ L = Len(t)
  BY DEF L
<1> QED BY <1>8, <1>9, <1>10, <1>11 DEF Shows, more, G

\* The length that a cache's list may not exceed: a cache built from a longer
\* backup goes on as one of that length.
Limit(c) == IF c.capacity < Len(c.data) THEN Len(c.data) ELSE c.capacity

LEMMA KeysOnce ==
  ASSUME NEW c, Sound(c), IndexIsComplete(c)
  PROVE  \A a, b \in 1 .. Len(c.data) : c.data[a].key = c.data[b].key => a = b
<1>1. c.data \in Seq(Entries) /\ DOMAIN c.data = 1 .. Len(c.data)
  BY DEF Sound, CacheType
<1>2. ASSUME NEW a \in 1 .. Len(c.data), NEW b \in 1 .. Len(c.data), c.data[a].key = c.data[b].key
      PROVE  c.data[a].node = c.data[b].node
  BY <1>1, <1>2 DEF IndexIsComplete
<1> QED BY <1>1, <1>2 DEF Sound, IndexIsSafe

\* An entry of the list moves to the front.
LEMMA ShowsMoved ==
  ASSUME NEW uses \in Seq(Pairs), NEW n \in Nat, NEW s \in Seq(Entries), Shows(s, n, uses),
         \A a, b \in 1 .. Len(s) : s[a].key = s[b].key => a = b,
         NEW e \in Entries, NEW q \in 1 .. Len(s), s[q].key = e.key
  PROVE  LET t == <<e>> \o RemoveAt(s, q)
         IN  t \in Seq(Entries) /\ Len(t) = Len(s) /\ Shows(t, n, <<Pair(e)>> \o uses)
<1> DEFINE rest == RemoveAt(s, q)
           t == <<e>> \o rest
           L == Len(s)
           p == Pair(e)
           old == [a \in 2 .. L |-> IF a - 1 < q THEN a - 1 ELSE a]
<1>1. L \in Nat /\ q \in Nat /\ 1 <= q /\ q <= L /\ L <= n
  BY DEF Shows
<1>2. /\ rest \in Seq(Entries) /\ Len(rest) = L - 1
      /\ \A i \in 1 .. L - 1 : rest[i] = IF i < q THEN s[i] ELSE s[i + 1]
  BY RemoveFacts
<1> HIDE DEF rest
<1>3. /\ t \in Seq(Entries) /\ Len(t) = Len(rest) + 1 /\ t[1] = e
      /\ \A i \in 1 .. Len(rest) : t[i + 1] = rest[i]
  BY <1>2, ConsFacts
<1> HIDE DEF t, L
<1>4. Len(t) = L /\ \A i \in 1 .. L - 1 : t[i + 1] = rest[i]
  BY <1>1, <1>2, <1>3
<1>5. ASSUME NEW a \in 2 .. L
      PROVE  old[a] \in 1 .. L /\ old[a] # q /\ t[a] = s[old[a]]
  <2>1. a - 1 \in 1 .. L - 1 /\ (a - 1) + 1 = a
    BY <1>1
  <2>2. t[a] = rest[a - 1]
    BY <1>4, <2>1
  <2>3. rest[a - 1] = IF a - 1 < q THEN s[a - 1] ELSE s[(a - 1) + 1]
    BY <1>2, <2>1
  <2> QED BY <1>1, <2>1, <2>2, <2>3
<1>6. old \in [2 .. L -> 1 .. L]
  BY <1>5
<1>7. \A a, b \in 2 .. L : a < b => old[a] < old[b]
  BY <1>1
<1>8. ASSUME NEW i \in 1 .. L, i # q PROVE \E a \in 2 .. L : old[a] = i
  <2> DEFINE a == IF i < q THEN i + 1 ELSE i
  <2>1. a \in 2 .. L /\ old[a] = i
    BY <1>1, <1>8
  <2> QED BY <2>1
<1> HIDE DEF old, p
<1>9. ASSUME NEW a \in 2 .. L
      PROVE  s[old[a]].key # e.key /\ t[a].key = s[old[a]].key /\ t[a].val = s[old[a]].val
  <2> DEFINE x == old[a]
  <2>1. x \in 1 .. L /\ x # q /\ t[a] = s[x]
    BY <1>5
  <2> HIDE DEF x
  <2>2. s[x].key # s[q].key
    BY <2>1 DEF L
  <2> QED BY <2>1, <2>2 DEF x
<1>10. p \in Pairs /\ p.key = e.key /\ p.val = e.val
  BY DEF p, Entries, Pair, Pairs
<1>11. \A i \in 1 .. L : s[i].key # p.key => \E a \in 2 .. L : old[a] = i
  BY <1>8, <1>10
<1>12. Len(t) >= 1 /\ Len(t) <= n /\ (Len(s) = n => Len(t) = n)
  BY <1>1, <1>4 DEF L
<1>13. /\ old \in [2 .. Len(t) -> 1 .. Len(s)]
       /\ \A a \in 2 .. Len(t) : s[old[a]].key # p.key /\ t[a].key = s[old[a]].key /\ t[a].val = s[old[a]].val
       /\ \A a, b \in 2 .. Len(t) : a < b => old[a] < old[b]
       /\ \A i \in 1 .. Len(s) : s[i].key # p.key => \E a \in 2 .. Len(t) : old[a] = i
  BY <1>4, <1>6, <1>7, <1>9, <1>10, <1>11 DEF L
<1>14. t[1].key = p.key /\ t[1].val = p.val /\ t \in Seq(Entries)
  BY <1>3, <1>10
<1>15. Shows(t, n, <<p>> \o uses)
  <2> HIDE DEF t, L, rest
  <2> QED BY <1>10, <1>12, <1>13, <1>14, UseInFront, ZenonT(30)
<1> QED BY <1>3, <1>4, <1>15 DEF t, rest, p, L

\* A new entry comes in front, and the last one goes when the list is full.
LEMMA ShowsInserted ==
  ASSUME NEW uses \in Seq(Pairs), NEW n \in Nat \ {0}, NEW s \in Seq(Entries), Shows(s, n, uses),
         NEW e \in Entries, \A a \in 1 .. Len(s) : s[a].key # e.key,
         NEW t, t = IF Len(s) < n THEN <<e>> \o s ELSE Front(<<e>> \o s)
  PROVE  /\ t \in Seq(Entries) /\ Len(t) = IF Len(s) < n THEN Len(s) + 1 ELSE n
         /\ Shows(t, n, <<Pair(e)>> \o uses)
<1> DEFINE md == <<e>> \o s
           L == Len(s)
           p == Pair(e)
           old == [a \in 2 .. Len(t) |-> a - 1]
<1>1. L \in Nat /\ L <= n
  BY DEF Shows
<1>2. /\ md \in Seq(Entries) /\ Len(md) = L + 1 /\ md[1] = e
      /\ \A i \in 1 .. L : md[i + 1] = s[i]
  BY ConsFacts
<1>3. t = IF L < n THEN md ELSE Front(md)
  OBVIOUS
<1> HIDE DEF md
<1>4. Front(md) \in Seq(Entries) /\ Len(Front(md)) = L /\ \A i \in 1 .. L : Front(md)[i] = md[i]
  <2>1. Len(md) > 0 /\ Len(md) - 1 = L
    BY <1>1, <1>2
  <2> QED BY <1>2, <2>1, FrontFacts
<1> HIDE DEF L
<1>5. /\ t \in Seq(Entries) /\ Len(t) = (IF L < n THEN L + 1 ELSE n) /\ t[1] = e
      /\ Len(t) >= 1 /\ Len(t) <= n /\ Len(t) <= L + 1
      /\ \A i \in 2 .. Len(t) : t[i] = md[i]
  <2>1. CASE L < n
    <3>1. L + 1 >= 1 /\ L + 1 <= n /\ L + 1 <= L + 1
      BY <1>1, <2>1
    <3>2. t = md
      BY <1>3, <2>1
    <3>3. Len(t) = L + 1 /\ t \in Seq(Entries) /\ t[1] = e /\ \A i \in 2 .. Len(t) : t[i] = md[i]
      BY <1>2, <3>2, Zenon
    <3> QED BY <2>1, <3>1, <3>3
  <2>2. CASE ~(L < n)
    <3>1. L = n /\ 1 \in 1 .. L /\ n >= 1 /\ n <= n /\ n <= L + 1 /\ \A i \in 2 .. L : i \in 1 .. L
      BY <1>1, <2>2
    <3>2. t = Front(md)
      BY <1>3, <2>2
    <3>3. /\ t \in Seq(Entries) /\ Len(t) = L
          /\ \A i \in 1 .. L : t[i] = md[i]
      BY <1>4, <3>2, Zenon
    <3>4. Len(t) = n /\ t[1] = e
      BY <1>2, <3>1, <3>3
    <3>5. \A i \in 2 .. Len(t) : t[i] = md[i]
      BY <3>1, <3>3
    <3> QED BY <2>2, <3>1, <3>3, <3>4, <3>5
  <2> QED BY <2>1, <2>2
<1>6. ASSUME NEW a \in 2 .. Len(t) PROVE a - 1 \in 1 .. L /\ t[a] = s[a - 1]
  <2>0. Len(t) \in Nat /\ Len(t) <= L + 1 /\ a \in Nat
    BY <1>5
  <2>1. a - 1 \in 1 .. L /\ (a - 1) + 1 = a
    BY <1>1, <2>0
  <2>2. md[a] = s[a - 1]
    BY <1>2, <2>1
  <2> QED BY <1>5, <2>1, <2>2
<1>7. old \in [2 .. Len(t) -> 1 .. Len(s)]
  BY <1>6 DEF L
<1>8. \A a, b \in 2 .. Len(t) : a < b => old[a] < old[b]
  BY <1>1, <1>5
<1>9. ASSUME NEW i \in 1 .. Len(s)
      PROVE  \/ \E a \in 2 .. Len(t) : old[a] = i
             \/ Len(t) = n /\ \A a \in 2 .. Len(t) : old[a] < i
  <2>1. CASE i + 1 \in 2 .. Len(t)
    <3>1. old[i + 1] = i
      BY <1>1, <2>1 DEF L
    <3> QED BY <2>1, <3>1
  <2>2. CASE ~(i + 1 \in 2 .. Len(t))
    <3>1. i \in Nat /\ i <= L /\ i >= 1
      BY <1>1 DEF L
    <3>2. Len(t) = n /\ Len(t) < i + 1
      BY <1>1, <1>5, <2>2, <3>1
    <3>3. \A a \in 2 .. Len(t) : a - 1 < i
      BY <1>1, <1>5, <3>1, <3>2
    <3> QED BY <3>2, <3>3
  <2> QED BY <2>1, <2>2
<1>10. p \in Pairs /\ p.key = e.key /\ p.val = e.val
  BY DEF Entries, Pair, Pairs
<1> HIDE DEF p
<1>11. ASSUME NEW a \in 2 .. Len(t)
       PROVE  s[old[a]].key # p.key /\ t[a].key = s[old[a]].key /\ t[a].val = s[old[a]].val
  <2>1. old[a] = a - 1 /\ a - 1 \in 1 .. Len(s) /\ t[a] = s[a - 1]
    BY <1>6 DEF L
  <2> HIDE DEF old
  <2> QED BY <1>10, <2>1
<1> HIDE DEF old
<1>12. Len(s) = n => Len(t) = n
  BY <1>5 DEF L
<1>13. Shows(t, n, <<p>> \o uses)
  <2> HIDE DEF L
  <2>1. t \in Seq(Entries) /\ Len(t) >= 1 /\ Len(t) <= n /\ t[1].key = p.key /\ t[1].val = p.val
    BY <1>5, <1>10
  <2> QED BY <2>1, <1>7, <1>8, <1>9, <1>10, <1>11, <1>12, UseInFront
<1> QED BY <1>5, <1>13 DEF p, L

\* A method that puts an entry in front makes a cache that shows the uses up to
\* now into one that shows this use too, and leaves its limit as it is.
LEMMA CacheUse ==
  ASSUME NEW c, Sound(c), IndexIsComplete(c), NEW uses \in Seq(Pairs),
         Shows(c.data, Limit(c), uses), NEW e \in Entries
  PROVE  LET t == IF Found(c, e.key) THEN <<e>> \o RemoveAt(c.data, Place(c, c.hash[e.key]))
                  ELSE IF Len(c.data) < c.capacity THEN <<e>> \o c.data
                  ELSE Front(<<e>> \o c.data)
         IN  /\ Shows(t, Limit(c), <<Pair(e)>> \o uses)
             /\ Limit(c) = IF c.capacity < Len(t) THEN Len(t) ELSE c.capacity
<1> DEFINE s == c.data
           q == Place(c, c.hash[e.key])
           cap == c.capacity
           n == Limit(c)
<1>1. /\ s \in Seq(Entries) /\ Len(s) \in Nat /\ DOMAIN s = 1 .. Len(s)
      /\ cap \in Nat /\ cap >= 1
  BY DEF Sound, CacheType
<1>2. n = (IF cap < Len(s) THEN Len(s) ELSE cap)
  BY DEF Limit
<1>3. e.key \in Keys
  BY DEF Entries
<1>4. Found(c, e.key) => q \in 1 .. Len(s) /\ s[q].key = e.key
  BY <1>3, PlaceFacts
<1>5. ASSUME ~Found(c, e.key), NEW i \in 1 .. Len(s) PROVE s[i].key # e.key
  <2>1. s[i] \in Entries /\ c.hash[s[i].key] = s[i].node
    BY <1>1 DEF IndexIsComplete
  <2> QED BY <1>5, <2>1 DEF Found, Entries
<1>6. \A a, b \in 1 .. Len(s) : s[a].key = s[b].key => a = b
  BY KeysOnce
<1>7. Shows(s, n, uses)
  OBVIOUS
<1> HIDE DEF s, q, cap, n
<1>8. /\ n \in Nat /\ cap <= n /\ (Len(s) < n <=> Len(s) < cap) /\ (~(Len(s) < cap) => n = Len(s))
      /\ n = (IF cap < n THEN n ELSE cap) /\ n \in Nat \ {0}
      /\ Len(s) < n => n = IF cap < Len(s) + 1 THEN Len(s) + 1 ELSE cap
  <2> DEFINE l == Len(s)
  <2>1. l \in Nat /\ cap \in Nat /\ cap >= 1 /\ n = (IF cap < l THEN l ELSE cap)
    BY <1>1, <1>2
  <2> HIDE DEF l
  <2>2. /\ n \in Nat /\ cap <= n /\ (l < n <=> l < cap) /\ (~(l < cap) => n = l)
        /\ n = (IF cap < n THEN n ELSE cap) /\ n \in Nat \ {0}
        /\ l < n => n = IF cap < l + 1 THEN l + 1 ELSE cap
    BY <2>1
  <2> QED BY <2>2 DEF l
<1>9. n \in Nat \ {0}
  BY <1>8
<1>10. CASE Found(c, e.key)
  <2> DEFINE t == <<e>> \o RemoveAt(s, q)
  <2>1. Len(t) = Len(s) /\ Shows(t, n, <<Pair(e)>> \o uses)
    BY <1>1, <1>4, <1>6, <1>7, <1>8, <1>10, ShowsMoved, ZenonT(30)
  <2> QED BY <1>2, <1>10, <2>1 DEF s, q, cap, n
<1>11. CASE ~Found(c, e.key)
  <2> DEFINE t == IF Len(s) < n THEN <<e>> \o s ELSE Front(<<e>> \o s)
             u == IF Len(s) < cap THEN <<e>> \o s ELSE Front(<<e>> \o s)
  <2>1. Len(t) = (IF Len(s) < n THEN Len(s) + 1 ELSE n) /\ Shows(t, n, <<Pair(e)>> \o uses)
    BY <1>1, <1>5, <1>7, <1>9, <1>11, ShowsInserted
  <2>2. t = u
    BY <1>8
  <2> HIDE DEF t
  <2>3. n = IF cap < Len(t) THEN Len(t) ELSE cap
    BY <1>1, <1>8, <2>1
  <2>4. Shows(u, n, <<Pair(e)>> \o uses) /\ n = IF cap < Len(u) THEN Len(u) ELSE cap
    BY <2>1, <2>2, <2>3
  <2> QED BY <1>11, <2>4 DEF s, cap, n
<1> QED BY <1>10, <1>11

\* A list of uses with some left out that are hidden in any case.
LEMMA ShowsLess ==
  ASSUME NEW all \in Seq(Pairs), NEW less \in Seq(Pairs), NEW n \in Nat,
         NEW s, Shows(s, n, all),
         NEW g \in [Firsts(less) -> Firsts(all)],
         \A i, j \in Firsts(less) : g[i] < g[j] => i < j,
         \A i \in Firsts(less) : all[g[i]] = less[i],
         \A j \in Firsts(all) : \E i \in Firsts(less) : g[i] = j
  PROVE  Shows(s, n, less)
<1> DEFINE F == Firsts(all)
           G == Firsts(less)
           L == Len(s)
<1>1. /\ L <= n
      /\ \A a \in 1 .. L : \E i \in F : s[a].key = all[i].key /\ s[a].val = all[i].val
      /\ \A a, b \in 1 .. L, i, j \in F :
           a < b /\ s[a].key = all[i].key /\ s[b].key = all[j].key => i < j
      /\ \A j \in F :
           \/ \E a \in 1 .. L : s[a].key = all[j].key
           \/ L = n /\ \A a \in 1 .. L, i \in F : s[a].key = all[i].key => i < j
  BY DEF Shows
<1>2. /\ \A i \in G : g[i] \in F /\ all[g[i]] = less[i]
      /\ \A j \in F : \E i \in G : g[i] = j
      /\ \A i, j \in G : g[i] < g[j] => i < j
  OBVIOUS
<1> HIDE DEF F, G, L
<1>3. \A a \in 1 .. L : \E i \in G : s[a].key = less[i].key /\ s[a].val = less[i].val
  BY <1>1, <1>2
<1>4. \A a, b \in 1 .. L, i, j \in G :
        a < b /\ s[a].key = less[i].key /\ s[b].key = less[j].key => i < j
  BY <1>1, <1>2
<1>5. ASSUME NEW j \in G
      PROVE  \/ \E a \in 1 .. L : s[a].key = less[j].key
             \/ L = n /\ \A a \in 1 .. L, i \in G : s[a].key = less[i].key => i < j
  <2>1. g[j] \in F /\ all[g[j]] = less[j]
    BY <1>2
  <2>2. CASE \E a \in 1 .. L : s[a].key = all[g[j]].key
    BY <2>1, <2>2
  <2>3. CASE L = n /\ \A a \in 1 .. L, i \in F : s[a].key = all[i].key => i < g[j]
    BY <1>2, <2>3
  <2> QED BY <1>1, <2>1, <2>2, <2>3
<1> QED BY <1>1, <1>3, <1>4, <1>5 DEF Shows, F, G, L

LEMMA ConcatPairs ==
  \A v, w \in Seq(Pairs) :
    /\ v \o w \in Seq(Pairs) /\ Len(v \o w) = Len(v) + Len(w)
    /\ \A i \in 1 .. Len(v) + Len(w) : (v \o w)[i] = IF i <= Len(v) THEN v[i] ELSE w[i - Len(v)]
BY ConcatProperties

\* The uses of which every key is used again later may be left out.
LEMMA DropHidden ==
  ASSUME NEW P \in Seq(Pairs), NEW Q \in Seq(Pairs), NEW R \in Seq(Pairs), NEW n \in Nat, NEW s,
         \A q \in 1 .. Len(Q) : \E p \in 1 .. Len(P) : P[p].key = Q[q].key,
         Shows(s, n, P \o (Q \o R))
  PROVE  Shows(s, n, P \o R)
<1> DEFINE all == P \o (Q \o R)
           less == P \o R
           p == Len(P)
           q == Len(Q)
           r == Len(R)
           up(i) == IF i <= p THEN i ELSE i + q
           g == [i \in Firsts(less) |-> up(i)]
<1>1. /\ p \in Nat /\ q \in Nat /\ r \in Nat
      /\ Q \o R \in Seq(Pairs) /\ Len(Q \o R) = q + r
      /\ \A i \in 1 .. q + r : (Q \o R)[i] = IF i <= q THEN Q[i] ELSE R[i - q]
  BY ConcatProperties
<1>2. /\ less \in Seq(Pairs) /\ Len(less) = p + r
      /\ \A i \in 1 .. p + r : less[i] = IF i <= p THEN P[i] ELSE R[i - p]
  BY ConcatProperties
<1>3. /\ all \in Seq(Pairs) /\ Len(all) = p + (q + r)
      /\ \A i \in 1 .. p + (q + r) : all[i] = IF i <= p THEN P[i] ELSE (Q \o R)[i - p]
  <2> DEFINE W == Q \o R
  <2>1. W \in Seq(Pairs) /\ Len(W) = q + r
    BY <1>1
  <2> HIDE DEF W
  <2>2. /\ P \o W \in Seq(Pairs) /\ Len(P \o W) = p + (q + r)
        /\ \A i \in 1 .. p + (q + r) : (P \o W)[i] = IF i <= p THEN P[i] ELSE W[i - p]
    <3>1. /\ P \o W \in Seq(Pairs) /\ Len(P \o W) = Len(P) + Len(W)
          /\ \A i \in 1 .. Len(P) + Len(W) : (P \o W)[i] = IF i <= Len(P) THEN P[i] ELSE W[i - Len(P)]
      BY <2>1, ConcatPairs
    <3> QED BY <2>1, <3>1
  <2> QED BY <2>2 DEF W
<1>a. /\ DOMAIN all = 1 .. p + (q + r) /\ DOMAIN less = 1 .. p + r /\ s = s
  <2> HIDE DEF all, less
  <2> QED BY <1>2, <1>3
<1>b. /\ \A x \in 1 .. q : \E y \in 1 .. p : P[y].key = Q[x].key
  OBVIOUS
<1>c. Shows(s, n, all)
  OBVIOUS
<1> HIDE DEF all, less, p, q, r
<1>4. \A i \in 1 .. p : i \in 1 .. p + r /\ less[i] = P[i] /\ i \in 1 .. p + (q + r) /\ all[i] = P[i]
  BY <1>1, <1>2, <1>3
<1>5. ASSUME NEW i \in p + 1 .. p + r
      PROVE  i + q \in 1 .. p + (q + r) /\ i \in 1 .. p + r /\ less[i] = R[i - p] /\ all[i + q] = less[i]
  <2>1. /\ i + q \in 1 .. p + (q + r) /\ ~(i + q <= p) /\ (i + q) - p \in 1 .. q + r
        /\ ~((i + q) - p <= q) /\ ((i + q) - p) - q = i - p /\ i \in 1 .. p + r /\ ~(i <= p)
    BY <1>1
  <2>2. less[i] = R[i - p] /\ all[i + q] = (Q \o R)[(i + q) - p]
    BY <1>2, <1>3, <2>1
  <2>3. (Q \o R)[(i + q) - p] = R[i - p]
    BY <1>1, <2>1
  <2> QED BY <2>1, <2>2, <2>3
<1>6. ASSUME NEW i \in p + 1 .. p + q
      PROVE  i \in 1 .. p + (q + r) /\ \E y \in 1 .. p : all[y].key = all[i].key
  <2>1. i \in 1 .. p + (q + r) /\ ~(i <= p) /\ i - p \in 1 .. q + r /\ i - p <= q /\ i - p \in 1 .. q
    BY <1>1
  <2>2. all[i] = (Q \o R)[i - p]
    BY <1>3, <2>1
  <2>3. (Q \o R)[i - p] = Q[i - p]
    BY <1>1, <2>1
  <2>4. PICK y \in 1 .. p : P[y].key = Q[i - p].key
    BY <1>b, <2>1
  <2> QED BY <1>4, <2>1, <2>2, <2>3, <2>4
<1>7. ASSUME NEW i \in Firsts(less) PROVE up(i) \in Firsts(all) /\ all[up(i)] = less[i]
  <2>1. i \in 1 .. p + r /\ \A j \in 1 .. i - 1 : less[j].key # less[i].key
    BY <1>a DEF Firsts
  <2>2. CASE i <= p
    <3>1. \A j \in 1 .. i : j \in 1 .. p
      BY <1>1, <2>1, <2>2
    <3>2. i \in 1 .. p /\ \A j \in 1 .. i - 1 : j \in 1 .. i
      BY <1>1, <2>1, <2>2
    <3>3. i \in 1 .. p + (q + r) /\ all[i] = less[i] /\ \A j \in 1 .. i - 1 : all[j].key # all[i].key
      BY <1>4, <2>1, <3>1, <3>2
    <3> QED BY <1>a, <2>2, <3>3 DEF Firsts
  <2>3. CASE ~(i <= p)
    <3>1. i \in p + 1 .. p + r
      BY <1>1, <2>1, <2>3
    <3>2. i + q \in 1 .. p + (q + r) /\ all[i + q] = less[i]
      BY <1>5, <3>1
    <3>3. ASSUME NEW j \in 1 .. (i + q) - 1 PROVE all[j].key # all[i + q].key
      <4>1. \A y \in 1 .. p : all[y].key # less[i].key
        <5> TAKE y \in 1 .. p
        <5>1. y \in 1 .. i - 1
          BY <1>1, <3>1
        <5> QED BY <1>4, <2>1, <5>1
      <4>2. CASE j <= p
        <5>1. j \in 1 .. p
          BY <1>1, <4>2
        <5> QED BY <3>2, <4>1, <5>1
      <4>3. CASE j > p /\ j <= p + q
        <5>1. j \in p + 1 .. p + q
          BY <1>1, <4>3
        <5> QED BY <1>6, <3>2, <4>1, <5>1
      <4>4. CASE j > p + q
        <5>1. j - q \in p + 1 .. p + r /\ (j - q) + q = j /\ j - q \in 1 .. i - 1
          BY <1>1, <3>1, <4>4
        <5>2. all[j] = less[j - q]
          BY <1>5, <5>1
        <5> QED BY <2>1, <3>2, <5>1, <5>2
      <4>5. j \in Nat
        OBVIOUS
      <4> QED BY <1>1, <4>2, <4>3, <4>4, <4>5
    <3> QED BY <1>a, <2>3, <3>2, <3>3 DEF Firsts
  <2> QED BY <2>2, <2>3
<1>8. ASSUME NEW j \in Firsts(all) PROVE \E i \in Firsts(less) : up(i) = j
  <2>1. j \in 1 .. p + (q + r) /\ \A i \in 1 .. j - 1 : all[i].key # all[j].key
    BY <1>a DEF Firsts
  <2>2. CASE j <= p
    <3>1. \A i \in 1 .. j : i \in 1 .. p
      BY <1>1, <2>1, <2>2
    <3>2. j \in 1 .. p /\ \A i \in 1 .. j - 1 : i \in 1 .. j
      BY <1>1, <2>1, <2>2
    <3>3. j \in 1 .. p + r /\ all[j] = less[j] /\ \A i \in 1 .. j - 1 : less[i].key # less[j].key
      BY <1>4, <2>1, <3>1, <3>2
    <3>4. j \in Firsts(less)
      BY <1>a, <3>3 DEF Firsts
    <3> QED BY <2>2, <3>4
  <2>3. CASE j > p /\ j <= p + q
    <3>1. j \in p + 1 .. p + q /\ \A y \in 1 .. p : y \in 1 .. j - 1
      BY <1>1, <2>1, <2>3
    <3> QED BY <1>6, <2>1, <3>1
  <2>4. CASE j > p + q
    <3> DEFINE i == j - q
    <3>1. i \in p + 1 .. p + r /\ i + q = j /\ i \in 1 .. p + r /\ ~(i <= p)
      BY <1>1, <2>1, <2>4
    <3> HIDE DEF i
    <3>2. all[j] = less[i]
      BY <1>5, <3>1
    <3>3. ASSUME NEW x \in 1 .. i - 1 PROVE less[x].key # less[i].key
      <4>1. CASE x <= p
        <5>1. x \in 1 .. p /\ x \in 1 .. j - 1
          BY <1>1, <2>1, <2>4, <4>1
        <5> QED BY <1>4, <2>1, <3>2, <5>1
      <4>2. CASE ~(x <= p)
        <5>1. x \in p + 1 .. p + r /\ x + q \in 1 .. j - 1
          BY <1>1, <3>1, <4>2
        <5>2. all[x + q] = less[x]
          BY <1>5, <5>1
        <5>3. all[x + q].key # all[j].key
          BY <2>1, <5>1
        <5> QED BY <3>2, <5>2, <5>3
      <4> QED BY <4>1, <4>2
    <3>4. i \in Firsts(less)
      BY <1>a, <3>1, <3>3 DEF Firsts
    <3> QED BY <3>1, <3>4
  <2>5. j <= p \/ (j > p /\ j <= p + q) \/ j > p + q
    BY <1>1, <2>1
  <2> QED BY <2>2, <2>3, <2>4, <2>5
<1>9. g \in [Firsts(less) -> Firsts(all)] /\ \A i \in Firsts(less) : all[g[i]] = less[i]
  BY <1>7
<1>10. \A i, j \in Firsts(less) : g[i] < g[j] => i < j
  <2>1. \A i \in Firsts(less) : i \in Nat
    BY <1>1, <1>a DEF Firsts
  <2> QED BY <1>1, <2>1
<1>11. \A j \in Firsts(all) : \E i \in Firsts(less) : g[i] = j
  BY <1>8
<1> HIDE DEF g
<1>12. Shows(s, n, less)
  BY <1>2, <1>3, <1>9, <1>10, <1>11, <1>c, ShowsLess
<1> QED BY <1>12 DEF less

\* A list of uses of different keys, written down as a list of entries.
LEMMA ShowsItself ==
  ASSUME NEW uses \in Seq(Pairs), NEW n \in Nat, Len(uses) <= n,
         \A i, j \in 1 .. Len(uses) : uses[i].key = uses[j].key => i = j,
         NEW s, Len(s) = Len(uses),
         \A i \in 1 .. Len(uses) : s[i].key = uses[i].key /\ s[i].val = uses[i].val
  PROVE  Shows(s, n, uses)
<1> DEFINE L == Len(uses)
<1>1. L \in Nat /\ DOMAIN uses = 1 .. L
  OBVIOUS
<1>2. Firsts(uses) = 1 .. L
  <2>1. \A i \in 1 .. L : \A j \in 1 .. i - 1 : j \in 1 .. L /\ j # i
    <3> HIDE DEF L
    <3> QED BY <1>1
  <2> QED BY <1>1, <2>1 DEF Firsts
<1>3. \A a, i \in 1 .. L : s[a].key = uses[i].key => a = i
  OBVIOUS
<1> QED BY <1>1, <1>2, <1>3 DEF Shows

LEMMA PutShows ==
  ASSUME NEW c, Sound(c), IndexIsComplete(c), NEW k \in Keys, NEW v \in Vals, NEW u \in BOOLEAN,
         NEW uses \in Seq(Pairs), Shows(c.data, Limit(c), uses)
  PROVE  LET d == put(c, k, v, u) IN
           /\ IndexIsComplete(d) /\ d.capacity = c.capacity /\ Limit(d) = Limit(c)
           /\ Shows(d.data, Limit(c), <<[key |-> k, val |-> v]>> \o uses)
<1> DEFINE d == put(c, k, v, u)
<1>1. IndexIsComplete(d) /\ d.capacity = c.capacity
  BY PutFacts
<1>2. PICK e \in Entries :
        /\ e.key = k /\ e.val = v
        /\ d.data = IF Found(c, k) THEN <<e>> \o RemoveAt(c.data, Place(c, c.hash[k]))
                    ELSE IF Len(c.data) < c.capacity THEN <<e>> \o c.data
                    ELSE Front(<<e>> \o c.data)
  BY PutFacts
<1>3. Pair(e) = [key |-> k, val |-> v]
  BY <1>2 DEF Pair
<1> HIDE DEF d
<1>4. /\ Shows(d.data, Limit(c), <<Pair(e)>> \o uses)
      /\ Limit(c) = IF c.capacity < Len(d.data) THEN Len(d.data) ELSE c.capacity
  <2> DEFINE t == IF Found(c, e.key) THEN <<e>> \o RemoveAt(c.data, Place(c, c.hash[e.key]))
                  ELSE IF Len(c.data) < c.capacity THEN <<e>> \o c.data
                  ELSE Front(<<e>> \o c.data)
  <2>1. Shows(t, Limit(c), <<Pair(e)>> \o uses) /\ Limit(c) = IF c.capacity < Len(t) THEN Len(t) ELSE c.capacity
    BY CacheUse
  <2>2. d.data = t
    BY <1>2
  <2> HIDE DEF t
  <2> QED BY <2>1, <2>2
<1>5. Limit(d) = Limit(c)
  BY <1>1, <1>4 DEF Limit
<1> QED BY <1>1, <1>3, <1>4, <1>5 DEF d

LEMMA GetShows ==
  ASSUME NEW c, Sound(c), IndexIsComplete(c), NEW k \in Keys, Found(c, k),
         NEW uses \in Seq(Pairs), Shows(c.data, Limit(c), uses)
  PROVE  LET d == get(c, k) IN
           /\ IndexIsComplete(d) /\ d.capacity = c.capacity /\ Limit(d) = Limit(c)
           /\ \E p \in Pairs : /\ d.pending = <<p>> \o c.pending
                               /\ Shows(d.data, Limit(c), <<p>> \o uses)
<1> DEFINE d == get(c, k)
           q == Place(c, c.hash[k])
<1>1. IndexIsComplete(d) /\ d.capacity = c.capacity
  BY GetFacts
<1>2. PICK e \in Entries : e.key = k /\ e.val = c.data[q].val /\ d.data = <<e>> \o RemoveAt(c.data, q)
  BY GetFacts
<1>3. d.pending = <<Pair(e)>> \o c.pending
  <2>1. d.pending = <<[key |-> k, val |-> c.data[q].val]>> \o c.pending
    BY GetPending
  <2>2. Pair(e) = [key |-> k, val |-> c.data[q].val]
    BY <1>2 DEF Pair
  <2> QED BY <2>1, <2>2
<1> HIDE DEF d
<1>4. /\ Shows(d.data, Limit(c), <<Pair(e)>> \o uses)
      /\ Limit(c) = IF c.capacity < Len(d.data) THEN Len(d.data) ELSE c.capacity
  <2> DEFINE t == IF Found(c, e.key) THEN <<e>> \o RemoveAt(c.data, Place(c, c.hash[e.key]))
                  ELSE IF Len(c.data) < c.capacity THEN <<e>> \o c.data
                  ELSE Front(<<e>> \o c.data)
  <2>1. Shows(t, Limit(c), <<Pair(e)>> \o uses) /\ Limit(c) = IF c.capacity < Len(t) THEN Len(t) ELSE c.capacity
    BY CacheUse
  <2>2. d.data = t
    BY <1>2
  <2> HIDE DEF t
  <2> QED BY <2>1, <2>2
<1>5. Limit(d) = Limit(c)
  BY <1>1, <1>4 DEF Limit
<1>6. Pair(e) \in Pairs
  BY DEF Pair, Pairs, Entries
<1> QED BY <1>1, <1>3, <1>4, <1>5, <1>6 DEF d

-----------------------------------------------------------------------------
\* Cache i, whose own list of uses is in order when the backup is at the end.
Current(i, uses) ==
  /\ Limit(view[i]) = Kept
  /\ Shows(view[i].data, Kept, uses \o file)

\* A use of the key is in some cache's pending list.
Used(k) == \E i \in Threads : \E m \in 1 .. Len(view[i].pending) : view[i].pending[m].key = k

\* Cache i has yet to be updated: before the uses, it shows some of those that
\* the update is going to make known, and the backup.
Behind(i, uses) ==
  /\ Limit(view[i]) = Kept
  /\ \E own \in Seq(Pairs) :
       /\ \A m \in 1 .. Len(own) : Used(own[m].key)
       /\ Shows(view[i].data, Kept, uses \o (own \o file))

\* The newest uses but for all those the update has yet to apply.
Applied(pending, n) == SubSeq(pending, Len(pending) - n + 1, Len(pending))

SameData == \A i \in Threads : PairsOf(view[i].data) = PairsOf(Basis.data)

BuiltInv ==
  stage # "down" => \A i \in Threads : IndexIsComplete(view[i]) /\ view[i].capacity = Size

IdleInv == stage = "idle" => \A i \in Threads : Current(i, view[i].pending)

MergeInv ==
  stage = "merge" =>
    \A i \in Threads : Behind(i, <<>>) /\ (i \in 1 .. at - 1 => view[i].pending = <<>>)

UpdateInv ==
  stage = "update" =>
    /\ pos <= Len(Basis.pending)
    /\ \A i \in Threads :
         /\ i # 0 => view[i].pending = <<>>
         /\ i < at => Current(i, Basis.pending)
         /\ i = at => Behind(i, Applied(Basis.pending, pos))
         /\ i > at => Behind(i, <<>>)

ClearInv ==
  stage = "clear" =>
    /\ SameData
    /\ at = 0 => \A i \in Threads : Current(i, Basis.pending)
    /\ \A i \in Threads : i # 0 \/ i < at => view[i].pending = <<>>

WriteInv ==
  stage = "write" =>
    /\ SameData
    /\ \A i \in Threads : view[i].pending = <<>>
    /\ Len(file) <= Len(Basis.data)
    /\ \A i \in 1 .. Len(file) : file[i] = Pair(Basis.data[i])
    /\ pos = IF Len(file) = Len(Basis.data) THEN NoNode ELSE Basis.data[Len(file) + 1].node

SyncInv == ~disturbed => BuiltInv /\ IdleInv /\ MergeInv /\ UpdateInv /\ ClearInv /\ WriteInv

-----------------------------------------------------------------------------
LEMMA SyncInit == Init => SyncInv
BY DEF Init, SyncInv, BuiltInv, IdleInv, MergeInv, UpdateInv, ClearInv, WriteInv

LEMMA SyncCrash == Crash => SyncInv'
BY DEF Crash, SyncInv, BuiltInv, IdleInv, MergeInv, UpdateInv, ClearInv, WriteInv

\* A start from a backup that has no key twice.
LEMMA SyncStart ==
  ASSUME NEW n \in Sizes, ManagerInv, ManagerInv', Start(n)
  PROVE  SyncInv'
<1> SUFFICES ASSUME ~disturbed' PROVE SyncInv'
  BY DEF SyncInv
<1>1. /\ caches' = initCache(n) /\ stage' = "idle" /\ file' = file
      /\ calls' = [t \in (0 .. n - 1) \union {Timer} |-> NoCall]
      /\ disturbed' = \E i, j \in DOMAIN file : i # j /\ file[i].key = file[j].key
  BY DEF Start
<1>2. n \in Nat \ {0} /\ file \in Seq(Pairs)
  BY CacheManagerAssumption, ManagerFacts
<1>3. Threads' = 0 .. n - 1 /\ \A i \in 0 .. n - 1 : view'[i] = readFromFile(NewCache(n), file)
  <2>1. Threads' = 0 .. n - 1 /\ \A i \in 0 .. n - 1 : caches'[i] = readFromFile(NewCache(n), file)
    BY <1>1 DEF Threads, initCache
  <2>2. \A t \in Callers' : calls'[t] = NoCall
    BY <1>1, <2>1 DEF Callers
  <2>3. (\A t \in Callers : ~Inside(t))'
    BY <2>2, NoCallFacts DEF Inside
  <2>4. (ManagerInv /\ (\A t \in Callers : ~Inside(t)) => view = caches)'
    BY Bare, PTL
  <2>5. view' = caches'
    BY <2>3, <2>4
  <2> QED BY <2>1, <2>5
<1>4. Size' = n
  <2>1. Cardinality(0 .. n - 1) = IF 0 > n - 1 THEN 0 ELSE n - 1 - 0 + 1
    BY <1>2, FS_Interval
  <2> QED BY <1>2, <1>3, <2>1 DEF Size
<1> DEFINE c == readFromFile(NewCache(n), file)
<1>5. \A i, j \in 1 .. Len(file) : file[i].key = file[j].key => i = j
  <2>1. DOMAIN file = 1 .. Len(file)
    BY <1>2
  <2> QED BY <1>1, <2>1
<1>6. /\ c.capacity = n /\ c.pending = <<>> /\ IndexIsComplete(c) /\ Len(c.data) = Len(file)
      /\ \A i \in 1 .. Len(file) : c.data[i].key = file[i].key /\ c.data[i].val = file[i].val
  BY <1>2, <1>5, ReadFacts
<1> HIDE DEF c
<1>7. Kept' = Limit(c) /\ Kept' \in Nat /\ Len(file) <= Kept'
  BY <1>1, <1>2, <1>4, <1>6 DEF Kept, Limit
<1>8. Shows(c.data, Kept', file)
  BY <1>2, <1>5, <1>6, <1>7, ShowsItself
<1>9. <<>> \o file = file
  BY <1>2, ConcatEmptySeq
<1>a. \A i \in Threads' : view'[i] = c
  BY <1>3 DEF c
<1>10. \A i \in Threads' : /\ view'[i] = c
                           /\ Limit(view'[i]) = Kept' /\ Shows(view'[i].data, Kept', view'[i].pending \o file')
  <2> TAKE i \in Threads'
  <2>1. view'[i] = c
    BY <1>a
  <2>2. Shows(c.data, Kept', c.pending \o file')
    BY <1>1, <1>6, <1>8, <1>9
  <2> QED BY <1>7, <2>1, <2>2
<1>11. BuiltInv'
  BY <1>4, <1>6, <1>10 DEF BuiltInv
<1>12. IdleInv'
  BY <1>10 DEF IdleInv, Current
<1> QED BY <1>1, <1>11, <1>12 DEF SyncInv, MergeInv, UpdateInv, ClearInv, WriteInv

LEMMA SizeKept ==
  ASSUME ManagerInv, NEW w \in Threads, NEW d, view' = [view EXCEPT ![w] = d], UNCHANGED file, Threads' = Threads
  PROVE  /\ Size' = Size /\ Kept' = Kept
         /\ \A i \in Threads : view'[i] = IF i = w THEN d ELSE view[i]
<1>1. view = [i \in Threads |-> view[i]]
  BY ManagerFacts
<1>2. \A i \in Threads : view'[i] = IF i = w THEN d ELSE view[i]
  BY <1>1
<1> QED BY <1>2 DEF Size, Kept

\* A worker's use between two updates.
LEMMA SyncOneUse ==
  ASSUME ManagerInv, SyncInv, ~disturbed, stage = "idle", Threads' = Threads,
         NEW w \in Threads, NEW d, NEW p \in Pairs,
         view' = [view EXCEPT ![w] = d], UNCHANGED <<file, stage, disturbed>>,
         IndexIsComplete(d), d.capacity = view[w].capacity, Limit(d) = Limit(view[w]),
         d.pending = <<p>> \o view[w].pending,
         Shows(d.data, Limit(view[w]), <<p>> \o (view[w].pending \o file))
  PROVE  SyncInv'
<1>1. /\ Threads' = Threads /\ Size' = Size /\ Kept' = Kept
      /\ \A i \in Threads : view'[i] = IF i = w THEN d ELSE view[i]
  BY SizeKept
<1>2. BuiltInv /\ IdleInv
  BY DEF SyncInv
<1>3. Limit(view[w]) = Kept /\ view[w].capacity = Size
  BY <1>2 DEF IdleInv, Current, BuiltInv
<1>4. <<p>> \o (view[w].pending \o file) = d.pending \o file
  <2>1. view[w].pending \in Seq(Pairs) /\ file \in Seq(Pairs) /\ <<p>> \in Seq(Pairs)
    BY ManagerFacts
  <2>2. \A a, b, c \in Seq(Pairs) : (a \o b) \o c = a \o (b \o c)
    BY ConcatAssociative
  <2>3. (<<p>> \o view[w].pending) \o file = <<p>> \o (view[w].pending \o file)
    BY <2>1, <2>2
  <2> QED BY <2>3
<1>5. Limit(d) = Kept /\ Shows(d.data, Kept, d.pending \o file)
  BY <1>3, <1>4
<1>6. BuiltInv'
  BY <1>1, <1>2, <1>3 DEF BuiltInv
<1>7. IdleInv'
  BY <1>1, <1>2, <1>5 DEF IdleInv, Current
<1> QED BY <1>6, <1>7 DEF SyncInv, MergeInv, UpdateInv, ClearInv, WriteInv

LEMMA SameCaches ==
  ASSUME SyncInv, Threads' = Threads, UNCHANGED <<view, file, stage, at, pos, disturbed>>
  PROVE  SyncInv'
BY DEF SyncInv, BuiltInv, IdleInv, MergeInv, UpdateInv, ClearInv, WriteInv, Current, Behind, Used,
       SameData, Size, Kept, Basis

\* Where a use begins, the one call under way in the worker's cache is its own.
LEMMA UseSeen ==
  ASSUME ManagerInv, ~disturbed, stage = "idle", NEW w \in Threads, ~Inside(w), NEW q, q.step # "none",
         calls' = [calls EXCEPT ![w] = q], UNCHANGED <<caches, at>>
  PROVE  /\ view[w] = caches[w] /\ Threads' = Threads
         /\ view' = [view EXCEPT ![w] = Finish(caches[w], q)]
<1>1. Callers = Threads \union {Timer} /\ Timer \notin Threads /\ DOMAIN calls = Callers /\ calls[Timer].step = "none"
  BY SizeFacts, TimerRests DEF ManagerInv, CallsInv, Inside
<1>2. view[w] = caches[w]
  BY <1>1, ShownAtRest DEF view, Inside
<1>3. Threads' = Threads
  BY DEF Threads
<1>4. calls'[Timer] = calls[Timer] /\ \A i \in Threads : calls'[i] = IF i = w THEN q ELSE calls[i]
  BY <1>1
<1>5. ASSUME NEW i \in Threads, i # w
      PROVE  Shown(caches'[i], calls'[i], calls'[Timer], at' = i) = view[i]
  BY <1>4, <1>5 DEF view
<1>6. Shown(caches'[w], calls'[w], calls'[Timer], at' = w) = Finish(caches[w], q)
  <2>1. caches'[w] = caches[w] /\ calls'[w] = q /\ calls'[Timer].step = "none"
    BY <1>1, <1>4
  <2>2. \A here : Left(q, calls'[Timer], here) = q
    BY DEF Left
  <2>3. \A here : Shown(caches[w], q, calls'[Timer], here) = Finish(caches[w], q)
    BY <2>1, <2>2 DEF Shown
  <2> QED BY <2>1, <2>3
<1>7. view' = [i \in Threads |-> IF i = w THEN Finish(caches[w], q) ELSE view[i]]
  BY <1>3, <1>5, <1>6 DEF view
<1>8. view = [i \in Threads |-> view[i]]
  BY ManagerFacts
<1> QED BY <1>2, <1>3, <1>7, <1>8

LEMMA SyncWorker ==
  ASSUME ManagerInv, SyncInv, NEW w \in Threads, threadTask(w)
  PROVE  SyncInv'
<1> SUFFICES ASSUME ~disturbed' PROVE SyncInv'
  BY DEF SyncInv
<1>1. CASE NoAnswer(w)
  <2>1. UNCHANGED <<caches, calls, file, stage, at, pos, disturbed>>
    BY <1>1 DEF NoAnswer, timerVars, historyVars
  <2>2. Threads' = Threads /\ view' = view
    BY <2>1 DEF Threads, view
  <2> QED BY <2>1, <2>2, SameCaches
<1>2. ASSUME MayUse(w), NoteUse(w), UNCHANGED <<caches, file, timerVars>>
      PROVE  /\ ~disturbed /\ stage = "idle" /\ ~Inside(w)
             /\ UNCHANGED <<caches, file, stage, at, pos, disturbed>>
  BY <1>2 DEF MayUse, NoteUse, timerVars
<1>3. ASSUME ~disturbed, stage = "idle", view[w] = caches[w]
      PROVE  /\ Sound(view[w]) /\ view[w].pending \in Seq(Pairs) /\ view[w].pending \o file \in Seq(Pairs)
             /\ IndexIsComplete(view[w])
             /\ Shows(view[w].data, Limit(view[w]), view[w].pending \o file)
  <2>1. Sound(view[w]) /\ view[w].pending \in Seq(Pairs) /\ file \in Seq(Pairs)
    BY <1>3, ManagerFacts
  <2>2. /\ IndexIsComplete(view[w])
        /\ Shows(view[w].data, Limit(view[w]), view[w].pending \o file)
    BY <1>3 DEF SyncInv, BuiltInv, IdleInv, Current
  <2> QED BY <2>1, <2>2, ConcatPairs
<1>5. ASSUME NEW k \in Keys, LookUp(w, k) PROVE SyncInv'
  <2> DEFINE q == GetCall(caches[w], k)
  <2>1. /\ ~disturbed /\ stage = "idle" /\ ~Inside(w)
        /\ UNCHANGED <<caches, file, stage, at, pos, disturbed>>
        /\ calls' = [calls EXCEPT ![w] = q]
    BY <1>2, <1>5 DEF LookUp
  <2>2. CASE ~Found(caches[w], k)
    <3>1. q = NoCall
      BY <2>2 DEF GetCall
    <3>2. calls' = [calls EXCEPT ![w] = NoCall]
      BY <2>1, <3>1
    <3> HIDE DEF q
    <3>3. Callers = Threads \union {Timer} /\ Timer \notin Threads /\ DOMAIN calls = Callers
          /\ calls[Timer].step = "none"
      BY <2>1, SizeFacts, TimerRests DEF ManagerInv, CallsInv, Inside
    <3>4. calls'[Timer] = calls[Timer] /\ \A i \in Threads : calls'[i] = IF i = w THEN NoCall ELSE calls[i]
      BY <3>2, <3>3
    <3>5. Threads' = Threads
      BY <2>1 DEF Threads
    <3>6. ASSUME NEW i \in Threads
          PROVE  Shown(caches'[i], calls'[i], calls'[Timer], at' = i)
                   = Shown(caches[i], calls[i], calls[Timer], at = i)
      <4>1. CASE i # w
        BY <2>1, <3>4, <4>1
      <4>2. CASE i = w
        <5>1. calls[i].step = "none" /\ calls'[i].step = "none" /\ calls'[Timer].step = "none"
          BY <2>1, <3>3, <3>4, <4>2, NoCallFacts DEF Inside
        <5>2. caches'[i] = caches[i]
          BY <2>1
        <5>3. \A here : Shown(caches[i], calls[i], calls[Timer], here) = caches[i]
          BY <3>3, <5>1, ShownAtRest
        <5>4. \A here : Shown(caches'[i], calls'[i], calls'[Timer], here) = caches'[i]
          BY <5>1, ShownAtRest
        <5> QED BY <5>2, <5>3, <5>4
      <4> QED BY <4>1, <4>2
    <3>7. view' = view
      BY <3>5, <3>6 DEF view
    <3> QED BY <2>1, <3>5, <3>7, SameCaches
  <2>3. CASE Found(caches[w], k)
    <3>1. q.step # "none"
      BY <2>3 DEF GetCall, NoCall
    <3> HIDE DEF q
    <3>2. view[w] = caches[w] /\ Threads' = Threads /\ view' = [view EXCEPT ![w] = Finish(caches[w], q)]
      BY <2>1, <3>1, UseSeen
    <3>3. /\ Sound(view[w]) /\ view[w].pending \in Seq(Pairs) /\ view[w].pending \o file \in Seq(Pairs)
          /\ IndexIsComplete(view[w])
          /\ Shows(view[w].data, Limit(view[w]), view[w].pending \o file)
      BY <1>3, <2>1, <3>2
    <3> DEFINE d == get(view[w], k)
    <3>4. Finish(caches[w], q) = d
      BY <3>2, <3>3, GetEnds DEF q
    <3>5. /\ IndexIsComplete(d) /\ d.capacity = view[w].capacity /\ Limit(d) = Limit(view[w])
          /\ \E p \in Pairs :
               /\ d.pending = <<p>> \o view[w].pending
               /\ Shows(d.data, Limit(view[w]), <<p>> \o (view[w].pending \o file))
      BY <2>3, <3>2, <3>3, GetShows
    <3> HIDE DEF d
    <3>6. PICK p \in Pairs :
               /\ d.pending = <<p>> \o view[w].pending
               /\ Shows(d.data, Limit(view[w]), <<p>> \o (view[w].pending \o file))
      BY <3>5
    <3>7. view' = [view EXCEPT ![w] = d] /\ UNCHANGED <<file, stage, disturbed>>
      BY <2>1, <3>2, <3>4
    <3> QED BY <2>1, <3>2, <3>5, <3>6, <3>7, SyncOneUse
  <2> QED BY <2>2, <2>3
<1>6. ASSUME NEW v \in Vals, Store(w, v) PROVE SyncInv'
  <2> DEFINE k == missed[w]
             q == PutCall(caches[w], k, v, "put")
             p == [key |-> k, val |-> v]
             d == put(view[w], k, v, FALSE)
  <2>1. /\ ~disturbed /\ stage = "idle" /\ ~Inside(w)
        /\ UNCHANGED <<caches, file, stage, at, pos, disturbed>>
        /\ calls' = [calls EXCEPT ![w] = q] /\ k \in Keys
    <3>1. missed[w] \in Keys
      BY <1>6 DEF Store, ManagerInv, CachesInv
    <3> QED BY <1>2, <1>6, <3>1 DEF Store
  <2>2. p \in Pairs
    BY <2>1 DEF Pairs
  <2> HIDE DEF k
  <2>3. Finish(caches[w], q) = put(caches[w], k, v, FALSE) /\ q.step # "none"
    <3>1. CacheType(caches[w]) /\ "put" \in {"put", "update"} /\ ("put" = "update") = FALSE
      BY DEF ManagerInv, CachesInv
    <3>2. /\ Finish(caches[w], q) = put(caches[w], k, v, "put" = "update") /\ q.step \in {"erase", "push"}
      BY <2>1, <3>1, PutEnds
    <3> QED BY <3>1, <3>2
  <2> HIDE DEF q
  <2>4. view[w] = caches[w] /\ Threads' = Threads /\ view' = [view EXCEPT ![w] = Finish(caches[w], q)]
    BY <2>1, <2>3, UseSeen
  <2>5. /\ Sound(view[w]) /\ view[w].pending \in Seq(Pairs) /\ view[w].pending \o file \in Seq(Pairs)
        /\ IndexIsComplete(view[w])
        /\ Shows(view[w].data, Limit(view[w]), view[w].pending \o file)
    BY <1>3, <2>1, <2>4
  <2>6. /\ IndexIsComplete(d) /\ d.capacity = view[w].capacity /\ Limit(d) = Limit(view[w])
        /\ Shows(d.data, Limit(view[w]), <<p>> \o (view[w].pending \o file))
    BY <2>1, <2>5, PutShows
  <2>7. d.pending = <<p>> \o view[w].pending
    BY <2>1, <2>5, PutPending
  <2>8. view' = [view EXCEPT ![w] = d] /\ UNCHANGED <<file, stage, disturbed>>
    BY <2>1, <2>3, <2>4
  <2> HIDE DEF d, p
  <2> QED BY <2>1, <2>2, <2>4, <2>6, <2>7, <2>8, SyncOneUse
<1> QED BY <1>1, <1>5, <1>6 DEF threadTask

\* The rest of a call, and of the move of a use, changes nothing that shows.
LEMMA SyncCall ==
  ASSUME ManagerInv, SyncInv, NEW t \in Callers, CallStep(t)
  PROVE  SyncInv'
<1> DEFINE i == CacheOf(t)
<1>1. PICK d, q : Moves(caches[i], calls[t], d, q) /\ Proceed(t, d, q)
  BY CallMoves
<1>2. /\ caches' = [caches EXCEPT ![i] = d] /\ calls' = [calls EXCEPT ![t] = q]
      /\ UNCHANGED <<file, stage, at, pos, disturbed>>
  BY <1>1 DEF Proceed, timerVars, historyVars
<1> SUFFICES ASSUME ~disturbed PROVE SyncInv'
  BY <1>2 DEF SyncInv
<1>3. CachesInv /\ TimerInv /\ CallsInv /\ RacedInv
      /\ Timer \notin Threads /\ Timer \in Callers /\ Callers = Threads \union {Timer}
  BY SizeFacts DEF ManagerInv
<1>4. calls[t].step \notin {"none", "drop"} /\ Inside(t)
  BY <1>1, MovesSteps DEF Inside
<1>5. i \in Threads
  BY <1>3, <1>4 DEF CacheOf, CallsInv
<1> HIDE DEF i
<1>6. Threads' = Threads /\ \A j \in Threads : caches'[j] = IF j = i THEN d ELSE caches[j]
  BY <1>2, <1>5 DEF Threads
<1>7. \A x \in Callers : calls'[x] = IF x = t THEN q ELSE calls[x]
  BY <1>2, <1>3 DEF CallsInv
<1>8. \A j \in Threads : Fine(caches[j], calls[j], calls[Timer], at = j)
  BY <1>3 DEF RacedInv
<1>9. CacheType(caches[i]) /\ CallType(calls[t])
  BY <1>3, <1>5 DEF CachesInv, CallsInv
<1>10. CASE t # Timer
  <2>1. i = t /\ t \in Threads /\ calls'[Timer] = calls[Timer]
    BY <1>3, <1>7, <1>10 DEF CacheOf, i
  <2>2. calls[Timer].step = "none"
    <3>1. stage = "idle"
      BY <1>3, <1>4, <2>1 DEF RacedInv
    <3> QED BY <3>1, TimerRests DEF Inside
  <2>3. \A here : Fine(caches[i], calls[t], calls[Timer], here)
              => Shown(d, q, calls[Timer], here) = Shown(caches[i], calls[t], calls[Timer], here)
    BY <1>1, <1>9, <2>2, ShownUserMoves
  <2>4. ASSUME NEW j \in Threads
        PROVE  Shown(caches'[j], calls'[j], calls'[Timer], at' = j)
                 = Shown(caches[j], calls[j], calls[Timer], at = j)
    <3>1. CASE j # i
      BY <1>2, <1>3, <1>6, <1>7, <2>1, <3>1
    <3>2. CASE j = i
      <4>1. caches'[j] = d /\ calls'[j] = q /\ calls[j] = calls[t] /\ caches[j] = caches[i] /\ (at' = j) = (at = j)
        BY <1>2, <1>3, <1>6, <1>7, <2>1, <3>2
      <4>2. Fine(caches[i], calls[t], calls[Timer], at = j)
        BY <1>8, <4>1
      <4> QED BY <2>1, <2>3, <4>1, <4>2
    <3> QED BY <3>1, <3>2
  <2>5. view' = view
    BY <1>6, <2>4 DEF view
  <2> QED BY <1>2, <1>6, <2>5, SameCaches
<1>11. CASE t = Timer
  <2>1. i = at /\ calls'[Timer] = q /\ \A j \in Threads : calls'[j] = calls[j]
    BY <1>3, <1>7, <1>11 DEF CacheOf, i
  <2>2. calls[i].step = "none"
    <3>1. stage = "update"
      BY <1>3, <1>4, <1>11 DEF CallsInv, Putting
    <3> QED BY <1>3, <1>5, <3>1 DEF RacedInv, Inside
  <2>3. Shown(d, calls[i], q, TRUE) = Shown(caches[i], calls[i], calls[Timer], TRUE)
    <3>1. Fine(caches[i], calls[i], calls[Timer], TRUE)
      <4>1. (at = i) = TRUE
        BY <2>1
      <4> QED BY <1>5, <1>8, <4>1
    <3>2. Moves(caches[i], calls[Timer], d, q) /\ CallType(calls[Timer])
      BY <1>1, <1>9, <1>11 DEF i
    <3>3. CacheType(caches[i])
      BY <1>9
    <3>4. ASSUME NEW c, NEW u, NEW o, u.step = "none", Fine(c, u, o, TRUE), Moves(c, o, d, q), CacheType(c), CallType(o)
          PROVE  Shown(d, u, q, TRUE) = Shown(c, u, o, TRUE)
      BY <3>4, ShownTimerMoves
    <3> HIDE DEF i
    <3> QED BY <2>2, <3>1, <3>2, <3>3, <3>4
  <2>4. ASSUME NEW j \in Threads
        PROVE  Shown(caches'[j], calls'[j], calls'[Timer], at' = j)
                 = Shown(caches[j], calls[j], calls[Timer], at = j)
    <3>1. CASE j # i
      <4>1. caches'[j] = caches[j] /\ calls'[j] = calls[j] /\ (at' = j) = FALSE /\ (at = j) = FALSE
        BY <1>2, <1>6, <2>1, <3>1
      <4> QED BY <2>1, <4>1, ShownAway
    <3>2. CASE j = i
      <4>1. caches'[j] = d /\ calls'[j] = calls[i] /\ (at' = j) = TRUE /\ (at = j) = TRUE
        BY <1>2, <1>6, <2>1, <3>2
      <4> QED BY <2>1, <2>3, <3>2, <4>1
    <3> QED BY <3>1, <3>2
  <2>5. view' = view
    BY <1>6, <2>4 DEF view
  <2> QED BY <1>2, <1>6, <2>5, SameCaches
<1> QED BY <1>10, <1>11

LEMMA SyncDropOne ==
  ASSUME ManagerInv, SyncInv, DropOne
  PROVE  SyncInv'
<1> DEFINE c1 == [caches[at] EXCEPT !.pending = Tail(caches[at].pending)]
<1>1. /\ calls[Timer].step = "drop"
      /\ caches' = [caches EXCEPT ![at] = c1] /\ calls' = [calls EXCEPT ![Timer] = NoCall]
      /\ UNCHANGED <<file, stage, at, pos, disturbed>>
  BY DEF DropOne, timerVars, historyVars
<1> SUFFICES ASSUME ~disturbed PROVE SyncInv'
  BY <1>1 DEF SyncInv
<1>2. CachesInv /\ CallsInv /\ RacedInv
      /\ Timer \notin Threads /\ Timer \in Callers /\ Callers = Threads \union {Timer}
  BY SizeFacts DEF ManagerInv
<1>3. at \in Threads /\ stage = "merge"
  BY <1>1, <1>2 DEF CallsInv, Inside
<1>4. \A j \in Threads : calls[j].step = "none"
  BY <1>2, <1>3 DEF RacedInv, Inside
<1> HIDE DEF c1
<1>5. Threads' = Threads /\ \A j \in Threads : caches'[j] = IF j = at THEN c1 ELSE caches[j]
  BY <1>1, <1>3 DEF Threads
<1>6. calls'[Timer] = NoCall /\ \A j \in Threads : calls'[j] = calls[j]
  BY <1>1, <1>2 DEF CallsInv
<1>7. ASSUME NEW j \in Threads
      PROVE  Shown(caches'[j], calls'[j], calls'[Timer], at' = j)
               = Shown(caches[j], calls[j], calls[Timer], at = j)
  <2>1. Shown(caches'[j], calls'[j], calls'[Timer], at' = j) = caches'[j]
    <3>1. calls'[j].step = "none" /\ calls'[Timer].step = "none"
      BY <1>4, <1>6, NoCallFacts
    <3>2. \A here : Shown(caches'[j], calls'[j], calls'[Timer], here) = caches'[j]
      BY <3>1, ShownAtRest
    <3> QED BY <3>2
  <2>2. CASE j = at
    <3>1. Shown(caches[j], calls[j], calls[Timer], TRUE) = c1
      BY <1>1, <2>2 DEF Shown, c1
    <3>2. (at = j) = TRUE
      BY <2>2
    <3> QED BY <1>5, <2>1, <2>2, <3>1, <3>2
  <2>3. CASE j # at
    <3>1. (at = j) = FALSE
      BY <2>3
    <3>2. Shown(caches[j], calls[j], calls[Timer], FALSE) = caches[j]
      BY <1>4, ShownElsewhere
    <3> QED BY <1>5, <2>1, <2>3, <3>1, <3>2
  <2> QED BY <2>2, <2>3
<1>8. view' = view
  BY <1>5, <1>7 DEF view
<1> QED BY <1>1, <1>5, <1>8, SameCaches

\* What a step that leaves lists and capacities as they are leaves as it is.
LEMMA DataKept ==
  ASSUME Threads' = Threads, UNCHANGED file, BuiltInv, stage # "down",
         \A i \in Threads :
           /\ view'[i].data = view[i].data /\ view'[i].capacity = view[i].capacity
           /\ IndexIsComplete(view[i]) => IndexIsComplete(view'[i])
  PROVE  /\ Size' = Size /\ Kept' = Kept /\ BuiltInv'
         /\ \A i \in Threads : Limit(view'[i]) = Limit(view[i])
<1>1. Size' = Size /\ Kept' = Kept
  BY DEF Size, Kept
<1>2. \A i \in Threads : Limit(view'[i]) = Limit(view[i])
  BY DEF Limit
<1>3. BuiltInv'
  BY <1>1 DEF BuiltInv
<1> QED BY <1>1, <1>2, <1>3

LEMMA SyncStartUpdate ==
  ASSUME ManagerInv, ManagerInv', SyncInv, StartUpdate, ~disturbed, ~disturbed'
  PROVE  SyncInv'
<1>1. stage = "idle" /\ stage' = "merge" /\ at' = 1 /\ UNCHANGED <<view, file, disturbed>> /\ Threads' = Threads
  <2>1. /\ stage = "idle" /\ stage' = "merge" /\ at' = 1 /\ UNCHANGED <<caches, calls, file, disturbed>>
        /\ \A w \in Threads : ~Inside(w)
    <3>1. disturbed \in BOOLEAN
      BY DEF ManagerInv, FileInv
    <3>2. UsersInside = {}
      BY DEF StartUpdate
    <3> QED BY <3>1, <3>2 DEF StartUpdate, UsersInside
  <2>2. ~Inside(Timer)
    BY <2>1, TimerRests
  <2>3. Threads' = Threads
    BY <2>1 DEF Threads
  <2>4. view = caches /\ view' = caches'
    BY <2>1, <2>2, <2>3, BareStep
  <2> QED BY <2>1, <2>3, <2>4
<1>2. BuiltInv /\ IdleInv
  BY DEF SyncInv
<1>3. Threads' = Threads /\ Size' = Size /\ Kept' = Kept
  BY <1>1 DEF Size, Kept
<1>4. ASSUME NEW i \in Threads PROVE Behind(i, <<>>)'
  <2> DEFINE own == view[i].pending
  <2>1. Limit(view[i]) = Kept /\ Shows(view[i].data, Kept, own \o file)
    BY <1>1, <1>2 DEF IdleInv, Current
  <2>2. own \in Seq(Pairs) /\ own \o file \in Seq(Pairs)
    BY ManagerFacts, ConcatPairs
  <2>3. <<>> \o (own \o file) = own \o file
    BY <2>2, ConcatEmptySeq
  <2>a. \A m \in 1 .. Len(own) : Used(own[m].key)
    BY DEF Used
  <2>b. \A k : Used(k) => Used(k)'
    BY <1>1, <1>3 DEF Used
  <2>c. PICK s \in Seq(Pairs) : s = own
    BY <2>2
  <2>4. \A m \in 1 .. Len(s) : Used(s[m].key)'
    BY <2>a, <2>b, <2>c
  <2> HIDE DEF own
  <2>5. Limit(view'[i]) = Kept' /\ Shows(view'[i].data, Kept', <<>> \o (s \o file'))
    BY <1>1, <1>3, <2>1, <2>3, <2>c
  <2> QED BY <2>2, <2>4, <2>5 DEF Behind
<1>5. MergeInv'
  BY <1>1, <1>3, <1>4 DEF MergeInv
<1>6. BuiltInv'
  BY <1>1, <1>2, <1>3 DEF BuiltInv
<1> QED BY <1>1, <1>5, <1>6 DEF SyncInv, IdleInv, UpdateInv, ClearInv, WriteInv

\* mergePendingList moves a use; no use is lost, and no list is touched.
LEMMA MergeFacts ==
  ASSUME ManagerInv, ManagerInv', ~disturbed, MergeOne
  PROVE  /\ Threads' = Threads
         /\ \A i \in Threads :
              /\ view'[i].data = view[i].data /\ view'[i].capacity = view[i].capacity
              /\ IndexIsComplete(view[i]) => IndexIsComplete(view'[i])
              /\ i # 0 /\ i # at => view'[i] = view[i]
         /\ \A k : Used(k) => Used(k)'
<1> DEFINE q0 == view[0].pending
           q1 == view[at].pending
           a == Append(q0, Head(q1))
           b == Tail(q1)
           c0 == [view[0] EXCEPT !.pending = a]
           c1 == [view[at] EXCEPT !.pending = b]
<1>1. /\ Size \in Nat /\ Threads = 0 .. Size - 1
      /\ stage = "merge" /\ at < Size /\ q1 # <<>> /\ at # 0
  <2>1. (\A t \in Callers : ~Inside(t)) /\ stage = "merge" /\ at < Size /\ caches[at].pending # <<>>
    BY DEF MergeOne, ManagerInv, RacedInv, Callers
  <2>2. view = caches
    BY <2>1, Bare
  <2> QED BY <2>1, <2>2, ManagerFacts DEF ManagerInv, TimerInv
<1>2. 0 \in Threads /\ at \in Threads /\ at # 0
  <2>1. at \in Nat
    BY ManagerFacts
  <2> QED BY <1>1, <2>1
<1>3. Sound(view[0]) /\ Sound(view[at]) /\ q0 \in Seq(Pairs) /\ q1 \in Seq(Pairs)
  BY <1>2, ManagerFacts
<1> DEFINE r == [calls[Timer] EXCEPT !.step = "drop"]
           e0 == [caches[0] EXCEPT !.pending = Append(caches[0].pending, Head(caches[at].pending))]
<1>m. /\ caches' = [caches EXCEPT ![0] = e0] /\ calls' = [calls EXCEPT ![Timer] = r] /\ at' = at
  BY DEF MergeOne, timerVars
<1>n. /\ view = caches /\ \A i \in Threads : calls[i].step = "none"
      /\ CallsInv /\ Timer \notin Threads /\ Timer \in Callers /\ Callers = Threads \union {Timer}
  <2>1. \A t \in Callers : ~Inside(t)
    BY DEF MergeOne, ManagerInv, RacedInv, Callers
  <2> QED BY <2>1, Bare, SizeFacts DEF Inside, Callers, ManagerInv
<1>o. r.step = "drop"
  BY <1>n DEF CallsInv, CallType
<1>p. e0 = c0
  BY <1>n
<1> HIDE DEF r, e0
<1>7. Threads' = Threads /\ \A i \in Threads : caches'[i] = IF i = 0 THEN e0 ELSE caches[i]
  BY <1>2, <1>m DEF Threads
<1>q. calls'[Timer] = r /\ \A i \in Threads : calls'[i] = calls[i]
  BY <1>m, <1>n DEF CallsInv
<1>8. ASSUME NEW i \in Threads PROVE view'[i] = IF i = at THEN c1 ELSE IF i = 0 THEN c0 ELSE view[i]
  <2>1. view'[i] = Shown(caches'[i], calls'[i], calls'[Timer], at' = i)
    BY <1>7 DEF view
  <2>2. CASE i = at
    <3>1. (at' = i) = TRUE /\ caches'[i] = view[at]
      BY <1>2, <1>7, <1>m, <1>n, <2>2
    <3>2. Shown(view[at], calls'[i], r, TRUE) = c1
      BY <1>o DEF Shown, q1
    <3> QED BY <1>q, <2>1, <2>2, <3>1, <3>2
  <2>3. CASE i # at
    <3>1. (at' = i) = FALSE /\ calls'[i].step = "none"
      BY <1>m, <1>n, <1>q, <2>3
    <3>2. Shown(caches'[i], calls'[i], calls'[Timer], FALSE) = caches'[i]
      BY <3>1, ShownElsewhere
    <3>3. caches'[i] = IF i = 0 THEN c0 ELSE view[i]
      BY <1>7, <1>n, <1>p
    <3> QED BY <2>1, <2>3, <3>1, <3>2, <3>3
  <2> QED BY <2>2, <2>3
<1> HIDE DEF q0, q1
<1>5. /\ a \in Seq(Pairs) /\ Len(a) = Len(q0) + 1 /\ a[Len(q0) + 1] = q1[1]
      /\ \A i \in 1 .. Len(q0) : a[i] = q0[i]
      /\ b \in Seq(Pairs) /\ Len(b) = Len(q1) - 1 /\ Len(q0) \in Nat /\ Len(q1) \in Nat
      /\ \A i \in 1 .. Len(q1) - 1 : b[i] = q1[i + 1]
  <2>1. Head(q1) = q1[1] /\ q1[1] \in Pairs
    BY <1>1, <1>3
  <2>2. /\ b \in Seq(Pairs) /\ Len(b) = Len(q1) - 1
        /\ \A i \in 1 .. Len(q1) - 1 : b[i] = q1[i + 1]
    BY <1>1, <1>3, HeadTailProperties
  <2>3. /\ a \in Seq(Pairs) /\ Len(a) = Len(q0) + 1 /\ a[Len(q0) + 1] = Head(q1)
        /\ \A i \in 1 .. Len(q0) : a[i] = q0[i]
    BY <1>3, <2>1, AppendProperties
  <2>4. Len(q0) \in Nat /\ Len(q1) \in Nat
    BY <1>3
  <2> HIDE DEF a, b
  <2> QED BY <2>1, <2>2, <2>3, <2>4
<1> HIDE DEF a, b
<1>6. /\ IndexIsComplete(view[0]) => IndexIsComplete(c0)
      /\ c0.capacity = view[0].capacity /\ c0.data = view[0].data /\ c0.pending = a
      /\ IndexIsComplete(view[at]) => IndexIsComplete(c1)
      /\ c1.capacity = view[at].capacity /\ c1.data = view[at].data /\ c1.pending = b
  BY <1>3, <1>5, ClearFacts
<1> HIDE DEF c0, c1
<1>9. ASSUME NEW k, Used(k) PROVE Used(k)'
  <2>1. PICK i \in Threads : \E m \in 1 .. Len(view[i].pending) : view[i].pending[m].key = k
    BY <1>9 DEF Used
  <2>2. PICK m \in 1 .. Len(view[i].pending) : view[i].pending[m].key = k
    BY <2>1
  <2>3. CASE i # 0 /\ i # at
    <3>1. view'[i] = view[i]
      BY <1>8, <2>3
    <3> QED BY <1>7, <2>2, <3>1 DEF Used
  <2>4. CASE i = 0
    <3>1. m \in 1 .. Len(q0) /\ q0[m].key = k
      BY <2>2, <2>4 DEF q0
    <3>2. m \in 1 .. Len(a) /\ a[m].key = k
      BY <1>5, <3>1
    <3>3. view'[0].pending = a
      BY <1>2, <1>6, <1>8
    <3>4. \E x \in 1 .. Len(view'[0].pending) : view'[0].pending[x].key = k
      BY <3>2, <3>3
    <3> QED BY <1>2, <1>7, <3>4 DEF Used
  <2>5. CASE i = at
    <3>1. m \in 1 .. Len(q1) /\ q1[m].key = k
      BY <2>2, <2>5 DEF q1
    <3>2. CASE m = 1
      <4>1. Len(q0) + 1 \in 1 .. Len(a) /\ a[Len(q0) + 1].key = k
        BY <1>5, <3>1, <3>2
      <4>2. view'[0].pending = a
        BY <1>2, <1>6, <1>8
      <4>3. \E x \in 1 .. Len(view'[0].pending) : view'[0].pending[x].key = k
        BY <4>1, <4>2
      <4> QED BY <1>2, <1>7, <4>3 DEF Used
    <3>3. CASE m # 1
      <4>1. m - 1 \in 1 .. Len(q1) - 1 /\ (m - 1) + 1 = m
        BY <1>5, <3>1, <3>3
      <4>2. m - 1 \in 1 .. Len(b) /\ b[m - 1].key = k
        BY <1>5, <3>1, <4>1
      <4>3. view'[at].pending = b
        BY <1>2, <1>6, <1>8
      <4>4. \E x \in 1 .. Len(view'[at].pending) : view'[at].pending[x].key = k
        BY <4>2, <4>3
      <4> QED BY <1>2, <1>7, <4>4 DEF Used
    <3> QED BY <3>2, <3>3
  <2> QED BY <2>3, <2>4, <2>5
<1>10. \A i \in Threads :
         /\ view'[i].data = view[i].data /\ view'[i].capacity = view[i].capacity
         /\ IndexIsComplete(view[i]) => IndexIsComplete(view'[i])
         /\ i # 0 /\ i # at => view'[i] = view[i]
  BY <1>6, <1>8
<1> QED BY <1>7, <1>9, <1>10

LEMMA SyncMergeOne ==
  ASSUME ManagerInv, ManagerInv', SyncInv, MergeOne, ~disturbed
  PROVE  SyncInv'
<1>1. stage = "merge" /\ UNCHANGED <<file, stage, at, pos, disturbed>>
  BY DEF MergeOne, timerVars, historyVars
<1>2. BuiltInv /\ MergeInv
  BY DEF SyncInv
<1>3. /\ Threads' = Threads
      /\ \A i \in Threads :
           /\ view'[i].data = view[i].data /\ view'[i].capacity = view[i].capacity
           /\ IndexIsComplete(view[i]) => IndexIsComplete(view'[i])
           /\ i # 0 /\ i # at => view'[i] = view[i]
      /\ \A k : Used(k) => Used(k)'
  BY MergeFacts
<1>4. /\ Kept' = Kept /\ BuiltInv' /\ \A i \in Threads : Limit(view'[i]) = Limit(view[i])
  BY <1>1, <1>2, <1>3, DataKept
<1>5. ASSUME NEW i \in Threads PROVE Behind(i, <<>>)'
  <2>1. Behind(i, <<>>)
    BY <1>1, <1>2 DEF MergeInv
  <2> QED BY <1>1, <1>3, <1>4, <2>1 DEF Behind
<1>6. ASSUME NEW i \in Threads, i \in 1 .. at - 1 PROVE view'[i].pending = <<>>
  <2>1. i # 0 /\ i # at
    BY <1>6, ManagerFacts
  <2> QED BY <1>1, <1>2, <1>3, <1>6, <2>1 DEF MergeInv
<1>7. MergeInv'
  BY <1>1, <1>3, <1>5, <1>6 DEF MergeInv
<1> QED BY <1>1, <1>4, <1>7 DEF SyncInv, IdleInv, UpdateInv, ClearInv, WriteInv

\* Steps of the timer between two view or two stages change no cache.
LEMMA QuietKept ==
  ASSUME UNCHANGED <<view, file>>, Threads' = Threads
  PROVE  /\ Size' = Size /\ Kept' = Kept /\ (SameData => SameData')
         /\ BuiltInv /\ stage # "down" => BuiltInv'
         /\ \A i, uses : Behind(i, uses) => Behind(i, uses)'
         /\ \A i, uses : Current(i, uses) => Current(i, uses)'
<1>1. Size' = Size
  BY DEF Size
<1>2. Kept' = Kept
  BY <1>1 DEF Kept
<1> QED BY <1>1, <1>2 DEF SameData, Basis, BuiltInv, Behind, Used, Current

LEMMA SyncMergeNext ==
  ASSUME ManagerInv, ManagerInv', SyncInv, MergeNext, ~disturbed
  PROVE  SyncInv'
<1>1. /\ stage = "merge" /\ at' = at + 1 /\ view[at].pending = <<>>
      /\ UNCHANGED <<view, file, stage, disturbed>>
      /\ Threads' = Threads
  <2>1. /\ stage = "merge" /\ at' = at + 1 /\ caches[at].pending = <<>>
        /\ UNCHANGED <<caches, calls, file, stage, disturbed>>
    BY DEF MergeNext, historyVars
  <2>2. ~Inside(Timer)
    BY DEF MergeNext
  <2>3. Threads' = Threads
    BY <2>1 DEF Threads
  <2>4. view = caches /\ view' = caches' /\ Basis = Base /\ Basis' = Base'
    BY <2>1, <2>2, <2>3, BareStep
  <2> QED BY <2>1, <2>3, <2>4
<1>2. BuiltInv /\ MergeInv /\ at \in Nat
  BY ManagerFacts DEF SyncInv
<1>3. Threads' = Threads /\ BuiltInv' /\ \A i, uses : Behind(i, uses) => Behind(i, uses)'
  BY <1>1, <1>2, QuietKept
<1>4. ASSUME NEW i \in Threads, i \in 1 .. at' - 1 PROVE view'[i].pending = <<>>
  <2>1. i = at \/ i \in 1 .. at - 1
    BY <1>1, <1>2, <1>4
  <2> QED BY <1>1, <1>2, <2>1 DEF MergeInv
<1>5. MergeInv'
  BY <1>1, <1>2, <1>3, <1>4 DEF MergeInv
<1> QED BY <1>1, <1>3, <1>5 DEF SyncInv, IdleInv, UpdateInv, ClearInv, WriteInv

\* How the uses applied grow, from none to all of them.
LEMMA AppliedFacts ==
  ASSUME NEW s \in Seq(Pairs)
  PROVE  /\ Applied(s, 0) = <<>> /\ Applied(s, Len(s)) = s
         /\ \A n \in 0 .. Len(s) : Applied(s, n) \in Seq(Pairs)
         /\ \A n \in 0 .. Len(s) - 1 :
              /\ s[Len(s) - n] \in Pairs
              /\ <<s[Len(s) - n]>> \o Applied(s, n) = Applied(s, n + 1)
<1> DEFINE L == Len(s)
<1>1. L \in Nat /\ \A i \in 1 .. L : s[i] \in Pairs
  OBVIOUS
<1>2. Applied(s, 0) = <<>>
  <2>1. SubSeq(s, L + 1, L) = <<>>
    BY <1>1, SubSeqEmpty
  <2>2. L - 0 + 1 = L + 1
    BY <1>1
  <2> QED BY <2>1, <2>2 DEF Applied
<1>3. Applied(s, L) = s
  <2>1. L - L + 1 = 1
    BY <1>1
  <2> QED BY <2>1, SubSeqFull DEF Applied
<1>4. ASSUME NEW n \in 0 .. L PROVE Applied(s, n) \in Seq(Pairs)
  <2>1. L - n + 1 \in Int /\ L \in Int /\ \A i \in L - n + 1 .. L : i \in 1 .. L
    BY <1>1
  <2>2. \A i \in L - n + 1 .. L : s[i] \in Pairs
    BY <1>1, <2>1
  <2> DEFINE m == L - n + 1
  <2> HIDE DEF m, L
  <2>3. SubSeq(s, m, L) \in Seq(Pairs)
    BY <2>1, <2>2, SubSeqProperties DEF m
  <2> QED BY <2>3 DEF Applied, m, L
<1>5. ASSUME NEW n \in 0 .. L - 1
      PROVE  s[L - n] \in Pairs /\ <<s[L - n]>> \o Applied(s, n) = Applied(s, n + 1)
  <2> DEFINE m == L - n
  <2>1. m \in 1 .. L /\ L \in m .. L /\ L - n + 1 = m + 1 /\ L - (n + 1) + 1 = m
    BY <1>1
  <2> HIDE DEF m
  <2>2. SubSeq(s, m, L) = <<s[m]>> \o SubSeq(s, m + 1, L)
    BY <2>1, SubSeqRecursiveFirst
  <2>3. Applied(s, n) = SubSeq(s, m + 1, L) /\ Applied(s, n + 1) = SubSeq(s, m, L)
    BY <2>1 DEF Applied
  <2> QED BY <1>1, <2>1, <2>2, <2>3 DEF m
<1> QED BY <1>2, <1>3, <1>4, <1>5

LEMMA SyncMergeEnd ==
  ASSUME ManagerInv, ManagerInv', SyncInv, MergeEnd, ~disturbed
  PROVE  SyncInv'
<1>1. /\ stage = "merge" /\ at = Size /\ stage' = "update" /\ at' = 0 /\ pos' = 0
      /\ UNCHANGED <<view, file, disturbed>>
      /\ Threads' = Threads
  <2>1. /\ stage = "merge" /\ at = Size /\ stage' = "update" /\ at' = 0 /\ pos' = 0
        /\ UNCHANGED <<caches, calls, file, disturbed>>
    BY DEF MergeEnd, historyVars
  <2>2. ~Inside(Timer)
    BY <2>1, TimerRests
  <2>3. Threads' = Threads
    BY <2>1 DEF Threads
  <2>4. view = caches /\ view' = caches' /\ Basis = Base /\ Basis' = Base'
    BY <2>1, <2>2, <2>3, BareStep
  <2> QED BY <2>1, <2>3, <2>4
<1>2. BuiltInv /\ MergeInv
  BY DEF SyncInv
<1>3. Threads' = Threads /\ BuiltInv' /\ \A i, uses : Behind(i, uses) => Behind(i, uses)'
  BY <1>1, <1>2, QuietKept
<1>4. /\ Size \in Nat /\ Threads = 0 .. Size - 1 /\ 0 \in Threads /\ Basis.pending \in Seq(Pairs)
  BY <1>1, ManagerFacts DEF Basis
<1>5. Basis'.pending = Basis.pending /\ Len(Basis.pending) \in Nat
  BY <1>1, <1>4 DEF Basis
<1>6. Applied(Basis.pending, 0) = <<>>
  BY <1>4, AppliedFacts
<1>7. ASSUME NEW i \in Threads
      PROVE  /\ i # 0 => view'[i].pending = <<>>
             /\ ~(i < at') /\ Behind(i, <<>>)'
             /\ i = at' => Behind(i, Applied(Basis.pending, pos))'
  <2>1. Behind(i, <<>>) /\ (i \in 1 .. at - 1 => view[i].pending = <<>>)
    BY <1>1, <1>2 DEF MergeInv
  <2>2. i # 0 => i \in 1 .. at - 1
    BY <1>1, <1>4
  <2>3. Behind(i, <<>>)'
    BY <1>3, <2>1
  <2>4. Behind(i, Applied(Basis.pending, pos))'
    BY <1>1, <1>5, <1>6, <2>3 DEF Behind
  <2> QED BY <1>1, <1>4, <2>1, <2>2, <2>3, <2>4
<1>8. UpdateInv'
  BY <1>1, <1>3, <1>5, <1>7 DEF UpdateInv
<1> QED BY <1>1, <1>3, <1>8 DEF SyncInv, IdleInv, MergeInv, ClearInv, WriteInv

\* The timer's put, of which its keyExist is the first step.
LEMMA UpdateSeen ==
  ASSUME ManagerInv, UpdateOne, ~disturbed, at \in Threads,
         NEW p \in Pairs, p = Basis.pending[Len(Basis.pending) - pos]
  PROVE  Threads' = Threads /\ view' = [view EXCEPT ![at] = put(view[at], p.key, p.val, TRUE)]
<1> DEFINE c == caches[at]
           q == PutCall(c, p.key, p.val, "update")
<1>1. ~Inside(Timer) /\ stage = "update"
  BY DEF UpdateOne
<1>2. \A t \in Callers : ~Inside(t)
  BY <1>1 DEF ManagerInv, RacedInv, Callers
<1>3. view = caches /\ Basis = Base
  BY <1>2, Bare DEF Basis, Base
<1>4. calls' = [calls EXCEPT ![Timer] = q] /\ UNCHANGED <<caches, at>>
  BY <1>3 DEF UpdateOne, Replay
<1>5. p.key \in Keys /\ p.val \in Vals
  BY DEF Pairs
<1>6. Finish(c, q) = put(c, p.key, p.val, TRUE) /\ q.step \in {"erase", "push"}
  <2>1. CacheType(c) /\ "update" \in {"put", "update"} /\ ("update" = "update") = TRUE
    BY DEF ManagerInv, CachesInv
  <2>2. /\ Finish(c, q) = put(c, p.key, p.val, "update" = "update") /\ q.step \in {"erase", "push"}
    BY <1>5, <2>1, PutEnds
  <2> QED BY <2>1, <2>2
<1> HIDE DEF q
<1>7. Timer \notin Threads /\ Timer \in Callers /\ Callers = Threads \union {Timer} /\ DOMAIN calls = Callers
  BY SizeFacts DEF ManagerInv, CallsInv
<1>8. calls'[Timer] = q /\ (\A i \in Threads : calls'[i] = calls[i] /\ calls[i].step = "none") /\ Threads' = Threads
  BY <1>2, <1>4, <1>7 DEF Inside, Threads
<1>9. ASSUME NEW i \in Threads
      PROVE  Shown(caches'[i], calls'[i], calls'[Timer], at' = i) = IF i = at THEN Finish(c, q) ELSE caches[i]
  <2>1. CASE i = at
    <3>1. Left(calls[i], q, TRUE) = q
      BY <1>6, <1>8 DEF Left, Busy
    <3>2. Shown(c, calls[i], q, TRUE) = Finish(c, q)
      BY <1>6, <3>1 DEF Shown
    <3>3. (at' = i) = TRUE /\ caches'[i] = c /\ calls'[i] = calls[i]
      BY <1>4, <1>8, <2>1
    <3> QED BY <1>8, <2>1, <3>2, <3>3
  <2>2. CASE i # at
    <3>1. (at' = i) = FALSE /\ caches'[i] = caches[i] /\ calls'[i] = calls[i]
      BY <1>4, <1>8, <2>2
    <3>2. Shown(caches[i], calls[i], q, FALSE) = caches[i]
      BY <1>8, ShownElsewhere
    <3> QED BY <1>8, <2>2, <3>1, <3>2
  <2> QED BY <2>1, <2>2
<1> HIDE DEF c
<1>10. view' = [i \in Threads |-> IF i = at THEN Finish(c, q) ELSE caches[i]]
  BY <1>8, <1>9 DEF view
<1>11. caches = [i \in Threads |-> caches[i]]
  BY DEF ManagerInv, CachesInv
<1>12. view' = [caches EXCEPT ![at] = Finish(c, q)]
  BY <1>10, <1>11
<1> QED BY <1>3, <1>6, <1>8, <1>12 DEF c

LEMMA SyncUpdateOne ==
  ASSUME ManagerInv, SyncInv, UpdateOne, ~disturbed
  PROVE  SyncInv'
<1> DEFINE P == Basis.pending
           p == P[Len(P) - pos]
           c == view[at]
           d == put(c, p.key, p.val, TRUE)
<1>1. /\ stage = "update" /\ at < Size /\ pos < Len(P) /\ pos' = pos + 1
      /\ UNCHANGED <<file, stage, at, disturbed>>
  <2>1. /\ stage = "update" /\ at < Size /\ pos < Len(Base.pending) /\ pos' = pos + 1 /\ ~Inside(Timer)
        /\ UNCHANGED <<file, stage, at, disturbed>>
    BY DEF UpdateOne, Replay
  <2>2. \A t \in Callers : ~Inside(t)
    BY <2>1 DEF ManagerInv, RacedInv, Callers
  <2>3. Basis = Base
    BY <2>2, Bare DEF Basis, Base
  <2> QED BY <2>1, <2>3
<1>2. BuiltInv /\ UpdateInv
  BY DEF SyncInv
<1>3. /\ Size \in Nat /\ Threads = 0 .. Size - 1 /\ at \in Threads /\ 0 \in Threads
      /\ P \in Seq(Pairs) /\ file \in Seq(Pairs) /\ Sound(c) /\ pos \in Nat
  <2>1. at \in Nat
    BY ManagerFacts
  <2> QED BY <1>1, <2>1, ManagerFacts DEF Basis
<1> HIDE DEF P
<1>4. /\ p \in Pairs /\ <<p>> \o Applied(P, pos) = Applied(P, pos + 1)
      /\ Applied(P, pos) \in Seq(Pairs)
  <2>1. pos \in 0 .. Len(P) - 1 /\ pos \in 0 .. Len(P)
    BY <1>1, <1>3
  <2> QED BY <1>3, <2>1, AppliedFacts
<1> HIDE DEF p
<1>5. p.key \in Keys /\ p.val \in Vals /\ p = [key |-> p.key, val |-> p.val]
  BY <1>4 DEF Pairs
<1>s. Threads' = Threads /\ view' = [view EXCEPT ![at] = d]
  BY <1>1, <1>3, <1>4, UpdateSeen DEF P, p
<1>6. IndexIsComplete(c) /\ Behind(at, Applied(P, pos))
  BY <1>1, <1>2, <1>3 DEF BuiltInv, UpdateInv, P
<1>7. PICK own \in Seq(Pairs) :
        /\ \A m \in 1 .. Len(own) : Used(own[m].key)
        /\ Shows(c.data, Kept, Applied(P, pos) \o (own \o file))
  BY <1>6 DEF Behind
<1>8. Limit(c) = Kept
  BY <1>6 DEF Behind
<1>9. own \o file \in Seq(Pairs) /\ Applied(P, pos) \o (own \o file) \in Seq(Pairs)
  BY <1>3, <1>4, ConcatPairs
<1>10. /\ IndexIsComplete(d) /\ d.capacity = c.capacity /\ Limit(d) = Limit(c)
       /\ Shows(d.data, Kept, <<p>> \o (Applied(P, pos) \o (own \o file)))
  <2> DEFINE uses == Applied(P, pos) \o (own \o file)
  <2>1. uses \in Seq(Pairs) /\ Shows(c.data, Limit(c), uses)
    BY <1>7, <1>8, <1>9
  <2> HIDE DEF uses, c
  <2>2. /\ IndexIsComplete(d) /\ d.capacity = c.capacity /\ Limit(d) = Limit(c)
        /\ Shows(d.data, Limit(c), <<[key |-> p.key, val |-> p.val]>> \o uses)
    BY <1>3, <1>5, <1>6, <2>1, PutShows
  <2>3. Shows(d.data, Kept, <<p>> \o uses)
    BY <1>5, <1>8, <2>2
  <2> QED BY <2>2, <2>3 DEF uses
<1>11. d.pending = c.pending
  <2> HIDE DEF c
  <2>1. d.pending = IF TRUE THEN c.pending ELSE <<[key |-> p.key, val |-> p.val]>> \o c.pending
    BY <1>3, <1>5, PutPending
  <2> QED BY <2>1
<1>12. <<p>> \o (Applied(P, pos) \o (own \o file)) = Applied(P, pos + 1) \o (own \o file)
  <2>1. \A x, y, z \in Seq(Pairs) : (x \o y) \o z = x \o (y \o z)
    BY ConcatAssociative
  <2>2. <<p>> \in Seq(Pairs)
    BY <1>4
  <2>3. (<<p>> \o Applied(P, pos)) \o (own \o file) = <<p>> \o (Applied(P, pos) \o (own \o file))
    BY <1>4, <1>9, <2>1, <2>2
  <2> QED BY <1>4, <2>3
<1> HIDE DEF d
<1>13. /\ Threads' = Threads /\ Size' = Size /\ Kept' = Kept
       /\ \A i \in Threads : view'[i] = IF i = at THEN d ELSE view[i]
  <2>1. view' = [view EXCEPT ![at] = d] /\ UNCHANGED file /\ at \in Threads /\ view = [i \in Threads |-> view[i]]
    BY <1>1, <1>3, <1>s, ManagerFacts
  <2>2. Threads' = Threads /\ \A i \in Threads : view'[i] = IF i = at THEN d ELSE view[i]
    BY <1>s, <2>1
  <2> QED BY <2>1, <2>2 DEF Size, Kept
<1>14. /\ \A i \in Threads : view'[i].pending = view[i].pending
       /\ Basis'.pending = P /\ \A k : Used(k) => Used(k)'
  <2>1. \A i \in Threads : view'[i].pending = view[i].pending
    BY <1>11, <1>13
  <2>2. Basis'.pending = P
    BY <1>3, <2>1 DEF Basis, P
  <2> QED BY <1>13, <2>1, <2>2 DEF Used
<1>15. BuiltInv'
  <2> HIDE DEF c
  <2>1. c.capacity = Size
    BY <1>1, <1>2, <1>3 DEF BuiltInv, c
  <2> QED BY <1>1, <1>2, <1>10, <1>13, <2>1 DEF BuiltInv
<1>16. Behind(at, Applied(Basis.pending, pos))'
  <2>1. view'[at] = d
    BY <1>3, <1>13
  <2>2. Limit(d) = Kept' /\ Shows(d.data, Kept', Applied(P, pos + 1) \o (own \o file'))
    BY <1>1, <1>8, <1>10, <1>12, <1>13
  <2>3. \A m \in 1 .. Len(own) : Used(own[m].key)'
    BY <1>7, <1>14
  <2>4. Limit(view'[at]) = Kept' /\ Shows(view'[at].data, Kept', Applied(P, pos + 1) \o (own \o file'))
    BY <2>1, <2>2
  <2>5. at' = at /\ pos' = pos + 1 /\ Basis'.pending = P
    BY <1>1, <1>14
  <2>6. own \in Seq(Pairs)
    BY <1>7
  <2> QED BY <1>1, <2>3, <2>4, <2>5, <2>6 DEF Behind
<1>17. ASSUME NEW i \in Threads
       PROVE  /\ i # 0 => view'[i].pending = <<>>
              /\ i < at' => Current(i, Basis.pending)'
              /\ i = at' => Behind(i, Applied(Basis.pending, pos))'
              /\ i > at' => Behind(i, <<>>)'
  <2>1. /\ i # 0 => view[i].pending = <<>>
        /\ i < at => Current(i, P)
        /\ i > at => Behind(i, <<>>)
    BY <1>1, <1>2 DEF UpdateInv, P
  <2>2. i # at => view'[i] = view[i]
    BY <1>13
  <2>3. i < at => Current(i, Basis.pending)'
    BY <1>1, <1>3, <1>13, <1>14, <2>1, <2>2, ManagerFacts DEF Current
  <2>4. i > at => Behind(i, <<>>)'
    <3> SUFFICES ASSUME i > at PROVE Behind(i, <<>>)'
      OBVIOUS
    <3>1. view'[i] = view[i] /\ Behind(i, <<>>)
      BY <1>3, <2>1, <2>2, ManagerFacts
    <3>2. PICK s \in Seq(Pairs) :
            /\ \A m \in 1 .. Len(s) : Used(s[m].key)
            /\ Shows(view[i].data, Kept, <<>> \o (s \o file))
      BY <3>1 DEF Behind
    <3>3. \A m \in 1 .. Len(s) : Used(s[m].key)'
      BY <1>14, <3>2
    <3>4. Limit(view'[i]) = Kept' /\ Shows(view'[i].data, Kept', <<>> \o (s \o file'))
      BY <1>1, <1>13, <3>1, <3>2 DEF Behind
    <3> QED BY <3>3, <3>4 DEF Behind
  <2>5. i = at => Behind(i, Applied(Basis.pending, pos))'
    BY <1>1, <1>16 DEF Behind
  <2> QED BY <1>1, <1>14, <2>1, <2>3, <2>4, <2>5
<1>18. UpdateInv'
  <2>1. pos' <= Len(Basis'.pending)
    BY <1>1, <1>3, <1>14
  <2> QED BY <1>1, <1>13, <1>17, <2>1 DEF UpdateInv
<1> QED BY <1>1, <1>15, <1>18 DEF SyncInv, IdleInv, MergeInv, ClearInv, WriteInv

\* With all the uses applied, the cache's own are hidden by them.
LEMMA AllApplied ==
  ASSUME ManagerInv, ~disturbed, UpdateInv, stage = "update", pos = Len(Basis.pending),
         NEW i \in Threads, i = at
  PROVE  Current(i, Basis.pending)
<1> DEFINE P == Basis.pending
<1>1. /\ P \in Seq(Pairs) /\ file \in Seq(Pairs) /\ Kept \in Nat
      /\ 0 \in Threads /\ P = view[0].pending
  BY ManagerFacts DEF Basis
<1>2. Behind(i, Applied(P, Len(P)))
  BY DEF UpdateInv
<1>3. \A c \in Threads : c # 0 => view[c].pending = <<>>
  BY DEF UpdateInv
<1> HIDE DEF P
<1>4. Applied(P, Len(P)) = P
  BY <1>1, AppliedFacts
<1>5. PICK own \in Seq(Pairs) :
        /\ \A m \in 1 .. Len(own) : Used(own[m].key)
        /\ Shows(view[i].data, Kept, P \o (own \o file))
  BY <1>2, <1>4 DEF Behind
<1>6. ASSUME NEW m \in 1 .. Len(own) PROVE \E x \in 1 .. Len(P) : P[x].key = own[m].key
  <2>1. PICK c \in Threads : \E x \in 1 .. Len(view[c].pending) : view[c].pending[x].key = own[m].key
    BY <1>5 DEF Used
  <2>2. c = 0
    <3>1. CASE c # 0
      <4>1. Len(view[c].pending) = 0
        BY <1>3, <3>1
      <4> QED BY <2>1, <4>1
    <3> QED BY <3>1
  <2> QED BY <1>1, <2>1, <2>2
<1>7. Shows(view[i].data, Kept, P \o file)
  <2> DEFINE d == view[i].data
  <2>1. P \in Seq(Pairs) /\ file \in Seq(Pairs) /\ Kept \in Nat /\ Shows(d, Kept, P \o (own \o file))
    BY <1>1, <1>5
  <2> HIDE DEF d
  <2>2. Shows(d, Kept, P \o file)
    BY <2>1, <1>6, DropHidden
  <2> QED BY <2>2 DEF d
<1>8. Limit(view[i]) = Kept
  BY <1>2 DEF Behind
<1> QED BY <1>7, <1>8 DEF Current, P

LEMMA SyncUpdateNext ==
  ASSUME ManagerInv, ManagerInv', SyncInv, UpdateNext, ~disturbed
  PROVE  SyncInv'
<1>1. /\ stage = "update" /\ at < Size /\ pos = Len(Basis.pending) /\ at' = at + 1 /\ pos' = 0
      /\ UNCHANGED <<view, file, stage, disturbed>>
      /\ Threads' = Threads
  <2>1. /\ stage = "update" /\ at < Size /\ pos = Len(Base.pending) /\ at' = at + 1 /\ pos' = 0
        /\ UNCHANGED <<caches, calls, file, stage, disturbed>>
    BY DEF UpdateNext, historyVars
  <2>2. ~Inside(Timer)
    BY DEF UpdateNext
  <2>3. Threads' = Threads
    BY <2>1 DEF Threads
  <2>4. view = caches /\ view' = caches' /\ Basis = Base /\ Basis' = Base'
    BY <2>1, <2>2, <2>3, BareStep
  <2> QED BY <2>1, <2>3, <2>4
<1>2. BuiltInv /\ UpdateInv
  BY DEF SyncInv
<1>3. /\ Threads' = Threads /\ BuiltInv'
      /\ \A i, uses : Behind(i, uses) => Behind(i, uses)'
      /\ \A i, uses : Current(i, uses) => Current(i, uses)'
  BY <1>1, <1>2, QuietKept
<1>4. at \in Nat /\ Basis.pending \in Seq(Pairs) /\ Basis'.pending = Basis.pending
      /\ \A i \in Threads : i \in Nat
  BY <1>1, ManagerFacts DEF Basis
<1>5. Applied(Basis.pending, 0) = <<>>
  BY <1>4, AppliedFacts
<1>6. ASSUME NEW i \in Threads
      PROVE  /\ i # 0 => view'[i].pending = <<>>
             /\ i < at' => Current(i, Basis.pending)'
             /\ i = at' => Behind(i, Applied(Basis.pending, pos))'
             /\ i > at' => Behind(i, <<>>)'
  <2>1. /\ i # 0 => view[i].pending = <<>>
        /\ i < at => Current(i, Basis.pending)
        /\ i > at => Behind(i, <<>>)
    BY <1>1, <1>2 DEF UpdateInv
  <2>2. i < at' => Current(i, Basis.pending)
    <3>1. i < at' => i < at \/ i = at
      BY <1>1, <1>4
    <3> QED BY <1>1, <1>2, <2>1, <3>1, AllApplied
  <2>3. i < at' => Current(i, Basis.pending)'
    BY <1>1, <1>4, <2>2, <1>3 DEF Current
  <2>4. i >= at' => i > at
    BY <1>1, <1>4
  <2>5. i >= at' => Behind(i, <<>>)'
    BY <1>3, <2>1, <2>4
  <2>6. i = at' => Behind(i, Applied(Basis.pending, pos))'
    <3>1. i = at' => i >= at'
      BY <1>4
    <3> QED BY <1>1, <1>4, <1>5, <2>5, <3>1 DEF Behind
  <2>7. i > at' => i >= at'
    BY <1>1, <1>4
  <2> QED BY <1>1, <2>1, <2>3, <2>5, <2>6, <2>7
<1>7. UpdateInv'
  <2>1. pos' <= Len(Basis'.pending)
    BY <1>1, <1>4
  <2> QED BY <1>1, <1>3, <1>6, <2>1 DEF UpdateInv
<1> QED BY <1>1, <1>3, <1>7 DEF SyncInv, IdleInv, MergeInv, ClearInv, WriteInv

\* Caches that show the same uses are the same.
LEMMA CurrentAreSame ==
  ASSUME ManagerInv, ~disturbed, NEW uses \in Seq(Pairs), \A i \in Threads : Current(i, uses)
  PROVE  \A i \in Threads : PairsOf(view[i].data) = Recent(Kept, uses \o file)
<1> TAKE i \in Threads
<1> DEFINE s == view[i].data
           all == uses \o file
<1>1. file \in Seq(Pairs) /\ Kept \in Nat /\ s \in Seq(Entries)
  BY ManagerFacts
<1>2. all \in Seq(Pairs)
  BY <1>1, ConcatPairs
<1>3. Shows(s, Kept, all)
  BY DEF Current
<1> HIDE DEF s, all
<1>4. PairsOf(s) = Recent(Kept, all)
  BY <1>1, <1>2, <1>3, ShownIsRecent
<1> QED BY <1>4 DEF s, all

LEMMA SyncUpdateEnd ==
  ASSUME ManagerInv, ManagerInv', SyncInv, UpdateEnd, ~disturbed
  PROVE  SyncInv'
<1>1. /\ stage = "update" /\ at = Size /\ stage' = "clear" /\ at' = 0
      /\ UNCHANGED <<view, file, pos, disturbed>>
      /\ Threads' = Threads
  <2>1. /\ stage = "update" /\ at = Size /\ stage' = "clear" /\ at' = 0
        /\ UNCHANGED <<caches, calls, file, pos, disturbed>>
    BY DEF UpdateEnd, historyVars
  <2>2. ~Inside(Timer)
    BY <2>1, TimerRests
  <2>3. Threads' = Threads
    BY <2>1 DEF Threads
  <2>4. view = caches /\ view' = caches' /\ Basis = Base /\ Basis' = Base'
    BY <2>1, <2>2, <2>3, BareStep
  <2> QED BY <2>1, <2>3, <2>4
<1>2. BuiltInv /\ UpdateInv
  BY DEF SyncInv
<1>3. /\ Threads' = Threads /\ BuiltInv' /\ (SameData => SameData')
      /\ \A i, uses : Current(i, uses) => Current(i, uses)'
  BY <1>1, <1>2, QuietKept
<1>4. /\ Threads = 0 .. Size - 1 /\ 0 \in Threads /\ Size \in Nat
      /\ Basis.pending \in Seq(Pairs) /\ Basis'.pending = Basis.pending
  BY <1>1, ManagerFacts DEF Basis
<1>5. ASSUME NEW i \in Threads
      PROVE  Current(i, Basis.pending) /\ (i # 0 => view[i].pending = <<>>) /\ ~(i < 0)
  <2>1. i < at /\ ~(i < 0)
    BY <1>1, <1>4
  <2> QED BY <1>1, <1>2, <2>1 DEF UpdateInv
<1>6. SameData
  <2>1. \A i \in Threads : PairsOf(view[i].data) = Recent(Kept, Basis.pending \o file)
    BY <1>4, <1>5, CurrentAreSame
  <2> QED BY <1>4, <2>1 DEF SameData, Basis
<1>7. ASSUME NEW i \in Threads PROVE Current(i, Basis.pending)'
  BY <1>3, <1>4, <1>5 DEF Current
<1>8. ClearInv'
  BY <1>1, <1>3, <1>5, <1>6, <1>7 DEF ClearInv
<1> QED BY <1>1, <1>3, <1>8 DEF SyncInv, IdleInv, MergeInv, UpdateInv, WriteInv

LEMMA SyncClearOne ==
  ASSUME ManagerInv, ManagerInv', SyncInv, ClearOne, ~disturbed
  PROVE  SyncInv'
<1> DEFINE d == [view[at] EXCEPT !.pending = <<>>]
<1>1. /\ stage = "clear" /\ at < Size /\ at' = at + 1
      /\ view' = [view EXCEPT ![at] = d]
      /\ UNCHANGED <<file, stage, pos, disturbed>>
      /\ Threads' = Threads
  <2>1. /\ stage = "clear" /\ at < Size /\ at' = at + 1
        /\ caches' = [caches EXCEPT ![at] = [caches[at] EXCEPT !.pending = <<>>]]
        /\ UNCHANGED <<calls, file, stage, pos, disturbed>>
    BY DEF ClearOne, historyVars, clearPendingList
  <2>2. ~Inside(Timer)
    BY <2>1, TimerRests
  <2>3. Threads' = Threads
    BY <2>1 DEF Threads
  <2>4. view = caches /\ view' = caches'
    BY <2>1, <2>2, <2>3, BareStep
  <2> QED BY <2>1, <2>3, <2>4
<1>2. BuiltInv /\ ClearInv
  BY DEF SyncInv
<1>3. at \in Threads /\ Sound(view[at]) /\ at \in Nat /\ 0 \in Threads /\ \A i \in Threads : i \in Nat
  <2>1. at \in Nat
    BY ManagerFacts
  <2> QED BY <1>1, <2>1, ManagerFacts
<1>4. /\ IndexIsComplete(view[at]) => IndexIsComplete(d)
      /\ d.capacity = view[at].capacity /\ d.data = view[at].data /\ d.pending = <<>>
  <2>1. <<>> \in Seq(Pairs)
    OBVIOUS
  <2> QED BY <1>3, <2>1, ClearFacts
<1> HIDE DEF d
<1>5. Threads' = Threads /\ \A i \in Threads : view'[i] = IF i = at THEN d ELSE view[i]
  <2>1. view = [i \in Threads |-> view[i]]
    BY ManagerFacts
  <2> QED BY <1>1, <1>3, <2>1
<1>6. \A i \in Threads :
        /\ view'[i].data = view[i].data /\ view'[i].capacity = view[i].capacity
        /\ IndexIsComplete(view[i]) => IndexIsComplete(view'[i])
  BY <1>4, <1>5
<1>7. BuiltInv'
  BY <1>1, <1>2, <1>5, <1>6, DataKept
<1>8. SameData'
  <2>1. SameData
    BY <1>1, <1>2 DEF ClearInv
  <2> QED BY <1>3, <1>5, <1>6, <2>1 DEF SameData, Basis
<1>9. ASSUME NEW i \in Threads, i # 0 \/ i < at' PROVE view'[i].pending = <<>>
  <2>1. i = at \/ i # 0 \/ i < at
    BY <1>1, <1>3, <1>9
  <2> QED BY <1>1, <1>2, <1>4, <1>5, <2>1 DEF ClearInv
<1>10. ClearInv'
  <2>1. at' # 0
    BY <1>1, <1>3
  <2> QED BY <1>5, <1>8, <1>9, <2>1 DEF ClearInv
<1> QED BY <1>1, <1>7, <1>10 DEF SyncInv, IdleInv, MergeInv, UpdateInv, WriteInv

LEMMA SyncOpenFile ==
  ASSUME ManagerInv, ManagerInv', SyncInv, OpenFile, ~disturbed
  PROVE  SyncInv'
<1>1. /\ stage = "clear" /\ at = Size /\ stage' = "write" /\ file' = <<>>
      /\ pos' = IF Basis.data = <<>> THEN NoNode ELSE Basis.data[1].node
      /\ UNCHANGED <<view, disturbed>>
      /\ Threads' = Threads
  <2>1. /\ stage = "clear" /\ at = Size /\ stage' = "write" /\ file' = <<>>
        /\ pos' = IF Base.data = <<>> THEN NoNode ELSE Base.data[1].node
        /\ UNCHANGED <<caches, calls, disturbed>>
    BY DEF OpenFile, historyVars
  <2>2. ~Inside(Timer)
    BY <2>1, TimerRests
  <2>3. Threads' = Threads
    BY <2>1 DEF Threads
  <2>4. view = caches /\ view' = caches' /\ Basis = Base /\ Basis' = Base'
    BY <2>1, <2>2, <2>3, BareStep
  <2> QED BY <2>1, <2>3, <2>4
<1>2. BuiltInv /\ ClearInv
  BY DEF SyncInv
<1>3. Threads' = Threads /\ Size' = Size
  BY <1>1 DEF Size
<1>4. Threads = 0 .. Size - 1 /\ Size \in Nat /\ Basis.data \in Seq(Entries)
  BY <1>1, ManagerFacts DEF Basis
<1>5. \A i \in Threads : i < at
  BY <1>1, <1>4
<1>6. SameData /\ \A i \in Threads : view[i].pending = <<>>
  BY <1>1, <1>2, <1>5 DEF ClearInv
<1>7. SameData' /\ Basis' = Basis
  BY <1>1, <1>3, <1>6 DEF SameData, Basis
<1>8. /\ Len(file') = 0 /\ Len(file') <= Len(Basis.data) /\ \A i \in 1 .. Len(file') : FALSE
      /\ pos' = IF Len(file') = Len(Basis.data) THEN NoNode ELSE Basis.data[Len(file') + 1].node
  <2> DEFINE s == Basis.data
  <2> HIDE DEF s
  <2>1. s \in Seq(Entries) /\ pos' = IF s = <<>> THEN NoNode ELSE s[1].node
    BY <1>1, <1>4 DEF s
  <2>2. Len(s) \in Nat /\ (s = <<>> <=> 0 = Len(s))
    BY <2>1
  <2>3. Len(file') = 0 /\ 0 + 1 = 1
    BY <1>1
  <2>4. pos' = IF 0 = Len(s) THEN NoNode ELSE s[0 + 1].node
    BY <2>1, <2>2, <2>3
  <2> QED BY <2>2, <2>3, <2>4 DEF s
<1>9. WriteInv'
  BY <1>1, <1>3, <1>6, <1>7, <1>8 DEF WriteInv
<1>10. BuiltInv'
  BY <1>1, <1>2, <1>3 DEF BuiltInv
<1> QED BY <1>1, <1>9, <1>10 DEF SyncInv, IdleInv, MergeInv, UpdateInv, ClearInv

LEMMA SyncWriteLine ==
  ASSUME ManagerInv, ManagerInv', SyncInv, WriteLine, ~disturbed
  PROVE  SyncInv'
<1> DEFINE s == Basis.data
           n == Len(file)
<1>1. /\ stage = "write" /\ UNCHANGED <<view, stage, at, disturbed>>
      /\ Threads' = Threads
  <2>1. /\ stage = "write" /\ UNCHANGED <<caches, calls, stage, at, disturbed>>
    BY DEF WriteLine, historyVars
  <2>2. ~Inside(Timer)
    BY <2>1, TimerRests
  <2>3. Threads' = Threads
    BY <2>1 DEF Threads
  <2>4. view = caches /\ view' = caches' /\ Basis = Base /\ Basis' = Base'
    BY <2>1, <2>2, <2>3, BareStep
  <2> QED BY <2>1, <2>3, <2>4
<1>2. PICK i \in DOMAIN s :
        /\ s[i].node = pos
        /\ file' = Append(file, Pair(s[i]))
        /\ pos' = IF i = Len(s) THEN NoNode ELSE s[i + 1].node
  <2>1. ~Inside(Timer) /\ UNCHANGED <<caches, calls>>
    BY TimerRests DEF WriteLine
  <2>2. Basis = Base
    BY <1>1, <2>1, BareStep
  <2> QED BY <2>2 DEF WriteLine
<1>3. BuiltInv /\ WriteInv
  BY DEF SyncInv
<1>4. Threads' = Threads /\ Size' = Size /\ Basis' = Basis /\ (SameData => SameData')
  BY <1>1 DEF Size, Basis, SameData
<1>5. /\ s \in Seq(Entries) /\ file \in Seq(Pairs) /\ n \in Nat /\ Len(s) \in Nat
      /\ \A a, b \in 1 .. Len(s) : s[a].node = s[b].node => a = b
  <2>1. Sound(Basis) /\ s \in Seq(Entries) /\ file \in Seq(Pairs)
    BY <1>1, ManagerFacts DEF Basis
  <2> QED BY <2>1 DEF Sound, IndexIsSafe
<1>6. /\ n <= Len(s) /\ \A a \in 1 .. n : file[a] = Pair(s[a])
      /\ pos = IF n = Len(s) THEN NoNode ELSE s[n + 1].node
  BY <1>1, <1>3 DEF WriteInv
<1> HIDE DEF s, n
<1>7. i \in 1 .. Len(s) /\ s[i] \in Entries /\ Pair(s[i]) \in Pairs /\ s[i].node # NoNode
  <2>1. i \in 1 .. Len(s) /\ s[i] \in Entries
    BY <1>2, <1>5
  <2> QED BY <2>1 DEF Entries, Pair, Pairs
<1>8. n # Len(s) /\ i = n + 1
  <2>1. n # Len(s)
    BY <1>2, <1>6, <1>7
  <2>2. n + 1 \in 1 .. Len(s) /\ s[n + 1].node = s[i].node
    BY <1>2, <1>5, <1>6, <2>1
  <2> QED BY <1>5, <1>7, <2>1, <2>2
<1>9. /\ Len(file') = n + 1 /\ file'[n + 1] = Pair(s[n + 1])
      /\ \A a \in 1 .. n : file'[a] = file[a]
  BY <1>2, <1>5, <1>7, <1>8, AppendProperties DEF n
<1>10. \A a \in 1 .. Len(file') : file'[a] = Pair(s[a])
  <2> TAKE a \in 1 .. Len(file')
  <2>1. a \in 1 .. n \/ a = n + 1
    BY <1>5, <1>9
  <2> QED BY <1>6, <1>9, <2>1
<1>11. Len(file') <= Len(s) /\ pos' = IF Len(file') = Len(s) THEN NoNode ELSE s[Len(file') + 1].node
  BY <1>2, <1>5, <1>6, <1>8, <1>9
<1>12. WriteInv'
  <2>1. SameData /\ \A c \in Threads : view[c].pending = <<>>
    BY <1>1, <1>3 DEF WriteInv
  <2> QED BY <1>1, <1>4, <1>10, <1>11, <2>1 DEF WriteInv, s
<1>13. BuiltInv'
  BY <1>1, <1>3, <1>4 DEF BuiltInv
<1> QED BY <1>1, <1>12, <1>13 DEF SyncInv, IdleInv, MergeInv, UpdateInv, ClearInv

LEMMA SyncCloseFile ==
  ASSUME ManagerInv, ManagerInv', SyncInv, CloseFile, ~disturbed
  PROVE  SyncInv'
<1>1. stage = "write" /\ pos = NoNode /\ stage' = "idle" /\ UNCHANGED <<view, file, disturbed>> /\ Threads' = Threads
  <2>1. stage = "write" /\ pos = NoNode /\ stage' = "idle" /\ UNCHANGED <<caches, calls, file, disturbed>>
    BY DEF CloseFile, historyVars
  <2>2. ~Inside(Timer)
    BY <2>1, TimerRests
  <2>3. Threads' = Threads
    BY <2>1 DEF Threads
  <2>4. view = caches /\ view' = caches' /\ Basis = Base /\ Basis' = Base'
    BY <2>1, <2>2, <2>3, BareStep
  <2> QED BY <2>1, <2>3, <2>4
<1>2. BuiltInv /\ WriteInv
  BY DEF SyncInv
<1>3. /\ Threads' = Threads /\ Kept' = Kept /\ BuiltInv'
      /\ \A i, uses : Current(i, uses) => Current(i, uses)'
  BY <1>1, <1>2, QuietKept
<1> DEFINE s == Basis.data
           n == Len(file)
<1>4. /\ s \in Seq(Entries) /\ file \in Seq(Pairs) /\ n \in Nat /\ Len(s) \in Nat /\ DOMAIN s = 1 .. Len(s)
      /\ \A a, b \in 1 .. Len(s) : s[a].key = s[b].key => a = b
      /\ Size \in Nat /\ Kept \in Nat
  <2>1. Sound(Basis) /\ s \in Seq(Entries) /\ file \in Seq(Pairs) /\ IndexIsComplete(Basis)
    BY <1>1, <1>2, ManagerFacts DEF Basis, BuiltInv
  <2>2. n \in Nat /\ Len(s) \in Nat /\ DOMAIN s = 1 .. Len(s)
    BY <2>1
  <2>3. \A a, b \in 1 .. Len(s) : s[a].key = s[b].key => a = b
    BY <2>1, KeysOnce
  <2> QED BY <2>1, <2>2, <2>3, ManagerFacts
<1>5. /\ n <= Len(s) /\ \A a \in 1 .. n : file[a] = Pair(s[a])
      /\ pos = IF n = Len(s) THEN NoNode ELSE s[n + 1].node
      /\ SameData /\ \A i \in Threads : view[i].pending = <<>>
  BY <1>1, <1>2 DEF WriteInv
<1> HIDE DEF s, n
<1>6. n = Len(s)
  <2>1. CASE n # Len(s)
    <3>0. n \in Nat /\ Len(s) \in Nat /\ n <= Len(s)
      BY <1>4, <1>5
    <3>1. n + 1 \in 1 .. Len(s)
      BY <2>1, <3>0
    <3>2. s[n + 1] \in Entries
      BY <1>4, <3>1
    <3> QED BY <1>1, <1>5, <2>1, <3>2 DEF Entries
  <2> QED BY <2>1
<1>7. \A a, b \in 1 .. n : file[a].key = file[b].key => a = b
  <2> TAKE a, b \in 1 .. n
  <2>1. file[a] = Pair(s[a]) /\ file[b] = Pair(s[b])
    BY <1>5
  <2>2. file[a].key = s[a].key /\ file[b].key = s[b].key
    BY <2>1 DEF Pair
  <2> QED BY <1>4, <1>6, <2>2
<1>8. ASSUME NEW i \in Threads PROVE Current(i, view[i].pending)
  <2> DEFINE t == view[i].data
  <2>1. t \in Seq(Entries) /\ view[i].capacity = Size
    BY <1>1, <1>2, ManagerFacts DEF BuiltInv
  <2>2. PairsOf(t) = PairsOf(s)
    BY <1>5 DEF SameData, s
  <2> HIDE DEF t
  <2>3. Len(t) = n /\ \A a \in 1 .. n : Pair(t[a]) = file[a]
    <3>1. DOMAIN t = 1 .. Len(t) /\ Len(t) \in Nat
      BY <2>1
    <3>2. PairsOf(t) = [a \in 1 .. Len(t) |-> Pair(t[a])] /\ PairsOf(s) = [a \in 1 .. n |-> Pair(s[a])]
      BY <1>4, <1>6, <3>1 DEF PairsOf
    <3>3. 1 .. Len(t) = 1 .. n
      BY <2>2, <3>2
    <3>4. Len(t) = n
      <4>1. \A x, y \in Nat : x < y => y \in 1 .. y /\ y \notin 1 .. x
        OBVIOUS
      <4>2. \A x, y \in Nat : 1 .. x = 1 .. y => ~(x < y) /\ ~(y < x)
        BY <4>1
      <4>3. Len(t) \in Nat /\ n \in Nat
        BY <1>4, <3>1
      <4>4. ~(Len(t) < n) /\ ~(n < Len(t))
        BY <3>3, <4>2, <4>3
      <4> QED BY <4>3, <4>4
    <3>5. \A a \in 1 .. n : Pair(t[a]) = Pair(s[a])
      BY <2>2, <3>2, <3>3
    <3> QED BY <1>5, <3>4, <3>5
  <2>4. \A a \in 1 .. n : t[a].key = file[a].key /\ t[a].val = file[a].val
    <3> TAKE a \in 1 .. n
    <3>1. file[a] = Pair(t[a])
      BY <2>3
    <3> QED BY <3>1 DEF Pair
  <2>5. Limit(view[i]) = Kept
    BY <2>1, <2>3 DEF Limit, Kept, t, n
  <2>6. n <= Kept
    BY <1>4 DEF Kept, n
  <2>7. Shows(t, Kept, file)
    BY <1>4, <1>7, <2>3, <2>4, <2>6, ShowsItself DEF n
  <2>8. <<>> \o file = file
    BY <1>4, ConcatEmptySeq
  <2> QED BY <1>5, <2>5, <2>7, <2>8 DEF Current, t
<1>9. IdleInv'
  <2>1. \A i \in Threads : Current(i, view[i].pending)'
    <3> TAKE i \in Threads
    <3>1. view'[i].pending = view[i].pending
      BY <1>1
    <3> QED BY <1>1, <1>3, <1>8, <3>1 DEF Current
  <2> QED BY <1>3, <2>1 DEF IdleInv
<1> QED BY <1>1, <1>3, <1>9 DEF SyncInv, MergeInv, UpdateInv, ClearInv, WriteInv

LEMMA SyncStep == ManagerInv /\ SyncInv /\ [Next]_vars => SyncInv'
<1> SUFFICES ASSUME ManagerInv, SyncInv, [Next]_vars PROVE SyncInv'
  OBVIOUS
<1>1. ManagerInv'
  BY ManagerStep
<1>2. CASE updateCache
  <2>1. CASE disturbed
    <3>1. disturbed'
      BY <1>2, <2>1 DEF updateCache, StartUpdate, MergeOne, DropOne, MergeNext, MergeEnd, UpdateOne, Replay,
                        UpdateNext, UpdateEnd, ClearOne, OpenFile, WriteLine, CloseFile, historyVars
    <3> QED BY <3>1 DEF SyncInv
  <2>2. CASE disturbed'
    BY <2>2 DEF SyncInv
  <2>3. CASE ~disturbed /\ ~disturbed'
    BY <1>1, <1>2, <2>3, SyncStartUpdate, SyncMergeOne, SyncDropOne, SyncMergeNext, SyncMergeEnd, SyncUpdateOne,
       SyncUpdateNext, SyncUpdateEnd, SyncClearOne, SyncOpenFile, SyncWriteLine, SyncCloseFile DEF updateCache
  <2> QED BY <2>1, <2>2, <2>3
<1>3. CASE UNCHANGED vars
  <2>1. UNCHANGED <<caches, calls, file, stage, at, pos, disturbed>>
    BY <1>3 DEF vars, timerVars, historyVars
  <2>2. Threads' = Threads /\ view' = view
    BY <2>1 DEF Threads, view
  <2> QED BY <2>1, <2>2, SameCaches
<1>4. CASE \E n \in Sizes : Start(n)
  BY <1>1, <1>4, SyncStart
<1>5. CASE \E w \in Threads : threadTask(w)
  BY <1>5, SyncWorker
<1>6. CASE Crash
  BY <1>6, SyncCrash
<1>7. CASE \E t \in Callers : CallStep(t)
  BY <1>7, SyncCall
<1> QED BY <1>2, <1>3, <1>4, <1>5, <1>6, <1>7 DEF Next

\* Between updates that no worker disturbed, a cache no call is inside holds
\* what the backup holds as changed by the uses it has yet to make known,
\* however many threads there are, whatever they use, wherever in a call each
\* of the others is, and whatever backup the process started from.
THEOREM BackupAndUses == Spec => []FileAndPending
<1>1. ASSUME ManagerInv, SyncInv PROVE FileAndPending
  <2> SUFFICES ASSUME stage = "idle", ~disturbed, NEW i \in Threads, ~Inside(i)
               PROVE  PairsOf(caches[i].data) = Recent(Kept, caches[i].pending \o file)
    BY DEF FileAndPending
  <2>1. view[i] = caches[i]
    <3>1. calls[Timer].step = "none" /\ calls[i].step = "none"
      BY <1>1, TimerRests DEF Inside
    <3> QED BY <3>1, ShownAtRest DEF view
  <2>2. Current(i, view[i].pending) /\ view[i].pending \in Seq(Pairs)
    BY <1>1, ManagerFacts DEF SyncInv, IdleInv
  <2> DEFINE s == view[i].data
             all == view[i].pending \o file
  <2>3. Kept \in Nat /\ s \in Seq(Entries) /\ file \in Seq(Pairs)
    BY <1>1, ManagerFacts
  <2>4. all \in Seq(Pairs) /\ Shows(s, Kept, all)
    BY <2>2, <2>3, ConcatPairs DEF Current
  <2> HIDE DEF s, all
  <2>5. PairsOf(s) = Recent(Kept, all)
    BY <2>3, <2>4, ShownIsRecent
  <2> QED BY <2>1, <2>5 DEF s, all
<1> QED BY <1>1, ManagerInit, ManagerStep, SyncInit, SyncStep, PTL DEF Spec

\* When an update no worker disturbed has gone through all the caches, each of
\* them holds the backup as changed by the uses of all the workers.
THEOREM UpdateAppliesAll == Spec => []AllUsesApplied
<1>1. ASSUME ManagerInv, SyncInv PROVE AllUsesApplied
  <2> SUFFICES ASSUME stage = "clear", at = 0, ~disturbed
               PROVE  \A i \in Threads : PairsOf(caches[i].data) = Recent(Kept, Base.pending \o file)
    BY DEF AllUsesApplied
  <2>1. \A i \in Threads : Current(i, Basis.pending)
    BY <1>1 DEF SyncInv, ClearInv
  <2>2. Basis.pending \in Seq(Pairs)
    BY <1>1, ManagerFacts DEF Basis
  <2>3. \A i \in Threads : PairsOf(view[i].data) = Recent(Kept, Basis.pending \o file)
    BY <1>1, <2>1, <2>2, CurrentAreSame
  <2>4. \A t \in Callers : ~Inside(t)
    BY <1>1, TimerRests DEF ManagerInv, RacedInv, Callers
  <2>5. view = caches
    BY <1>1, <2>4, Bare
  <2> QED BY <2>3, <2>5 DEF Basis, Base
<1> QED BY <1>1, ManagerInit, ManagerStep, SyncInit, SyncStep, PTL DEF Spec
=============================================================================
