------------------------------ MODULE LRUCache ------------------------------
(***************************************************************************)
(* The class LRUCache: a list of entries, most recently used first, an      *)
(* index from keys to list nodes, and the list of the uses that the other    *)
(* caches have not seen.  A cache is a record; each operation below is the   *)
(* method of the same name.                                                 *)
(*                                                                          *)
(* The index holds iterators, so a node of the list has an identity: a       *)
(* number that no other node of this list has, and that a later node may be  *)
(* given when the node is freed.  Keys and values are words without blanks   *)
(* (the client removes them from a query, an answer is compact JSON), so a   *)
(* line of the file is read back as the pair it was written from.           *)
(***************************************************************************)
EXTENDS Integers, FiniteSets, SequencesExt

CONSTANTS
  Keys,           \* the queries
  Vals            \* the answers

NoNode == 0       \* a key that is not in _hashmap

Pairs == [key : Keys, val : Vals]
Entries == [key : Keys, val : Vals, node : Nat \ {NoNode}]
Pair(e) == [key |-> e.key, val |-> e.val]
PairsOf(s) == [i \in DOMAIN s |-> Pair(s[i])]

NewCache(capacity) ==
  [capacity |-> capacity, data |-> <<>>, hash |-> [k \in Keys |-> NoNode],
   pending |-> <<>>]

-----------------------------------------------------------------------------
(* Faulty variants, each a bug this code could have; used by no definition. *)

\* pop_back without _hashmap.erase.
EvictKeepsIndex(c) ==
  IF Len(c.data) > c.capacity THEN [c EXCEPT !.data = Front(c.data)] ELSE c

\* get returns the element where it is.
GetLeavesInPlace(c, k) ==
  IF c.hash[k] = NoNode THEN c
  ELSE LET e == c.data[CHOOSE i \in DOMAIN c.data : c.data[i].node = c.hash[k]]
       IN  [c EXCEPT !.pending = <<Pair(e)>> \o c.pending]

-----------------------------------------------------------------------------
Found(c, k) == c.hash[k] # NoNode               \* keyExist(key) # end()
Place(c, n) == CHOOSE i \in DOMAIN c.data : c.data[i].node = n
At(c, n) == c.data[Place(c, n)]

\* The number of a node that list::push_front and emplace_front allocate.
FreshNode(data) ==
  CHOOSE n \in 1 .. Len(data) + 1 : \A i \in DOMAIN data : data[i].node # n

HasNode(c, n) == \E i \in DOMAIN c.data : c.data[i].node = n
EraseNode(c, n) == [c EXCEPT !.data = RemoveAt(c.data, Place(c, n))]

EmplaceFront(c, k, v) ==
  [c EXCEPT !.data = <<[key |-> k, val |-> v, node |-> FreshNode(c.data)]>> \o c.data]

\* _hashmap[key] = _cachedData.begin(), which is end() of an empty list.
IndexFront(c, k) ==
  [c EXCEPT !.hash[k] = IF c.data = <<>> THEN NoNode ELSE Head(c.data).node]

Unindex(c, k) == [c EXCEPT !.hash[k] = NoNode]
PopBack(c) == [c EXCEPT !.data = Front(c.data)]

Evict(c) ==
  IF Len(c.data) > c.capacity THEN PopBack(Unindex(c, Last(c.data).key)) ELSE c

Record(c, p) == [c EXCEPT !.pending = <<p>> \o c.pending]

\* The cache after get(key); a key that is not found changes nothing.
get(c, k) ==
  IF ~Found(c, k) THEN c
  ELSE LET e == At(c, c.hash[k])
           moved == EmplaceFront(EraseNode(c, e.node), e.key, e.val)
       IN  Record(IndexFront(moved, e.key), Pair(e))

put(c, k, v, update) ==
  LET placed == IF Found(c, k) THEN EmplaceFront(EraseNode(c, c.hash[k]), k, v)
                ELSE Evict(EmplaceFront(c, k, v))
      indexed == IndexFront(placed, k)
  IN  IF update THEN indexed ELSE Record(indexed, [key |-> k, val |-> v])

\* Every line is appended, then the index is built front to back.
readFromFile(c, lines) ==
  LET nodes == [i \in DOMAIN lines |-> [key |-> lines[i].key,
                                        val |-> lines[i].val, node |-> i]]
      at(k) == {i \in DOMAIN lines : lines[i].key = k}
  IN  [c EXCEPT !.data = nodes,
                !.hash = [k \in Keys |-> IF at(k) = {} THEN NoNode ELSE Max(at(k))]]

clearPendingList(c) == [c EXCEPT !.pending = <<>>]

-----------------------------------------------------------------------------
(* What a cache is, whatever calls were made on it.                         *)

CacheType(c) ==
  c \in [capacity : Nat \ {0}, data : Seq(Entries), hash : [Keys -> Nat], pending : Seq(Pairs)]

\* The index never holds an iterator of a node that was freed, or of a node
\* of another key, and no two nodes are the same.
IndexIsSafe(c) ==
  /\ \A i, j \in DOMAIN c.data : c.data[i].node = c.data[j].node => i = j
  /\ \A k \in Keys : Found(c, k) =>
       \E i \in DOMAIN c.data : c.data[i].node = c.hash[k] /\ c.data[i].key = k

\* Every entry of the list is found through the index.
IndexIsComplete(c) ==
  \A i \in DOMAIN c.data : c.hash[c.data[i].key] = c.data[i].node

=============================================================================
