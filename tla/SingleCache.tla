---------------------------- MODULE SingleCache ----------------------------
(***************************************************************************)
(* One LRUCache under its operations, from any backup it may be built from:  *)
(* the file lists the entries of a cache whose capacity need not be this     *)
(* one's, because the capacity is THREAD_POOL_SIZE and the file outlives a   *)
(* change of the configuration.                                             *)
(***************************************************************************)
EXTENDS LRUCache

CONSTANTS
  Capacity,       \* THREAD_POOL_SIZE
  MaxBackup,      \* bound: lines of the backup file
  MaxPending      \* bound: uses not yet synchronised

ASSUME SingleCacheAssumption ==
  Capacity \in Nat \ {0} /\ MaxBackup \in Nat /\ MaxPending \in Nat

VARIABLES
  cache,
  answer          \* what the last get returned; <<>> for the empty string

vars == <<cache, answer>>

Backups ==
  {s \in UNION {[1 .. n -> Pairs] : n \in 0 .. MaxBackup} :
     \A i, j \in DOMAIN s : s[i].key = s[j].key => i = j}

Init ==
  /\ \E lines \in Backups : cache = readFromFile(NewCache(Capacity), lines)
  /\ answer = <<>>

Get(k) ==
  /\ Len(cache.pending) < MaxPending
  /\ cache' = get(cache, k)
  /\ answer' = IF Found(cache, k) THEN <<At(cache, cache.hash[k]).val>> ELSE <<>>

Put(k, v, update) ==
  /\ Len(cache.pending) < MaxPending
  /\ cache' = put(cache, k, v, update)
  /\ UNCHANGED answer

Clear ==
  /\ cache' = clearPendingList(cache)
  /\ UNCHANGED answer

Next ==
  \/ Clear
  \/ \E k \in Keys : Get(k) \/ \E v \in Vals, u \in BOOLEAN : Put(k, v, u)

Spec == Init /\ [][Next]_vars

-----------------------------------------------------------------------------
\* The index never holds an iterator of a freed node, and every entry of the
\* list can be found, so no key is ever there twice: erase, emplace_front and
\* pop_back are each matched by an update of _hashmap.
IndexExact == IndexIsSafe(cache) /\ IndexIsComplete(cache)

\* The list, the index and the capacity together are a recency list: get
\* returns the value last put, and the entry forgotten is the oldest one.
\* A cache built from a longer backup goes on as one of that length.
Recency == INSTANCE RecencyList WITH
  list <- PairsOf(cache.data),
  limit <- IF Capacity < Len(cache.data) THEN Len(cache.data) ELSE Capacity

ImplementsRecency == Recency!Spec
=============================================================================
