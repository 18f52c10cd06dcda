-------------------------- MODULE SingleCacheProofs --------------------------
(***************************************************************************)
(* Proofs about SingleCache, for every set of keys and values, every capacity *)
(* and every backup: the index is exact, and the cache is a recency list.     *)
(***************************************************************************)
EXTENDS SingleCache, LRUCacheProofs

\* IndexExact with the types, which is inductive.
CacheInv == Sound(cache) /\ IndexIsComplete(cache) /\ cache.capacity = Capacity

LEMMA BackupFacts ==
  ASSUME NEW lines \in Backups
  PROVE  lines \in Seq(Pairs) /\ \A i, j \in 1 .. Len(lines) : lines[i].key = lines[j].key => i = j
<1>1. PICK n \in 0 .. MaxBackup : lines \in [1 .. n -> Pairs]
  BY DEF Backups
<1>2. lines \in Seq(Pairs) /\ Len(lines) = n
  BY <1>1, SingleCacheAssumption
<1> QED BY <1>1, <1>2 DEF Backups

LEMMA CacheInit == Init => CacheInv
<1> SUFFICES ASSUME Init PROVE CacheInv
  OBVIOUS
<1>1. PICK lines \in Backups : cache = readFromFile(NewCache(Capacity), lines)
  BY DEF Init
<1> HIDE DEF Backups
<1> QED BY <1>1, BackupFacts, ReadFacts, SingleCacheAssumption DEF CacheInv

LEMMA CacheStep == CacheInv /\ [Next]_vars => CacheInv'
<1> SUFFICES ASSUME CacheInv, [Next]_vars PROVE CacheInv'
  OBVIOUS
<1>1. ASSUME NEW k \in Keys, Get(k) PROVE CacheInv'
  <2>1. cache' = get(cache, k)
    BY <1>1 DEF Get
  <2> QED BY <2>1, GetFacts DEF CacheInv
<1>2. ASSUME NEW k \in Keys, NEW v \in Vals, NEW u \in BOOLEAN, Put(k, v, u) PROVE CacheInv'
  <2>1. cache' = put(cache, k, v, u)
    BY <1>2 DEF Put
  <2>2. /\ Sound(put(cache, k, v, u))
        /\ IndexIsComplete(cache) => IndexIsComplete(put(cache, k, v, u))
        /\ put(cache, k, v, u).capacity = cache.capacity
    BY PutFacts DEF CacheInv
  <2> QED BY <2>1, <2>2 DEF CacheInv
<1>3. CASE Clear
  <2>1. cache' = [cache EXCEPT !.pending = <<>>] /\ <<>> \in Seq(Pairs)
    BY <1>3 DEF Clear, clearPendingList
  <2> QED BY <2>1, ClearFacts DEF CacheInv
<1>4. CASE UNCHANGED vars
  BY <1>4 DEF vars, CacheInv
<1> QED BY <1>1, <1>2, <1>3, <1>4 DEF Next

\* Every entry of the list is found through the index, and the index leads to
\* nothing else, whatever the backup held.
THEOREM IndexIsExact == Spec => []IndexExact
<1>1. CacheInv => IndexExact
  BY DEF CacheInv, Sound, IndexExact
<1> QED BY <1>1, CacheInit, CacheStep, PTL DEF Spec

-----------------------------------------------------------------------------
(* The refinement.                                                          *)

LEMMA PairsOfFacts ==
  ASSUME NEW s \in Seq(Entries)
  PROVE  /\ PairsOf(s) \in Seq(Pairs) /\ Len(PairsOf(s)) = Len(s)
         /\ \A i \in 1 .. Len(s) : PairsOf(s)[i] = Pair(s[i])
<1> DEFINE n == Len(s)
           t == [i \in 1 .. n |-> Pair(s[i])]
<1>1. n \in Nat /\ DOMAIN s = 1 .. n /\ \A i \in 1 .. n : s[i] \in Entries
  OBVIOUS
<1>2. \A i \in 1 .. n : Pair(s[i]) \in Pairs
  BY <1>1 DEF Pair, Pairs, Entries
<1>3. PairsOf(s) = t
  BY <1>1 DEF PairsOf
<1>4. t \in [1 .. n -> Pairs] /\ \A i \in 1 .. n : t[i] = Pair(s[i])
  BY <1>2
<1>5. t \in Seq(Pairs) /\ Len(t) = n
  <2> HIDE DEF t
  <2> QED BY <1>1, <1>4
<1> QED BY <1>3, <1>4, <1>5

\* Keys are not repeated.
LEMMA KeysDistinct ==
  ASSUME CacheInv, NEW i \in 1 .. Len(cache.data), NEW j \in 1 .. Len(cache.data),
         cache.data[i].key = cache.data[j].key
  PROVE  i = j
<1>1. /\ cache.data \in Seq(Entries) /\ DOMAIN cache.data = 1 .. Len(cache.data)
      /\ cache.hash[cache.data[i].key] = cache.data[i].node
      /\ cache.hash[cache.data[j].key] = cache.data[j].node
  BY DEF CacheInv, Sound, CacheType, IndexIsComplete
<1> QED BY <1>1 DEF CacheInv, Sound, IndexIsSafe

\* Moving an entry to the front is a use of its pair.
LEMMA MoveIsUse ==
  ASSUME CacheInv, NEW p \in 1 .. Len(cache.data), NEW e \in Entries, e.key = cache.data[p].key,
         NEW limit \in Nat, Len(cache.data) <= limit
  PROVE  PairsOf(<<e>> \o RemoveAt(cache.data, p)) = Recency!UseOf(PairsOf(cache.data), limit, Pair(e))
<1> DEFINE s == cache.data
           l == PairsOf(s)
           n == Len(s)
           r == RemoveAt(s, p)
           q == RemoveAt(l, p)
<1>1. s \in Seq(Entries) /\ n \in Nat
  BY DEF CacheInv, Sound, CacheType
<1>2. l \in Seq(Pairs) /\ Len(l) = n /\ DOMAIN l = 1 .. n /\ \A i \in 1 .. n : l[i] = Pair(s[i])
  BY <1>1, PairsOfFacts
<1>3. \A i \in 1 .. n : l[i].key = s[i].key
  <2>1. \A x : Pair(x).key = x.key
    BY DEF Pair
  <2> HIDE DEF l, s, n
  <2> QED BY <1>2, <2>1
<1>4. Recency!Without(l, Pair(e).key) = q
  <2>1. Pair(e).key = s[p].key
    BY DEF Pair
  <2>2. \A i \in 1 .. n : l[i].key = Pair(e).key => i = p
    BY <1>3, <2>1, KeysDistinct
  <2>3. p \in 1 .. n /\ l[p].key = Pair(e).key
    BY <1>3, <2>1
  <2> HIDE DEF l, s, n
  <2>4. (CHOOSE i \in DOMAIN l : l[i].key = Pair(e).key) = p
    BY <1>2, <2>2, <2>3
  <2> QED BY <1>2, <2>3, <2>4 DEF Recency!Without, Recency!RemoveAt, RemoveAt
<1>5. /\ r \in Seq(Entries) /\ Len(r) = n - 1
      /\ \A i \in 1 .. n - 1 : r[i] = IF i < p THEN s[i] ELSE s[i + 1]
  BY <1>1, RemoveFacts
<1>6. /\ q \in Seq(Pairs) /\ Len(q) = n - 1
      /\ \A i \in 1 .. n - 1 : q[i] = IF i < p THEN l[i] ELSE l[i + 1]
  <2>1. p \in 1 .. Len(l)
    BY <1>2
  <2> HIDE DEF l
  <2>2. /\ RemoveAt(l, p) \in Seq(Pairs) /\ Len(RemoveAt(l, p)) = Len(l) - 1
        /\ \A i \in 1 .. Len(l) - 1 : RemoveAt(l, p)[i] = IF i < p THEN l[i] ELSE l[i + 1]
    BY <1>2, <2>1, RemoveFacts
  <2> QED BY <1>2, <2>2
<1>7. \A i \in 1 .. n - 1 : q[i] = Pair(r[i])
  BY <1>1, <1>2, <1>5, <1>6
<1>8. Pair(e) \in Pairs
  BY DEF Pair, Pairs, Entries
<1> DEFINE a == <<e>> \o r
           b == <<Pair(e)>> \o q
<1> HIDE DEF s, l, r, q
<1>9. /\ a \in Seq(Entries) /\ Len(a) = n /\ a[1] = e
      /\ \A i \in 1 .. n - 1 : a[i + 1] = r[i]
  <2>1. /\ a \in Seq(Entries) /\ Len(a) = Len(r) + 1 /\ a[1] = e
        /\ \A i \in 1 .. Len(r) : a[i + 1] = r[i]
    BY <1>5, ConsFacts
  <2> QED BY <1>1, <1>5, <2>1
<1>10. /\ b \in Seq(Pairs) /\ Len(b) = n /\ b[1] = Pair(e)
       /\ \A i \in 1 .. n - 1 : b[i + 1] = q[i]
  <2>1. /\ b \in Seq(Pairs) /\ Len(b) = Len(q) + 1 /\ b[1] = Pair(e)
        /\ \A i \in 1 .. Len(q) : b[i + 1] = q[i]
    BY <1>6, <1>8, ConsFacts
  <2> QED BY <1>1, <1>6, <2>1
<1> HIDE DEF a, b
<1>11. PairsOf(a) \in Seq(Pairs) /\ Len(PairsOf(a)) = n /\ \A i \in 1 .. n : PairsOf(a)[i] = Pair(a[i])
  <2>1. PairsOf(a) \in Seq(Pairs) /\ Len(PairsOf(a)) = Len(a) /\ \A i \in 1 .. Len(a) : PairsOf(a)[i] = Pair(a[i])
    BY <1>9, PairsOfFacts
  <2> QED BY <1>9, <2>1
<1>12. ASSUME NEW i \in 1 .. n PROVE PairsOf(a)[i] = b[i]
  <2>1. CASE i = 1
    BY <1>9, <1>10, <1>11, <2>1
  <2>2. CASE i # 1
    <3>1. i - 1 \in 1 .. n - 1 /\ (i - 1) + 1 = i
      BY <1>1, <2>2
    <3>2. a[i] = r[i - 1] /\ b[i] = q[i - 1]
      BY <1>9, <1>10, <3>1
    <3> QED BY <1>7, <1>11, <3>1, <3>2
  <2> QED BY <2>1, <2>2
<1>13. PairsOf(a) = b
  <2> DEFINE x == PairsOf(a)
  <2>1. x \in Seq(Pairs) /\ Len(x) = Len(b) /\ \A i \in 1 .. Len(x) : x[i] = b[i]
    BY <1>10, <1>11, <1>12
  <2> HIDE DEF x
  <2>2. x = b
    BY <1>10, <2>1, SeqEqual
  <2> QED BY <2>2 DEF x
<1>14. Recency!UseOf(l, limit, Pair(e)) = b
  <2>1. Recency!UseOf(l, limit, Pair(e)) = Recency!Take(limit, b)
    BY <1>4 DEF Recency!UseOf, b
  <2>2. Recency!Take(limit, b) = SubSeq(b, 1, Len(b))
    BY <1>1, <1>10 DEF Recency!Take, n, s
  <2>3. SubSeq(b, 1, Len(b)) = b
    BY <1>10, SubSeqFull
  <2> QED BY <2>1, <2>2, <2>3
<1> QED BY <1>13, <1>14 DEF a, r, l, s

\* A new entry in front is a use of its pair, and drops the last when full.
LEMMA InsertIsUse ==
  ASSUME CacheInv, NEW k \in Keys, ~Found(cache, k), NEW e \in Entries, e.key = k,
         NEW limit \in Nat, limit = IF Capacity < Len(cache.data) THEN Len(cache.data) ELSE Capacity
  PROVE  LET a == IF Len(cache.data) < Capacity THEN <<e>> \o cache.data ELSE Front(<<e>> \o cache.data)
         IN  /\ PairsOf(a) = Recency!UseOf(PairsOf(cache.data), limit, Pair(e))
             /\ limit = IF Capacity < Len(a) THEN Len(a) ELSE Capacity
<1> DEFINE s == cache.data
           l == PairsOf(s)
           n == Len(s)
           m == IF n < Capacity THEN n + 1 ELSE n
           t == <<e>> \o s
           a == IF n < Capacity THEN t ELSE Front(t)
           b == <<Pair(e)>> \o l
<1>1. s \in Seq(Entries) /\ n \in Nat /\ DOMAIN s = 1 .. n /\ Capacity \in Nat \ {0}
  BY SingleCacheAssumption DEF CacheInv, Sound, CacheType
<1>2. l \in Seq(Pairs) /\ Len(l) = n /\ DOMAIN l = 1 .. n /\ \A i \in 1 .. n : l[i] = Pair(s[i])
  BY <1>1, PairsOfFacts
<1>3. Pair(e) \in Pairs /\ Pair(e).key = k /\ \A x : Pair(x).key = x.key
  BY DEF Pair, Pairs, Entries
<1>4. ASSUME NEW i \in 1 .. n PROVE l[i].key # k
  <2>1. s[i] \in Entries /\ cache.hash[s[i].key] = s[i].node
    BY <1>1 DEF CacheInv, IndexIsComplete
  <2>2. s[i].key # k
    BY <2>1 DEF Found, Entries
  <2> HIDE DEF l, s, n
  <2> QED BY <1>2, <1>3, <2>2
<1> HIDE DEF l, s, n
<1>5. Recency!Without(l, Pair(e).key) = l
  BY <1>2, <1>3, <1>4 DEF Recency!Without
<1>6. /\ b \in Seq(Pairs) /\ Len(b) = n + 1 /\ b[1] = Pair(e)
      /\ \A i \in 1 .. n : b[i + 1] = l[i]
  BY <1>2, <1>3, ConsFacts
<1>7. /\ t \in Seq(Entries) /\ Len(t) = n + 1 /\ t[1] = e
      /\ \A i \in 1 .. n : t[i + 1] = s[i]
  BY <1>1, ConsFacts DEF n
<1> HIDE DEF b, t
<1>8. \A i \in 1 .. n + 1 : b[i] = Pair(t[i])
  <2> TAKE i \in 1 .. n + 1
  <2>1. CASE i = 1
    BY <1>6, <1>7, <2>1
  <2>2. CASE i # 1
    <3>1. i - 1 \in 1 .. n /\ (i - 1) + 1 = i
      BY <1>1, <2>2
    <3> QED BY <1>2, <1>6, <1>7, <3>1
  <2> QED BY <2>1, <2>2
<1>9. m \in 1 .. n + 1
  BY <1>1
<1>10. /\ a \in Seq(Entries) /\ Len(a) = m /\ \A i \in 1 .. m : a[i] = t[i]
  <2>1. CASE n < Capacity
    BY <1>7, <2>1
  <2>2. CASE ~(n < Capacity)
    <3>1. Len(t) > 0
      BY <1>1, <1>7
    <3>2. /\ Front(t) \in Seq(Entries) /\ Len(Front(t)) = Len(t) - 1
          /\ \A i \in 1 .. Len(t) - 1 : Front(t)[i] = t[i]
      BY <1>7, <3>1, FrontFacts
    <3>3. a = Front(t) /\ m = n /\ Len(t) - 1 = n
      BY <1>1, <1>7, <2>2
    <3> HIDE DEF a, m
    <3> QED BY <3>2, <3>3
  <2> QED BY <2>1, <2>2
<1>11. Recency!UseOf(l, limit, Pair(e)) = SubSeq(b, 1, m)
  <2>1. Recency!UseOf(l, limit, Pair(e)) = Recency!Take(limit, b)
    BY <1>5 DEF Recency!UseOf, b
  <2>2. (IF limit < Len(b) THEN limit ELSE Len(b)) = m
    BY <1>1, <1>6 DEF n, s
  <2> QED BY <2>1, <2>2 DEF Recency!Take
<1> HIDE DEF a, m
<1>12. /\ SubSeq(b, 1, m) \in Seq(Pairs) /\ Len(SubSeq(b, 1, m)) = m
       /\ \A i \in 1 .. m : SubSeq(b, 1, m)[i] = b[i]
  <2>1. m \in Int /\ 1 <= m /\ m - 1 + 1 = m /\ \A i \in 1 .. m : 1 + i - 1 = i /\ i \in 1 .. n + 1
    BY <1>1, <1>9
  <2>2. \A i \in 1 .. m : b[i] \in Pairs
    BY <1>1, <1>6, <2>1
  <2>3. /\ SubSeq(b, 1, m) \in Seq(Pairs)
        /\ Len(SubSeq(b, 1, m)) = IF 1 <= m THEN m - 1 + 1 ELSE 0
        /\ \A i \in 1 .. m - 1 + 1 : SubSeq(b, 1, m)[i] = b[1 + i - 1]
    BY <2>1, <2>2, SubSeqProperties
  <2> QED BY <2>1, <2>3
<1>13. PairsOf(a) \in Seq(Pairs) /\ Len(PairsOf(a)) = m /\ \A i \in 1 .. m : PairsOf(a)[i] = Pair(a[i])
  <2>1. PairsOf(a) \in Seq(Pairs) /\ Len(PairsOf(a)) = Len(a) /\ \A i \in 1 .. Len(a) : PairsOf(a)[i] = Pair(a[i])
    BY <1>10, PairsOfFacts
  <2> QED BY <1>10, <2>1
<1>14. PairsOf(a) = SubSeq(b, 1, m)
  <2> DEFINE x == PairsOf(a)
             y == SubSeq(b, 1, m)
  <2>1. \A i \in 1 .. m : Pair(a[i]) = b[i]
    BY <1>1, <1>8, <1>9, <1>10
  <2>2. x \in Seq(Pairs) /\ y \in Seq(Pairs) /\ Len(x) = Len(y) /\ \A i \in 1 .. Len(x) : x[i] = y[i]
    BY <1>12, <1>13, <2>1
  <2> HIDE DEF x, y
  <2>3. x = y
    BY <2>2, SeqEqual
  <2> QED BY <2>3 DEF x, y
<1>15. limit = IF Capacity < Len(a) THEN Len(a) ELSE Capacity
  <2>1. Len(a) = m
    BY <1>10
  <2> QED BY <1>1, <2>1 DEF m, n, s
<1> QED BY <1>11, <1>14, <1>15 DEF a, m, t, s, l, n

\* The limit of a cache as a recency list.
Limit == IF Capacity < Len(cache.data) THEN Len(cache.data) ELSE Capacity

LEMMA RecencyStep == CacheInv /\ [Next]_vars => [Recency!Next]_<<PairsOf(cache.data), Limit, answer>>
<1> SUFFICES ASSUME CacheInv, [Next]_vars
             PROVE  Recency!Next \/ UNCHANGED <<PairsOf(cache.data), Limit, answer>>
  OBVIOUS
<1> DEFINE s == cache.data
           l == PairsOf(s)
           n == Len(s)
<1>1. /\ s \in Seq(Entries) /\ n \in Nat /\ DOMAIN s = 1 .. n /\ Capacity \in Nat \ {0}
      /\ Limit \in Nat /\ n <= Limit
  BY SingleCacheAssumption DEF CacheInv, Sound, CacheType, Limit
<1>2. l \in Seq(Pairs) /\ Len(l) = n /\ DOMAIN l = 1 .. n /\ \A i \in 1 .. n : l[i] = Pair(s[i])
  BY <1>1, PairsOfFacts
<1>3. ASSUME NEW k \in Keys, Get(k) PROVE Recency!Get(k)
  <2>1. /\ cache' = get(cache, k)
        /\ answer' = IF Found(cache, k) THEN <<At(cache, cache.hash[k]).val>> ELSE <<>>
    BY <1>3 DEF Get
  <2>2. CASE ~Found(cache, k)
    <3>1. cache' = cache /\ answer' = <<>>
      BY <2>1, <2>2, GetFacts DEF CacheInv
    <3>2. ASSUME NEW i \in 1 .. n PROVE l[i].key # k
      <4>1. s[i] \in Entries /\ cache.hash[s[i].key] = s[i].node
        BY <1>1 DEF CacheInv, IndexIsComplete
      <4>2. s[i].key # k
        BY <2>2, <4>1 DEF Found, Entries
      <4>3. \A x : Pair(x).key = x.key
        BY DEF Pair
      <4> HIDE DEF l, s, n
      <4> QED BY <1>2, <4>2, <4>3
    <3> QED BY <1>2, <3>1, <3>2 DEF Recency!Get
  <2>3. CASE Found(cache, k)
    <3> DEFINE p == Place(cache, cache.hash[k])
    <3>1. p \in 1 .. n /\ s[p].key = k
      BY <2>3, PlaceFacts DEF CacheInv
    <3>2. PICK e \in Entries : /\ e.key = k /\ e.val = s[p].val
                               /\ cache'.data = <<e>> \o RemoveAt(s, p)
      BY <2>1, <2>3, GetFacts DEF CacheInv
    <3>3. answer' = <<s[p].val>>
      BY <2>1, <2>3 DEF At
    <3> HIDE DEF p
    <3>4. Pair(e) = Pair(s[p]) /\ l[p] = Pair(s[p]) /\ l[p].key = k /\ l[p].val = s[p].val
      BY <1>2, <3>1, <3>2 DEF Pair
    <3>5. PairsOf(cache.data)' = Recency!UseOf(l, Limit, l[p])
      <4>1. PairsOf(<<e>> \o RemoveAt(s, p)) = Recency!UseOf(l, Limit, Pair(e))
        BY <1>1, <3>1, <3>2, MoveIsUse
      <4> QED BY <3>2, <3>4, <4>1
    <3>6. Limit' = Limit
      <4>1. Len(cache'.data) = n
        <5>1. RemoveAt(s, p) \in Seq(Entries) /\ Len(RemoveAt(s, p)) = n - 1
          BY <1>1, <3>1, RemoveFacts
        <5>2. Len(<<e>> \o RemoveAt(s, p)) = n - 1 + 1
          BY <5>1, ConsFacts
        <5> QED BY <1>1, <3>2, <5>2
      <4> QED BY <4>1 DEF Limit
    <3>7. p \in DOMAIN l
      BY <1>2, <3>1
    <3> HIDE DEF l
    <3> QED BY <3>3, <3>4, <3>5, <3>6, <3>7 DEF Recency!Get, Limit, l
  <2> QED BY <2>2, <2>3
<1>4. ASSUME NEW k \in Keys, NEW v \in Vals, NEW u \in BOOLEAN, Put(k, v, u) PROVE Recency!Put(k, v)
  <2>1. cache' = put(cache, k, v, u) /\ answer' = answer
    BY <1>4 DEF Put
  <2>2. PICK e \in Entries :
          /\ e.key = k /\ e.val = v
          /\ cache'.data = IF Found(cache, k) THEN <<e>> \o RemoveAt(s, Place(cache, cache.hash[k]))
                           ELSE IF n < Capacity THEN <<e>> \o s ELSE Front(<<e>> \o s)
    <3>1. Sound(cache) /\ cache.capacity = Capacity
      BY DEF CacheInv
    <3>2. \E e \in Entries :
            /\ e.key = k /\ e.val = v
            /\ put(cache, k, v, u).data =
                 IF Found(cache, k) THEN <<e>> \o RemoveAt(cache.data, Place(cache, cache.hash[k]))
                 ELSE IF Len(cache.data) < cache.capacity THEN <<e>> \o cache.data
                 ELSE Front(<<e>> \o cache.data)
      BY <3>1, PutFacts
    <3> QED BY <2>1, <3>1, <3>2
  <2>3. Pair(e) = [key |-> k, val |-> v]
    BY <2>2 DEF Pair
  <2>4. PairsOf(cache.data)' = Recency!UseOf(l, Limit, Pair(e)) /\ Limit' = Limit
    <3>1. CASE Found(cache, k)
      <4> DEFINE p == Place(cache, cache.hash[k])
      <4>1. p \in 1 .. n /\ s[p].key = k
        BY <3>1, PlaceFacts DEF CacheInv
      <4>2. cache'.data = <<e>> \o RemoveAt(s, p)
        BY <2>2, <3>1
      <4> HIDE DEF p
      <4>3. PairsOf(<<e>> \o RemoveAt(s, p)) = Recency!UseOf(l, Limit, Pair(e))
        BY <1>1, <2>2, <4>1, MoveIsUse
      <4>4. Len(cache'.data) = n
        <5>1. RemoveAt(s, p) \in Seq(Entries) /\ Len(RemoveAt(s, p)) = n - 1
          BY <1>1, <4>1, RemoveFacts
        <5>2. Len(<<e>> \o RemoveAt(s, p)) = n - 1 + 1
          BY <5>1, ConsFacts
        <5> QED BY <1>1, <4>2, <5>2
      <4> QED BY <4>2, <4>3, <4>4 DEF Limit
    <3>2. CASE ~Found(cache, k)
      <4> DEFINE a == IF n < Capacity THEN <<e>> \o s ELSE Front(<<e>> \o s)
      <4>1. cache'.data = a
        BY <2>2, <3>2
      <4>2. PairsOf(a) = Recency!UseOf(l, Limit, Pair(e)) /\ Limit = IF Capacity < Len(a) THEN Len(a) ELSE Capacity
        BY <1>1, <2>2, <3>2, InsertIsUse DEF Limit
      <4> HIDE DEF a
      <4> QED BY <4>1, <4>2 DEF Limit
    <3> QED BY <3>1, <3>2
  <2> QED BY <2>1, <2>3, <2>4 DEF Recency!Put, Limit
<1>5. CASE Clear
  <2>1. cache' = [cache EXCEPT !.pending = <<>>] /\ <<>> \in Seq(Pairs) /\ answer' = answer
    BY <1>5 DEF Clear, clearPendingList
  <2>2. cache'.data = cache.data
    BY <2>1, ClearFacts DEF CacheInv
  <2> QED BY <2>1, <2>2 DEF Limit
<1>6. CASE UNCHANGED vars
  BY <1>6 DEF vars, Limit
<1> QED BY <1>3, <1>4, <1>5, <1>6 DEF Next, Recency!Next

LEMMA RecencyInit == Init => Recency!Init
<1> SUFFICES ASSUME Init PROVE Recency!Init
  OBVIOUS
<1>1. CacheInv
  BY CacheInit
<1>2. /\ cache.data \in Seq(Entries) /\ Len(cache.data) \in Nat /\ Capacity \in Nat
  BY <1>1, SingleCacheAssumption DEF CacheInv, Sound, CacheType
<1> DEFINE l == PairsOf(cache.data)
<1>3. /\ l \in Seq(Pairs) /\ Len(l) = Len(cache.data) /\ DOMAIN l = 1 .. Len(cache.data)
      /\ \A i \in 1 .. Len(cache.data) : l[i] = Pair(cache.data[i])
  BY <1>2, PairsOfFacts
<1>4. ASSUME NEW i \in DOMAIN l, NEW j \in DOMAIN l, l[i].key = l[j].key PROVE i = j
  <2>1. \A x : Pair(x).key = x.key
    BY DEF Pair
  <2>2. i \in 1 .. Len(cache.data) /\ j \in 1 .. Len(cache.data) /\ cache.data[i].key = cache.data[j].key
    <3> HIDE DEF l
    <3> QED BY <1>3, <1>4, <2>1
  <2> QED BY <1>1, <2>2, KeysDistinct
<1>5. Limit \in Nat /\ Limit >= Len(l)
  BY <1>2, <1>3 DEF Limit
<1>6. answer = <<>>
  BY DEF Init
<1> HIDE DEF l
<1> QED BY <1>3, <1>4, <1>5, <1>6 DEF Recency!Init, l, Limit, Pairs

\* A cache behaves as a least-recently-used cache: its list, its index and its
\* capacity are a recency list, whatever the backup held.
THEOREM CacheIsRecencyList == Spec => ImplementsRecency
<1> QED BY RecencyInit, RecencyStep, CacheInit, CacheStep, PTL DEF Spec, ImplementsRecency, Recency!Spec, Limit
=============================================================================
