--------------------------- MODULE LRUCacheProofs ---------------------------
(***************************************************************************)
(* Lemmas about the methods of LRUCache, for every set of keys and values:    *)
(* each of them leaves a cache whose index is right.  SingleCacheProofs and   *)
(* CacheManagerProofs rest on them.                                          *)
(***************************************************************************)
EXTENDS LRUCache, SequenceTheorems, FiniteSetTheorems, WellFoundedInduction, TLAPS

\* A cache as every method leaves it.
Sound(c) == CacheType(c) /\ IndexIsSafe(c)

LEMMA RemoveFacts ==
  ASSUME NEW S, NEW s \in Seq(S), NEW k \in 1 .. Len(s)
  PROVE  /\ RemoveAt(s, k) \in Seq(S) /\ Len(RemoveAt(s, k)) = Len(s) - 1
         /\ \A i \in 1 .. Len(s) - 1 : RemoveAt(s, k)[i] = IF i < k THEN s[i] ELSE s[i + 1]
<1> DEFINE x == SubSeq(s, 1, k - 1)
           y == SubSeq(s, k + 1, Len(s))
<1>1. Len(s) \in Nat /\ k \in Nat \ {0} /\ k <= Len(s)
  OBVIOUS
<1>2. x \in Seq(S) /\ Len(x) = k - 1 /\ \A i \in 1 .. k - 1 : x[i] = s[i]
  <2>1. \A i \in 1 .. k - 1 : s[i] \in S
    BY <1>1
  <2> QED BY <1>1, <2>1, SubSeqProperties
<1>3. y \in Seq(S) /\ Len(y) = Len(s) - k /\ \A i \in 1 .. Len(s) - k : y[i] = s[k + i]
  <2>1. \A i \in k + 1 .. Len(s) : s[i] \in S
    BY <1>1
  <2>2. /\ y \in Seq(S) /\ Len(y) = Len(s) - k
        /\ \A i \in 1 .. Len(s) - (k + 1) + 1 : y[i] = s[k + 1 + i - 1]
    BY <1>1, <2>1, SubSeqProperties
  <2>3. \A i \in 1 .. Len(s) - k : i \in 1 .. Len(s) - (k + 1) + 1 /\ k + 1 + i - 1 = k + i
    BY <1>1
  <2> QED BY <2>2, <2>3
<1>0. RemoveAt(s, k) = x \o y
  BY DEF RemoveAt
<1> HIDE DEF x, y
<1>4. /\ x \o y \in Seq(S) /\ Len(x \o y) = Len(x) + Len(y)
      /\ \A i \in 1 .. Len(x) + Len(y) : (x \o y)[i] = IF i <= Len(x) THEN x[i] ELSE y[i - Len(x)]
  BY <1>2, <1>3, ConcatProperties
<1>5. Len(x) + Len(y) = Len(s) - 1
  BY <1>1, <1>2, <1>3
<1>6. ASSUME NEW i \in 1 .. Len(s) - 1
      PROVE  (x \o y)[i] = IF i < k THEN s[i] ELSE s[i + 1]
  <2>1. CASE i < k
    BY <1>1, <1>2, <1>4, <1>5, <2>1
  <2>2. CASE i >= k
    <3>0. i \in 1 .. Len(x) + Len(y) /\ ~(i <= Len(x)) /\ Len(x) = k - 1
      BY <1>1, <1>2, <1>5, <2>2
    <3>1. (x \o y)[i] = y[i - (k - 1)]
      BY <1>4, <3>0
    <3>2. i - (k - 1) \in 1 .. Len(s) - k /\ k + (i - (k - 1)) = i + 1
      BY <1>1, <2>2
    <3>3. y[i - (k - 1)] = s[i + 1]
      BY <1>3, <3>2
    <3> QED BY <2>2, <3>1, <3>3
  <2>3. i < k \/ i >= k
    BY <1>1
  <2> QED BY <2>1, <2>2, <2>3
<1> QED BY <1>0, <1>4, <1>5, <1>6

LEMMA ConsFacts ==
  ASSUME NEW S, NEW s \in Seq(S), NEW e \in S
  PROVE  /\ <<e>> \o s \in Seq(S) /\ Len(<<e>> \o s) = Len(s) + 1
         /\ (<<e>> \o s)[1] = e /\ Head(<<e>> \o s) = e
         /\ \A i \in 1 .. Len(s) : (<<e>> \o s)[i + 1] = s[i]
<1>1. <<e>> \in Seq(S) /\ Len(<<e>>) = 1 /\ <<e>>[1] = e /\ Len(s) \in Nat
  OBVIOUS
<1> DEFINE o == <<e>>
<1>2. o \in Seq(S) /\ Len(o) = 1 /\ o[1] = e
  BY <1>1
<1> HIDE DEF o
<1>3. /\ o \o s \in Seq(S) /\ Len(o \o s) = 1 + Len(s)
      /\ \A i \in 1 .. 1 + Len(s) : (o \o s)[i] = IF i <= 1 THEN o[i] ELSE s[i - 1]
  <2>1. /\ o \o s \in Seq(S) /\ Len(o \o s) = Len(o) + Len(s)
        /\ \A i \in 1 .. Len(o) + Len(s) : (o \o s)[i] = IF i <= Len(o) THEN o[i] ELSE s[i - Len(o)]
    BY <1>2, ConcatProperties
  <2> QED BY <1>2, <2>1
<1>4. ASSUME NEW i \in 1 .. Len(s) PROVE (o \o s)[i + 1] = s[i]
  <2>1. i + 1 \in 1 .. 1 + Len(s) /\ ~(i + 1 <= 1) /\ (i + 1) - 1 = i
    BY <1>1
  <2> QED BY <1>3, <2>1
<1>5. (o \o s)[1] = e
  BY <1>1, <1>2, <1>3
<1>6. Head(o \o s) = (o \o s)[1]
  BY <1>3, <1>1
<1> QED BY <1>1, <1>3, <1>4, <1>5, <1>6 DEF o

LEMMA FrontFacts ==
  ASSUME NEW S, NEW s \in Seq(S), Len(s) > 0
  PROVE  /\ Front(s) \in Seq(S) /\ Len(Front(s)) = Len(s) - 1
         /\ \A i \in 1 .. Len(s) - 1 : Front(s)[i] = s[i]
<1>1. Len(s) \in Nat /\ Len(s) > 0 /\ \A i \in 1 .. Len(s) - 1 : s[i] \in S
  OBVIOUS
<1>2. /\ SubSeq(s, 1, Len(s) - 1) \in Seq(S)
      /\ Len(SubSeq(s, 1, Len(s) - 1)) = Len(s) - 1
      /\ \A i \in 1 .. Len(s) - 1 : SubSeq(s, 1, Len(s) - 1)[i] = s[i]
  <2>1. /\ SubSeq(s, 1, Len(s) - 1) \in Seq(S)
        /\ Len(SubSeq(s, 1, Len(s) - 1)) = IF 1 <= Len(s) - 1 THEN Len(s) - 1 - 1 + 1 ELSE 0
        /\ \A i \in 1 .. Len(s) - 1 - 1 + 1 : SubSeq(s, 1, Len(s) - 1)[i] = s[1 + i - 1]
    BY <1>1, SubSeqProperties
  <2>2. Len(s) - 1 - 1 + 1 = Len(s) - 1 /\ \A i \in 1 .. Len(s) - 1 : 1 + i - 1 = i
    BY <1>1
  <2>3. Len(SubSeq(s, 1, Len(s) - 1)) = Len(s) - 1
    <3>1. ASSUME NEW n \in Nat, n > 0 PROVE (IF 1 <= n - 1 THEN n - 1 - 1 + 1 ELSE 0) = n - 1
      BY <3>1
    <3> QED BY <1>1, <2>1, <3>1
  <2> QED BY <2>1, <2>2, <2>3
<1> QED BY <1>2 DEF Front

\* A list never uses up the numbers that FreshNode chooses from.
LEMMA FreshFacts ==
  ASSUME NEW data \in Seq(Entries)
  PROVE  /\ FreshNode(data) \in Nat \ {0}
         /\ \A i \in 1 .. Len(data) : data[i].node # FreshNode(data)
<1> DEFINE n == Len(data)
<1>1. n \in Nat /\ DOMAIN data = 1 .. n
  OBVIOUS
<1>2. \E m \in 1 .. n + 1 : \A i \in 1 .. n : data[i].node # m
  <2> SUFFICES ASSUME \A m \in 1 .. n + 1 : \E i \in 1 .. n : data[i].node = m PROVE FALSE
    OBVIOUS
  <2> DEFINE f == [m \in 1 .. n + 1 |-> CHOOSE i \in 1 .. n : data[i].node = m]
  <2> HIDE DEF n
  <2>1. \A m \in 1 .. n + 1 : f[m] \in 1 .. n /\ data[f[m]].node = m
    OBVIOUS
  <2>2. f \in [1 .. n + 1 -> 1 .. n]
    BY <2>1
  <2>3. /\ IsFiniteSet(1 .. n + 1) /\ Cardinality(1 .. n + 1) = n + 1
        /\ IsFiniteSet(1 .. n) /\ Cardinality(1 .. n) = n
    <3>1. ASSUME NEW b \in Nat PROVE IsFiniteSet(1 .. b) /\ Cardinality(1 .. b) = b
      <4>1. IsFiniteSet(1 .. b) /\ Cardinality(1 .. b) = IF 1 > b THEN 0 ELSE b - 1 + 1
        BY FS_Interval
      <4>2. (IF 1 > b THEN 0 ELSE b - 1 + 1) = b
        OBVIOUS
      <4> QED BY <4>1, <4>2
    <3>2. n \in Nat /\ n + 1 \in Nat
      BY <1>1
    <3> QED BY <3>1, <3>2
  <2>4. Cardinality(1 .. n) < Cardinality(1 .. n + 1)
    BY <1>1, <2>3
  <2> HIDE DEF f
  <2>5. \E x, y \in 1 .. n + 1 : x # y /\ f[x] = f[y]
    <3>1. ASSUME NEW S, NEW T, S = 1 .. n + 1, T = 1 .. n PROVE \E x, y \in S : x # y /\ f[x] = f[y]
      <4>1. IsFiniteSet(S) /\ IsFiniteSet(T) /\ Cardinality(T) < Cardinality(S) /\ f \in [S -> T]
        BY <2>2, <2>3, <2>4, <3>1
      <4> QED BY <4>1, FS_PigeonHole
    <3> QED BY <3>1
  <2> QED BY <2>1, <2>5
<1>3. FreshNode(data) = CHOOSE m \in 1 .. n + 1 : \A i \in 1 .. n : data[i].node # m
  BY <1>1 DEF FreshNode
<1> HIDE DEF n
<1> QED BY <1>1, <1>2, <1>3 DEF n

\* The index leads to the place of the key.
LEMMA PlaceFacts ==
  ASSUME NEW c, Sound(c), NEW k \in Keys, Found(c, k)
  PROVE  /\ Place(c, c.hash[k]) \in 1 .. Len(c.data)
         /\ c.data[Place(c, c.hash[k])].node = c.hash[k]
         /\ c.data[Place(c, c.hash[k])].key = k
<1>1. c.data \in Seq(Entries) /\ DOMAIN c.data = 1 .. Len(c.data)
  BY DEF Sound, CacheType
<1>2. PICK i \in 1 .. Len(c.data) : c.data[i].node = c.hash[k] /\ c.data[i].key = k
  BY <1>1 DEF Sound, IndexIsSafe
<1>3. /\ Place(c, c.hash[k]) \in 1 .. Len(c.data)
      /\ c.data[Place(c, c.hash[k])].node = c.hash[k]
  BY <1>1, <1>2 DEF Place
<1>4. Place(c, c.hash[k]) = i
  BY <1>1, <1>2, <1>3 DEF Sound, IndexIsSafe
<1> QED BY <1>2, <1>3, <1>4

\* push_front after erase: nd is the list with the entry at place p taken out
\* and e put in front.
LEMMA MoveToFront ==
  ASSUME NEW c, Sound(c), NEW k \in Keys, NEW v \in Vals, Found(c, k)
  PROVE  LET p == Place(c, c.hash[k])
             rest == RemoveAt(c.data, p)
             e == [key |-> k, val |-> v, node |-> FreshNode(rest)]
             d == IndexFront(EmplaceFront(EraseNode(c, c.hash[k]), k, v), k)
         IN  /\ Sound(d)
             /\ IndexIsComplete(c) => IndexIsComplete(d)
             /\ d.capacity = c.capacity /\ d.pending = c.pending
             /\ d.data = <<e>> \o rest
<1> DEFINE p == Place(c, c.hash[k])
           rest == RemoveAt(c.data, p)
           e == [key |-> k, val |-> v, node |-> FreshNode(rest)]
           d == IndexFront(EmplaceFront(EraseNode(c, c.hash[k]), k, v), k)
           n == Len(c.data)
           nd == <<e>> \o rest
<1>1. /\ c \in [capacity : Nat \ {0}, data : Seq(Entries), hash : [Keys -> Nat], pending : Seq(Pairs)]
      /\ n \in Nat /\ DOMAIN c.data = 1 .. n
  BY DEF Sound, CacheType
<1>2. p \in 1 .. n /\ c.data[p].node = c.hash[k] /\ c.data[p].key = k
  BY PlaceFacts
<1>3. /\ rest \in Seq(Entries) /\ Len(rest) = n - 1
      /\ \A i \in 1 .. n - 1 : rest[i] = IF i < p THEN c.data[i] ELSE c.data[i + 1]
  BY <1>1, <1>2, RemoveFacts
<1>4. /\ e \in Entries /\ e.key = k /\ e.val = v
      /\ e.node \in Nat \ {0} /\ \A i \in 1 .. n - 1 : rest[i].node # e.node
  <2>1. /\ FreshNode(rest) \in Nat \ {0}
        /\ \A i \in 1 .. Len(rest) : rest[i].node # FreshNode(rest)
    BY <1>3, FreshFacts
  <2> QED BY <1>3, <2>1 DEF Entries, NoNode
<1>5. d = [c EXCEPT !.data = nd, !.hash[k] = IF nd = <<>> THEN NoNode ELSE Head(nd).node]
  BY <1>1 DEF IndexFront, EmplaceFront, EraseNode
<1> HIDE DEF p, rest, e, d
<1>6. /\ nd \in Seq(Entries) /\ Len(nd) = n /\ nd[1] = e /\ Head(nd) = e
      /\ \A i \in 1 .. n - 1 : nd[i + 1] = rest[i]
  <2>1. /\ nd \in Seq(Entries) /\ Len(nd) = Len(rest) + 1 /\ nd[1] = e /\ Head(nd) = e
        /\ \A i \in 1 .. Len(rest) : nd[i + 1] = rest[i]
    BY <1>3, <1>4, ConsFacts
  <2> QED BY <1>1, <1>2, <1>3, <2>1
<1> HIDE DEF nd
<1>7. /\ d \in [capacity : Nat \ {0}, data : Seq(Entries), hash : [Keys -> Nat], pending : Seq(Pairs)]
      /\ d.capacity = c.capacity /\ d.pending = c.pending /\ d.data = nd
      /\ d.hash = [c.hash EXCEPT ![k] = e.node]
      /\ DOMAIN nd = 1 .. n
  <2>1. c.hash \in [Keys -> Nat] /\ [c.hash EXCEPT ![k] = e.node] \in [Keys -> Nat]
    BY <1>1, <1>4
  <2>a. nd # <<>>
    BY <1>1, <1>2, <1>6
  <2>2. d = [c EXCEPT !.data = nd, !.hash = [c.hash EXCEPT ![k] = e.node]]
    BY <1>1, <1>5, <1>6, <2>a
  <2> DEFINE h == [c.hash EXCEPT ![k] = e.node]
  <2> HIDE DEF h
  <2>3. d = [c EXCEPT !.data = nd, !.hash = h] /\ h \in [Keys -> Nat]
    BY <2>1, <2>2 DEF h
  <2>4. /\ d \in [capacity : Nat \ {0}, data : Seq(Entries), hash : [Keys -> Nat], pending : Seq(Pairs)]
        /\ d.capacity = c.capacity /\ d.pending = c.pending /\ d.data = nd /\ d.hash = h
    BY <1>1, <1>6, <2>3
  <2>5. DOMAIN nd = 1 .. n
    BY <1>6
  <2> QED BY <2>4, <2>5 DEF h
<1> DEFINE old(j) == IF j <= p THEN j - 1 ELSE j
<1>8. ASSUME NEW j \in 2 .. n PROVE old(j) \in 1 .. n /\ old(j) # p /\ nd[j] = c.data[old(j)] /\ nd[j].node # e.node
  <2>1. j - 1 \in 1 .. n - 1 /\ nd[(j - 1) + 1] = rest[j - 1] /\ (j - 1) + 1 = j
    BY <1>1, <1>6
  <2>2. rest[j - 1] = c.data[old(j)]
    BY <1>1, <1>2, <1>3, <2>1
  <2> QED BY <1>1, <1>2, <1>4, <2>1, <2>2
<1>9. ASSUME NEW i \in 1 .. n, i # p PROVE \E j \in 2 .. n : nd[j] = c.data[i]
  <2> DEFINE j == IF i < p THEN i + 1 ELSE i
  <2>1. j \in 2 .. n /\ old(j) = i
    BY <1>1, <1>2, <1>9
  <2> QED BY <1>8, <2>1
<1>a. \A i, j \in 1 .. n : c.data[i].node = c.data[j].node => i = j
  BY <1>1 DEF Sound, IndexIsSafe
<1>10. ASSUME NEW i \in 1 .. n, NEW j \in 1 .. n, nd[i].node = nd[j].node PROVE i = j
  <2>1. CASE i \in 2 .. n /\ j \in 2 .. n
    <3>0. /\ old(i) \in 1 .. n /\ nd[i] = c.data[old(i)]
          /\ old(j) \in 1 .. n /\ nd[j] = c.data[old(j)]
      BY <1>8, <2>1
    <3>1. old(i) = old(j)
      <4> HIDE DEF old
      <4> QED BY <1>a, <1>10, <3>0
    <3> QED BY <1>1, <1>2, <1>8, <2>1, <3>1
  <2>2. CASE i = 1 \/ j = 1
    BY <1>6, <1>8, <1>10, <2>2
  <2> QED BY <2>1, <2>2
<1>11. ASSUME NEW x \in Keys, d.hash[x] # NoNode
       PROVE  \E i \in 1 .. n : nd[i].node = d.hash[x] /\ nd[i].key = x
  <2>1. CASE x = k
    BY <1>1, <1>2, <1>4, <1>6, <1>7, <2>1
  <2>2. CASE x # k
    <3>1. d.hash[x] = c.hash[x]
      BY <1>1, <1>7, <2>2
    <3>2. PICK i \in 1 .. n : c.data[i].node = d.hash[x] /\ c.data[i].key = x
      BY <1>1, <1>11, <3>1 DEF Sound, IndexIsSafe, Found
    <3>3. i # p
      BY <1>2, <2>2, <3>2
    <3>4. PICK j \in 2 .. n : nd[j] = c.data[i]
      BY <1>9, <3>3
    <3> QED BY <3>2, <3>4
  <2> QED BY <2>1, <2>2
<1>12. ASSUME IndexIsComplete(c), NEW i \in 1 .. n PROVE d.hash[nd[i].key] = nd[i].node
  <2>1. CASE i = 1
    BY <1>1, <1>4, <1>6, <1>7, <2>1
  <2>2. CASE i # 1
    <3>1. i \in 2 .. n
      BY <2>2
    <3>2. c.hash[nd[i].key] = nd[i].node /\ nd[i].key \in Keys
      <4>1. old(i) \in 1 .. n /\ nd[i] = c.data[old(i)]
        BY <1>8, <3>1
      <4> HIDE DEF old
      <4>2. c.data[old(i)] \in Entries /\ c.hash[c.data[old(i)].key] = c.data[old(i)].node
        BY <1>1, <1>12, <4>1 DEF IndexIsComplete
      <4> QED BY <4>1, <4>2 DEF Entries
    <3>3. nd[i].key # k
      <4>1. old(i) \in 1 .. n /\ old(i) # p /\ nd[i] = c.data[old(i)]
        BY <1>8, <3>1
      <4> HIDE DEF old
      <4> QED BY <1>2, <1>a, <3>2, <4>1
    <3> QED BY <1>1, <1>7, <3>2, <3>3
  <2> QED BY <2>1, <2>2
<1>13. Sound(d)
  BY <1>7, <1>10, <1>11 DEF Sound, CacheType, IndexIsSafe, Found
<1>14. IndexIsComplete(c) => IndexIsComplete(d)
  BY <1>7, <1>12 DEF IndexIsComplete
<1> QED BY <1>7, <1>13, <1>14 DEF nd, d, e, rest, p

\* push_front of a new key, and pop_back when the list got too long.
LEMMA InsertInFront ==
  ASSUME NEW c, Sound(c), NEW k \in Keys, NEW v \in Vals, ~Found(c, k)
  PROVE  LET e == [key |-> k, val |-> v, node |-> FreshNode(c.data)]
             d == IndexFront(Evict(EmplaceFront(c, k, v)), k)
         IN  /\ Sound(d)
             /\ IndexIsComplete(c) => IndexIsComplete(d)
             /\ d.capacity = c.capacity /\ d.pending = c.pending
             /\ d.data = IF Len(c.data) < c.capacity THEN <<e>> \o c.data ELSE Front(<<e>> \o c.data)
<1> DEFINE e == [key |-> k, val |-> v, node |-> FreshNode(c.data)]
           md == <<e>> \o c.data
           n == Len(c.data)
           full == ~(n < c.capacity)
           nd == IF full THEN Front(md) ELSE md
           h == IF full THEN [c.hash EXCEPT ![Last(md).key] = NoNode] ELSE c.hash
           d == IndexFront(Evict(EmplaceFront(c, k, v)), k)
<1>1. /\ c \in [capacity : Nat \ {0}, data : Seq(Entries), hash : [Keys -> Nat], pending : Seq(Pairs)]
      /\ n \in Nat /\ DOMAIN c.data = 1 .. n /\ c.capacity \in Nat \ {0}
      /\ c.hash \in [Keys -> Nat] /\ c.data \in Seq(Entries)
      /\ \A i, j \in 1 .. n : c.data[i].node = c.data[j].node => i = j
  BY DEF Sound, CacheType, IndexIsSafe
<1>2. /\ e \in Entries /\ e.key = k /\ e.val = v
      /\ e.node \in Nat \ {0} /\ \A i \in 1 .. n : c.data[i].node # e.node
  <2>1. FreshNode(c.data) \in Nat \ {0} /\ \A i \in 1 .. n : c.data[i].node # FreshNode(c.data)
    BY <1>1, FreshFacts
  <2> QED BY <2>1 DEF Entries, NoNode
<1>3. d = [c EXCEPT !.data = nd, !.hash = [h EXCEPT ![k] = IF nd = <<>> THEN NoNode ELSE Head(nd).node]]
  <2> DEFINE a == [c EXCEPT !.data = md]
             b == [c EXCEPT !.data = nd, !.hash = h]
  <2>1. EmplaceFront(c, k, v) = a /\ a.data = md /\ a.capacity = c.capacity /\ a.hash = c.hash
    BY <1>1 DEF EmplaceFront
  <2>2. Len(md) = n + 1
    BY <1>1, <1>2, ConsFacts
  <2>3. Len(a.data) > a.capacity <=> full
    <3> HIDE DEF a, md
    <3> QED BY <1>1, <2>1, <2>2
  <2> HIDE DEF e, md
  <2>4. Evict(a) = b
    BY <1>1, <2>1, <2>3 DEF Evict, PopBack, Unindex
  <2>5. b.data = nd /\ b.hash = h
    BY <1>1
  <2> HIDE DEF nd, h
  <2>6. IndexFront(b, k) =
          [c EXCEPT !.data = nd, !.hash = [h EXCEPT ![k] = IF nd = <<>> THEN NoNode ELSE Head(nd).node]]
    BY <1>1, <2>5 DEF IndexFront
  <2> HIDE DEF a, b
  <2> QED BY <2>1, <2>4, <2>6
<1> HIDE DEF e, d
<1>4. /\ md \in Seq(Entries) /\ Len(md) = n + 1 /\ md[1] = e /\ Head(md) = e
      /\ \A i \in 1 .. n : md[i + 1] = c.data[i]
  BY <1>1, <1>2, ConsFacts
<1> HIDE DEF md
<1> DEFINE m == IF full THEN n ELSE n + 1
<1>5. m \in Nat \ {0} /\ m <= n + 1 /\ (full => n # 0)
  BY <1>1
<1>6. /\ nd \in Seq(Entries) /\ Len(nd) = m /\ nd[1] = e /\ Head(nd) = e /\ DOMAIN nd = 1 .. m
      /\ \A i \in 1 .. m : nd[i] = md[i]
  <2>1. CASE full
    <3>1. /\ Front(md) \in Seq(Entries) /\ Len(Front(md)) = Len(md) - 1
          /\ \A i \in 1 .. Len(md) - 1 : Front(md)[i] = md[i]
      <4>1. Len(md) > 0
        BY <1>1, <1>4
      <4> QED BY <1>4, <4>1, FrontFacts
    <3>2. nd = Front(md) /\ m = n /\ Len(md) - 1 = n
      BY <1>1, <1>4, <2>1
    <3>3. nd \in Seq(Entries) /\ Len(nd) = m /\ \A i \in 1 .. m : nd[i] = md[i]
      BY <3>1, <3>2
    <3> HIDE DEF nd, m
    <3>4. nd[1] = e /\ Head(nd) = nd[1]
      BY <1>4, <1>5, <3>3
    <3> QED BY <3>3, <3>4
  <2>2. CASE ~full
    <3>1. nd = md /\ m = n + 1
      BY <2>2
    <3> HIDE DEF nd, m
    <3> QED BY <1>4, <3>1
  <2> QED BY <2>1, <2>2
<1>7. full => Last(md) = c.data[n] /\ Last(md) = md[m + 1]
  <2>1. full => n \in 1 .. n /\ m + 1 = Len(md)
    BY <1>1, <1>4, <1>5
  <2> QED BY <1>4, <2>1 DEF Last
<1>8. /\ d \in [capacity : Nat \ {0}, data : Seq(Entries), hash : [Keys -> Nat], pending : Seq(Pairs)]
      /\ d.capacity = c.capacity /\ d.pending = c.pending /\ d.data = nd
      /\ d.hash = [h EXCEPT ![k] = e.node] /\ h \in [Keys -> Nat]
  <2>1. h \in [Keys -> Nat]
    BY <1>1 DEF NoNode
  <2> HIDE DEF h, nd
  <2>a. nd # <<>>
    BY <1>5, <1>6
  <2>2. d = [c EXCEPT !.data = nd, !.hash = [h EXCEPT ![k] = e.node]]
    BY <1>3, <1>6, <2>a
  <2> DEFINE hk == [h EXCEPT ![k] = e.node]
  <2>3. hk \in [Keys -> Nat]
    BY <1>2, <2>1
  <2> HIDE DEF hk
  <2>4. d = [c EXCEPT !.data = nd, !.hash = hk]
    BY <2>2 DEF hk
  <2>5. /\ d \in [capacity : Nat \ {0}, data : Seq(Entries), hash : [Keys -> Nat], pending : Seq(Pairs)]
        /\ d.capacity = c.capacity /\ d.pending = c.pending /\ d.data = nd /\ d.hash = hk
    BY <1>1, <1>6, <2>3, <2>4
  <2> QED BY <2>1, <2>5 DEF hk
<1>9. ASSUME NEW j \in 2 .. m PROVE j - 1 \in 1 .. n /\ nd[j] = c.data[j - 1] /\ nd[j].node # e.node
  <2>1. j - 1 \in 1 .. n /\ (j - 1) + 1 = j /\ j \in 1 .. m
    BY <1>1, <1>5
  <2> HIDE DEF nd, m
  <2>2. nd[j] = md[j] /\ md[(j - 1) + 1] = c.data[j - 1]
    BY <1>4, <1>6, <2>1
  <2> QED BY <1>2, <2>1, <2>2
<1>10. ASSUME NEW x \in Keys PROVE
         /\ x = k => d.hash[x] = e.node
         /\ x # k /\ full /\ x = c.data[n].key => d.hash[x] = NoNode
         /\ x # k /\ ~(full /\ x = c.data[n].key) => d.hash[x] = c.hash[x]
  <2>1. d.hash[x] = IF x = k THEN e.node ELSE h[x]
    BY <1>8
  <2>2. h[x] = IF full /\ x = c.data[n].key THEN NoNode ELSE c.hash[x]
    BY <1>1, <1>7
  <2> QED BY <2>1, <2>2
<1> HIDE DEF h, nd
<1>11. ASSUME NEW i \in 1 .. m, NEW j \in 1 .. m, nd[i].node = nd[j].node PROVE i = j
  <2>1. CASE i \in 2 .. m /\ j \in 2 .. m
    <3>1. /\ i - 1 \in 1 .. n /\ nd[i] = c.data[i - 1]
          /\ j - 1 \in 1 .. n /\ nd[j] = c.data[j - 1]
      BY <1>9, <2>1
    <3>2. i - 1 = j - 1
      BY <1>1, <1>11, <3>1
    <3> QED BY <3>2
  <2>2. CASE i = 1 \/ j = 1
    BY <1>6, <1>9, <1>11, <2>2
  <2> QED BY <2>1, <2>2
<1>12. ASSUME NEW x \in Keys, d.hash[x] # NoNode
       PROVE  \E i \in 1 .. m : nd[i].node = d.hash[x] /\ nd[i].key = x
  <2>1. CASE x = k
    BY <1>2, <1>5, <1>6, <1>10, <2>1
  <2>2. CASE x # k
    <3>1. d.hash[x] = c.hash[x] /\ ~(full /\ x = c.data[n].key)
      BY <1>10, <1>12, <2>2
    <3>2. PICK i \in 1 .. n : c.data[i].node = d.hash[x] /\ c.data[i].key = x
      BY <1>1, <1>12, <3>1 DEF Sound, IndexIsSafe, Found
    <3>3. i + 1 \in 2 .. m /\ (i + 1) - 1 = i
      BY <1>1, <3>1, <3>2
    <3>4. nd[i + 1] = c.data[i] /\ i + 1 \in 1 .. m
      BY <1>9, <3>3
    <3> QED BY <3>2, <3>4
  <2> QED BY <2>1, <2>2
<1>13. ASSUME IndexIsComplete(c), NEW i \in 1 .. m PROVE d.hash[nd[i].key] = nd[i].node
  <2>1. CASE i = 1
    BY <1>2, <1>6, <1>10, <2>1
  <2>2. CASE i # 1
    <3>1. i - 1 \in 1 .. n /\ nd[i] = c.data[i - 1] /\ (full => i - 1 # n)
      BY <1>1, <1>9, <2>2
    <3>2. c.hash[nd[i].key] = nd[i].node /\ nd[i].key \in Keys /\ nd[i].node # NoNode
      <4>1. c.data[i - 1] \in Entries /\ c.hash[c.data[i - 1].key] = c.data[i - 1].node
        BY <1>1, <1>13, <3>1 DEF IndexIsComplete
      <4> QED BY <3>1, <4>1 DEF Entries
    <3>3. nd[i].key # k
      BY <3>2 DEF Found
    <3>4. ~(full /\ nd[i].key = c.data[n].key)
      <4>1. full => n \in 1 .. n /\ c.hash[c.data[n].key] = c.data[n].node
        BY <1>1, <1>5, <1>13 DEF IndexIsComplete
      <4>2. full => c.data[n].node # c.data[i - 1].node
        BY <1>1, <3>1, <4>1
      <4> HIDE DEF full
      <4> QED BY <3>1, <3>2, <4>1, <4>2
    <3> HIDE DEF full
    <3> QED BY <1>10, <3>2, <3>3, <3>4
  <2> QED BY <2>1, <2>2
<1> HIDE DEF m
<1>14. Sound(d)
  <2>1. CacheType(d)
    BY <1>8 DEF CacheType
  <2>2. d.data = nd /\ DOMAIN nd = 1 .. m
    BY <1>6, <1>8
  <2>3. IndexIsSafe(d)
    BY <1>11, <1>12, <2>2 DEF IndexIsSafe, Found
  <2> QED BY <2>1, <2>3 DEF Sound
<1>15. IndexIsComplete(c) => IndexIsComplete(d)
  BY <1>6, <1>8, <1>13 DEF IndexIsComplete
<1> QED BY <1>8, <1>14, <1>15 DEF nd, d, e, md

LEMMA RecordFacts ==
  ASSUME NEW c, Sound(c), NEW p \in Pairs
  PROVE  /\ Sound(Record(c, p))
         /\ IndexIsComplete(c) => IndexIsComplete(Record(c, p))
         /\ Record(c, p).capacity = c.capacity /\ Record(c, p).data = c.data
         /\ Record(c, p).pending = <<p>> \o c.pending
<1>1. c \in [capacity : Nat \ {0}, data : Seq(Entries), hash : [Keys -> Nat], pending : Seq(Pairs)]
  BY DEF Sound, CacheType
<1> DEFINE d == Record(c, p)
<1>2. <<p>> \o c.pending \in Seq(Pairs)
  BY <1>1, ConsFacts
<1>3. /\ d \in [capacity : Nat \ {0}, data : Seq(Entries), hash : [Keys -> Nat], pending : Seq(Pairs)]
      /\ d.capacity = c.capacity /\ d.data = c.data /\ d.hash = c.hash
      /\ d.pending = <<p>> \o c.pending
  BY <1>1, <1>2 DEF Record
<1> HIDE DEF d
<1>4. Sound(d)
  BY <1>3 DEF Sound, CacheType, IndexIsSafe, Found
<1>5. IndexIsComplete(c) => IndexIsComplete(d)
  BY <1>3 DEF IndexIsComplete
<1> QED BY <1>3, <1>4, <1>5 DEF d

\* What put makes of the list: the entry with the key and value in front.
LEMMA PutFacts ==
  ASSUME NEW c, Sound(c), NEW k \in Keys, NEW v \in Vals, NEW u \in BOOLEAN
  PROVE  LET d == put(c, k, v, u) IN
           /\ Sound(d)
           /\ IndexIsComplete(c) => IndexIsComplete(d)
           /\ d.capacity = c.capacity
           /\ \E e \in Entries :
                /\ e.key = k /\ e.val = v
                /\ d.data = IF Found(c, k) THEN <<e>> \o RemoveAt(c.data, Place(c, c.hash[k]))
                            ELSE IF Len(c.data) < c.capacity THEN <<e>> \o c.data
                            ELSE Front(<<e>> \o c.data)
<1> DEFINE placed == IF Found(c, k) THEN EmplaceFront(EraseNode(c, c.hash[k]), k, v)
                     ELSE Evict(EmplaceFront(c, k, v))
           d == IndexFront(placed, k)
           r == [key |-> k, val |-> v]
<1>1. put(c, k, v, u) = IF u THEN d ELSE Record(d, r)
  BY DEF put
<1>2. /\ Sound(d)
      /\ IndexIsComplete(c) => IndexIsComplete(d)
      /\ d.capacity = c.capacity
      /\ \E e \in Entries :
           /\ e.key = k /\ e.val = v
           /\ d.data = IF Found(c, k) THEN <<e>> \o RemoveAt(c.data, Place(c, c.hash[k]))
                       ELSE IF Len(c.data) < c.capacity THEN <<e>> \o c.data
                       ELSE Front(<<e>> \o c.data)
  <2>1. CASE Found(c, k)
    <3> DEFINE rest == RemoveAt(c.data, Place(c, c.hash[k]))
               e == [key |-> k, val |-> v, node |-> FreshNode(rest)]
    <3>1. /\ Sound(d) /\ (IndexIsComplete(c) => IndexIsComplete(d))
          /\ d.capacity = c.capacity /\ d.data = <<e>> \o rest
      BY <2>1, MoveToFront
    <3>2. e \in Entries /\ e.key = k /\ e.val = v
      <4>1. c.data \in Seq(Entries) /\ Place(c, c.hash[k]) \in 1 .. Len(c.data)
        BY <2>1, PlaceFacts DEF Sound, CacheType
      <4>2. rest \in Seq(Entries)
        BY <4>1, RemoveFacts
      <4>3. FreshNode(rest) \in Nat \ {0}
        BY <4>2, FreshFacts
      <4> QED BY <4>3 DEF Entries, NoNode
    <3> HIDE DEF d, e
    <3> QED BY <2>1, <3>1, <3>2
  <2>2. CASE ~Found(c, k)
    <3> DEFINE e == [key |-> k, val |-> v, node |-> FreshNode(c.data)]
    <3>1. /\ Sound(d) /\ (IndexIsComplete(c) => IndexIsComplete(d))
          /\ d.capacity = c.capacity
          /\ d.data = IF Len(c.data) < c.capacity THEN <<e>> \o c.data ELSE Front(<<e>> \o c.data)
      BY <2>2, InsertInFront
    <3>2. e \in Entries /\ e.key = k /\ e.val = v
      <4>1. c.data \in Seq(Entries)
        BY DEF Sound, CacheType
      <4>2. FreshNode(c.data) \in Nat \ {0}
        BY <4>1, FreshFacts
      <4> QED BY <4>2 DEF Entries, NoNode
    <3> HIDE DEF d, e
    <3> QED BY <2>2, <3>1, <3>2
  <2> QED BY <2>1, <2>2
<1>3. r \in Pairs
  BY DEF Pairs
<1> HIDE DEF d, r
<1>4. /\ Sound(Record(d, r))
      /\ IndexIsComplete(d) => IndexIsComplete(Record(d, r))
      /\ Record(d, r).capacity = d.capacity /\ Record(d, r).data = d.data
  BY <1>2, <1>3, RecordFacts
<1> QED BY <1>1, <1>2, <1>4

\* What get makes of the list: the entry found goes to the front.
LEMMA GetFacts ==
  ASSUME NEW c, Sound(c), NEW k \in Keys
  PROVE  LET d == get(c, k)
             p == Place(c, c.hash[k])
         IN  /\ Sound(d)
             /\ IndexIsComplete(c) => IndexIsComplete(d)
             /\ d.capacity = c.capacity
             /\ ~Found(c, k) => d = c
             /\ Found(c, k) => \E e \in Entries :
                  /\ e.key = k /\ e.val = c.data[p].val
                  /\ d.data = <<e>> \o RemoveAt(c.data, p)
<1>1. CASE ~Found(c, k)
  BY <1>1 DEF get
<1>2. CASE Found(c, k)
  <2> DEFINE p == Place(c, c.hash[k])
             v == c.data[p].val
             d == IndexFront(EmplaceFront(EraseNode(c, c.hash[k]), k, v), k)
             rest == RemoveAt(c.data, p)
             e == [key |-> k, val |-> v, node |-> FreshNode(rest)]
             r == Pair(c.data[p])
  <2>1. p \in 1 .. Len(c.data) /\ c.data[p].node = c.hash[k] /\ c.data[p].key = k
    BY <1>2, PlaceFacts
  <2>2. get(c, k) = Record(d, r)
    <3>1. At(c, c.hash[k]) = c.data[p]
      BY DEF At
    <3> QED BY <1>2, <2>1, <3>1 DEF get
  <2>3. c.data \in Seq(Entries) /\ c.data[p] \in Entries
    BY <2>1 DEF Sound, CacheType
  <2>4. v \in Vals /\ r \in Pairs
    BY <2>3 DEF Entries, Pair, Pairs
  <2> HIDE DEF r
  <2>5. /\ Sound(d) /\ (IndexIsComplete(c) => IndexIsComplete(d))
        /\ d.capacity = c.capacity /\ d.data = <<e>> \o rest
    BY <1>2, <2>4, MoveToFront
  <2>6. e \in Entries /\ e.key = k /\ e.val = v
    <3>1. rest \in Seq(Entries)
      BY <2>1, <2>3, RemoveFacts
    <3>2. FreshNode(rest) \in Nat \ {0}
      BY <3>1, FreshFacts
    <3> QED BY <2>4, <3>2 DEF Entries, NoNode
  <2> HIDE DEF d, e
  <2>7. /\ Sound(Record(d, r))
        /\ IndexIsComplete(d) => IndexIsComplete(Record(d, r))
        /\ Record(d, r).capacity = d.capacity /\ Record(d, r).data = d.data
    BY <2>4, <2>5, RecordFacts
  <2> QED BY <1>2, <2>2, <2>5, <2>6, <2>7
<1> QED BY <1>1, <1>2

\* The uses of the cache that the other caches have to be told of.
LEMMA PutPending ==
  ASSUME NEW c, Sound(c), NEW k \in Keys, NEW v \in Vals, NEW u \in BOOLEAN
  PROVE  put(c, k, v, u).pending = IF u THEN c.pending ELSE <<[key |-> k, val |-> v]>> \o c.pending
<1> DEFINE placed == IF Found(c, k) THEN EmplaceFront(EraseNode(c, c.hash[k]), k, v)
                     ELSE Evict(EmplaceFront(c, k, v))
           d == IndexFront(placed, k)
           r == [key |-> k, val |-> v]
<1>1. put(c, k, v, u) = IF u THEN d ELSE Record(d, r)
  BY DEF put
<1>2. Sound(d) /\ d.pending = c.pending
  BY MoveToFront, InsertInFront
<1>3. r \in Pairs
  BY DEF Pairs
<1> HIDE DEF d, r
<1>4. Record(d, r).pending = <<r>> \o c.pending
  BY <1>2, <1>3, RecordFacts
<1> QED BY <1>1, <1>2, <1>4 DEF r

LEMMA GetPending ==
  ASSUME NEW c, Sound(c), NEW k \in Keys, Found(c, k)
  PROVE  get(c, k).pending = <<[key |-> k, val |-> c.data[Place(c, c.hash[k])].val]>> \o c.pending
<1> DEFINE p == Place(c, c.hash[k])
           v == c.data[p].val
           d == IndexFront(EmplaceFront(EraseNode(c, c.hash[k]), k, v), k)
           r == [key |-> k, val |-> v]
<1>1. p \in 1 .. Len(c.data) /\ c.data[p].node = c.hash[k] /\ c.data[p].key = k
  BY PlaceFacts
<1>2. v \in Vals /\ r \in Pairs
  <2>1. c.data \in Seq(Entries) /\ c.data[p] \in Entries
    BY <1>1 DEF Sound, CacheType
  <2> QED BY <2>1 DEF Entries, Pairs
<1>3. get(c, k) = Record(d, r)
  <2>1. At(c, c.hash[k]) = c.data[p] /\ Pair(c.data[p]) = r
    BY <1>1 DEF At, Pair
  <2> QED BY <1>1, <2>1 DEF get
<1> HIDE DEF r
<1>4. Sound(d) /\ d.pending = c.pending
  BY <1>2, MoveToFront
<1> HIDE DEF d
<1>5. Record(d, r).pending = <<r>> \o c.pending
  BY <1>2, <1>4, RecordFacts
<1> QED BY <1>3, <1>5 DEF r

LEMMA ClearFacts ==
  ASSUME NEW c, Sound(c), NEW s \in Seq(Pairs)
  PROVE  LET d == [c EXCEPT !.pending = s] IN
           /\ Sound(d)
           /\ IndexIsComplete(c) => IndexIsComplete(d)
           /\ d.capacity = c.capacity /\ d.data = c.data /\ d.pending = s
<1>1. c \in [capacity : Nat \ {0}, data : Seq(Entries), hash : [Keys -> Nat], pending : Seq(Pairs)]
  BY DEF Sound, CacheType
<1> DEFINE d == [c EXCEPT !.pending = s]
<1>2. /\ d \in [capacity : Nat \ {0}, data : Seq(Entries), hash : [Keys -> Nat], pending : Seq(Pairs)]
      /\ d.capacity = c.capacity /\ d.data = c.data /\ d.hash = c.hash /\ d.pending = s
  BY <1>1
<1> HIDE DEF d
<1>3. Sound(d)
  BY <1>2 DEF Sound, CacheType, IndexIsSafe, Found
<1>4. IndexIsComplete(c) => IndexIsComplete(d)
  BY <1>2 DEF IndexIsComplete
<1> QED BY <1>2, <1>3, <1>4 DEF d

LEMMA MaxFacts ==
  ASSUME NEW n \in Nat, NEW S \in SUBSET (1 .. n), S # {}
  PROVE  Max(S) \in S
<1> DEFINE T == {n - i : i \in S}
           R == OpToRel(<, Nat)
<1>1. T \subseteq Nat /\ T # {}
  <2>1. \A i \in S : n - i \in Nat
    OBVIOUS
  <2> QED BY <2>1
<1>2. IsWellFoundedOn(R, Nat)
  BY NatLessThanWellFounded
<1>3. \A x, y \in Nat : y < x => <<y, x>> \in R
  BY DEF OpToRel
<1> HIDE DEF R, T
<1>4. \E x \in T : \A y \in T : ~(<<y, x>> \in R)
  BY <1>1, <1>2, WFMin
<1>5. PICK x \in T : \A y \in T : ~(y < x)
  BY <1>1, <1>3, <1>4
<1>6. PICK i \in S : x = n - i
  BY <1>5 DEF T
<1>7. ASSUME NEW j \in S PROVE i >= j
  <2>1. n - j \in T /\ ~(n - j < n - i)
    BY <1>5, <1>6 DEF T
  <2> QED BY <2>1
<1> QED BY <1>7 DEF Max

\* A cache built from a backup; the index of a key is its last line.
LEMMA ReadFacts ==
  ASSUME NEW capacity \in Nat \ {0}, NEW lines \in Seq(Pairs)
  PROVE  LET c == readFromFile(NewCache(capacity), lines) IN
           /\ Sound(c) /\ c.capacity = capacity /\ c.pending = <<>>
           /\ Len(c.data) = Len(lines)
           /\ \A i \in 1 .. Len(lines) : c.data[i].key = lines[i].key /\ c.data[i].val = lines[i].val
           /\ (\A i, j \in 1 .. Len(lines) : lines[i].key = lines[j].key => i = j) => IndexIsComplete(c)
<1> DEFINE n == Len(lines)
           nodes == [i \in 1 .. n |-> [key |-> lines[i].key, val |-> lines[i].val, node |-> i]]
           at(k) == {i \in 1 .. n : lines[i].key = k}
           hash == [k \in Keys |-> IF at(k) = {} THEN NoNode ELSE Max(at(k))]
           c == readFromFile(NewCache(capacity), lines)
<1>1. n \in Nat /\ DOMAIN lines = 1 .. n /\ \A i \in 1 .. n : lines[i] \in Pairs
  OBVIOUS
<1>2. NewCache(capacity) = [capacity |-> capacity, data |-> <<>>, hash |-> [k \in Keys |-> NoNode], pending |-> <<>>]
  BY DEF NewCache
<1>3. c = [NewCache(capacity) EXCEPT !.data = nodes, !.hash = hash]
  BY <1>1 DEF readFromFile
<1>4. c = [capacity |-> capacity, data |-> nodes, hash |-> hash, pending |-> <<>>]
  <2> DEFINE none == [k \in Keys |-> NoNode]
             b == [capacity |-> capacity, data |-> <<>>, hash |-> none, pending |-> <<>>]
  <2>1. c = [b EXCEPT !.data = nodes, !.hash = hash]
    BY <1>2, <1>3
  <2> HIDE DEF nodes, hash, none, c
  <2> QED BY <2>1
<1>5. /\ nodes \in Seq(Entries) /\ Len(nodes) = n /\ DOMAIN nodes = 1 .. n
      /\ \A i \in 1 .. n : nodes[i].key = lines[i].key /\ nodes[i].val = lines[i].val /\ nodes[i].node = i
  <2>1. \A i \in 1 .. n : [key |-> lines[i].key, val |-> lines[i].val, node |-> i] \in Entries
    BY <1>1 DEF Pairs, Entries, NoNode
  <2>2. nodes \in [1 .. n -> Entries]
    BY <2>1
  <2>3. nodes \in Seq(Entries) /\ Len(nodes) = n
    <3> HIDE DEF nodes
    <3> QED BY <1>1, <2>2
  <2> QED BY <2>3
<1>6. ASSUME NEW k \in Keys PROVE
        /\ hash[k] \in Nat
        /\ hash[k] # NoNode => hash[k] \in at(k)
        /\ at(k) # {} => hash[k] # NoNode
  <2>1. hash[k] = IF at(k) = {} THEN NoNode ELSE Max(at(k))
    OBVIOUS
  <2>2. at(k) \in SUBSET (1 .. n)
    OBVIOUS
  <2>3. at(k) # {} => Max(at(k)) \in at(k)
    <3> HIDE DEF at, n
    <3> QED BY <1>1, <2>2, MaxFacts
  <2>4. \A x \in at(k) : x \in Nat /\ x # NoNode
    BY <1>1 DEF NoNode
  <2> HIDE DEF at, hash
  <2> QED BY <2>1, <2>3, <2>4 DEF NoNode
<1>7. hash \in [Keys -> Nat]
  <2>1. \A k \in Keys : hash[k] \in Nat
    BY <1>6
  <2> QED BY <2>1
<1> HIDE DEF nodes, hash, c
<1>8. /\ c \in [capacity : Nat \ {0}, data : Seq(Entries), hash : [Keys -> Nat], pending : Seq(Pairs)]
      /\ c.capacity = capacity /\ c.data = nodes /\ c.hash = hash /\ c.pending = <<>>
  BY <1>4, <1>5, <1>7
<1>9. Sound(c)
  <2>1. \A i, j \in 1 .. n : nodes[i].node = nodes[j].node => i = j
    BY <1>5
  <2>2. ASSUME NEW k \in Keys, hash[k] # NoNode
        PROVE  \E i \in 1 .. n : nodes[i].node = hash[k] /\ nodes[i].key = k
    <3>1. hash[k] \in 1 .. n /\ lines[hash[k]].key = k
      BY <1>6, <2>2
    <3> QED BY <1>5, <3>1
  <2>3. CacheType(c)
    BY <1>8 DEF CacheType
  <2>4. IndexIsSafe(c)
    BY <1>5, <1>8, <2>1, <2>2 DEF IndexIsSafe, Found
  <2> QED BY <2>3, <2>4 DEF Sound
<1>10. ASSUME \A i, j \in 1 .. n : lines[i].key = lines[j].key => i = j, NEW i \in 1 .. n
       PROVE  hash[nodes[i].key] = nodes[i].node
  <2>1. lines[i].key \in Keys /\ i \in at(lines[i].key)
    BY <1>1 DEF Pairs
  <2>2. hash[lines[i].key] \in 1 .. n /\ lines[hash[lines[i].key]].key = lines[i].key
    BY <1>6, <2>1
  <2>3. hash[lines[i].key] = i
    BY <1>10, <2>2
  <2> QED BY <1>5, <2>3
<1>11. (\A i, j \in 1 .. n : lines[i].key = lines[j].key => i = j) => IndexIsComplete(c)
  BY <1>5, <1>8, <1>10 DEF IndexIsComplete
<1> QED BY <1>5, <1>8, <1>9, <1>11 DEF c
=============================================================================
