-------------------------- MODULE SearchDataProofs --------------------------
(***************************************************************************)
(* Proofs about SearchData: the dictionary and what is answered from it, the *)
(* page library and the excerpts, for every alphabet, text and query, any      *)
(* number of articles, items and words, every relation of nearness that       *)
(* simhash may give, any length of a window and any number of failures.       *)
(***************************************************************************)
EXTENDS SearchData, SequenceTheorems, FiniteSetTheorems, WellFoundedInduction, TLAPS

-----------------------------------------------------------------------------
(* Numbers and sequences. *)

\* A set of numbers has a least one.
LEMMA Least ==
  ASSUME NEW T \in SUBSET Nat, T # {}
  PROVE  \E x \in T : \A y \in T : x <= y
<1> DEFINE R == OpToRel(<, Nat)
<1>1. IsWellFoundedOn(R, Nat)
  BY NatLessThanWellFounded
<1>2. \A x, y \in Nat : x < y => <<x, y>> \in R
  BY DEF OpToRel
<1> HIDE DEF R
<1>3. PICK x \in T : \A y \in T : ~ (<<y, x>> \in R)
  BY <1>1, WFMin
<1>4. ASSUME NEW y \in T PROVE x <= y
  <2>1. x \in Nat /\ y \in Nat
    OBVIOUS
  <2>2. ~(y < x)
    BY <1>2, <1>3, <2>1
  <2> QED BY <2>1, <2>2
<1> QED BY <1>4

\* What holds of the parts and is kept by appending one holds of the whole.
LEMMA FlattenIn ==
  ASSUME NEW P, NEW G, P \subseteq G, \A u \in G, v \in P : u \o v \in G,
         NEW ss \in Seq(P), Len(ss) >= 1
  PROVE  /\ FlattenSeq(ss) \in G
         /\ \E h : /\ \A i \in 1 .. Len(ss) : h[i] \in G /\ h[i] = IF i = 1 THEN ss[i] ELSE h[i - 1] \o ss[i]
                   /\ FlattenSeq(ss) = h[Len(ss)]
<1> DEFINE n == Len(ss)
           Good(f, k) == \A i \in 1 .. k : f[i] = IF i = 1 THEN ss[i] ELSE f[i - 1] \o ss[i]
           Bad == {k \in 1 .. n : ~ \E f \in [1 .. k -> G] : Good(f, k)}
<1>1. n \in Nat /\ n >= 1 /\ \A i \in 1 .. n : ss[i] \in P
  OBVIOUS
<1>2. ASSUME Bad # {} PROVE FALSE
  <2>0. Bad \in SUBSET Nat
    BY <1>1
  <2>1. PICK k \in Bad : \A j \in Bad : k <= j
    <3> HIDE DEF Bad
    <3> QED BY <1>2, <2>0, Least
  <2>2. k \in 1 .. n /\ k \in Nat /\ ~ \E f \in [1 .. k -> G] : Good(f, k)
    BY <1>1, <2>1
  <2>3. CASE k = 1
    <3> DEFINE f == [i \in 1 .. k |-> ss[1]]
    <3>1. f \in [1 .. k -> G]
      BY <1>1, <2>2
    <3>2. Good(f, k)
      BY <1>1, <2>2, <2>3
    <3> QED BY <2>2, <3>1, <3>2
  <2>4. CASE k # 1
    <3>1. k - 1 \in 1 .. n /\ k - 1 \notin Bad
      BY <1>1, <2>1, <2>2, <2>4
    <3>2. PICK f \in [1 .. k - 1 -> G] : Good(f, k - 1)
      BY <3>1
    <3> DEFINE g == [i \in 1 .. k |-> IF i < k THEN f[i] ELSE f[k - 1] \o ss[k]]
    <3>3. f[k - 1] \in G /\ ss[k] \in P
      BY <1>1, <2>2, <2>4, <3>2
    <3>4. g \in [1 .. k -> G]
      BY <2>2, <3>2, <3>3
    <3>5. Good(g, k)
      <4> SUFFICES ASSUME NEW i \in 1 .. k
                   PROVE  g[i] = IF i = 1 THEN ss[i] ELSE g[i - 1] \o ss[i]
        OBVIOUS
      <4>1. CASE i < k
        <5>1. i \in 1 .. k - 1 /\ g[i] = f[i] /\ (i # 1 => i - 1 \in 1 .. k /\ i - 1 < k /\ g[i - 1] = f[i - 1])
          BY <2>2, <4>1
        <5> QED BY <3>2, <5>1
      <4>2. CASE i = k
        <5>1. k \in 1 .. k /\ k - 1 \in 1 .. k /\ k - 1 < k /\ ~(k < k)
          BY <2>2, <2>4
        <5>2. \A m \in 1 .. k : g[m] = IF m < k THEN f[m] ELSE f[k - 1] \o ss[k]
          OBVIOUS
        <5> HIDE DEF g
        <5>3. g[k] = f[k - 1] \o ss[k] /\ g[k - 1] = f[k - 1]
          BY <5>1, <5>2
        <5> QED BY <2>4, <4>2, <5>3
      <4> QED BY <2>2, <4>1, <4>2
    <3> HIDE DEF g
    <3> QED BY <2>2, <3>4, <3>5
  <2> QED BY <2>3, <2>4
<1>3. PICK f \in [1 .. n -> G] : Good(f, n)
  BY <1>1, <1>2
<1>4. f = [i \in 1 .. n |-> IF i = 1 THEN ss[i] ELSE f[i - 1] \o ss[i]]
  BY <1>3
<1> DEFINE h == CHOOSE x : x = [i \in 1 .. n |-> IF i = 1 THEN ss[i] ELSE x[i - 1] \o ss[i]]
<1>5. h = [i \in 1 .. n |-> IF i = 1 THEN ss[i] ELSE h[i - 1] \o ss[i]]
  BY <1>4
<1>6. FlattenSeq(ss) = h[n]
  BY <1>1 DEF FlattenSeq
<1> HIDE DEF h
<1> DEFINE Out == {i \in 1 .. n : h[i] \notin G}
<1>7. ASSUME Out # {} PROVE FALSE
  <2>0. Out \in SUBSET Nat
    BY <1>1
  <2>1. PICK k \in Out : \A j \in Out : k <= j
    <3> HIDE DEF Out
    <3> QED BY <1>7, <2>0, Least
  <2>2. k \in 1 .. n /\ h[k] \notin G
    BY <2>1
  <2>3. k # 1 => k - 1 \in 1 .. n /\ h[k - 1] \in G
    BY <1>1, <2>1, <2>2
  <2>4. h[k] = IF k = 1 THEN ss[k] ELSE h[k - 1] \o ss[k]
    BY <1>5, <2>2
  <2> QED BY <1>1, <2>2, <2>3, <2>4
<1>8. \A i \in 1 .. n : h[i] \in G /\ h[i] = IF i = 1 THEN ss[i] ELSE h[i - 1] \o ss[i]
  BY <1>5, <1>7
<1> QED BY <1>1, <1>6, <1>8

\* One element is taken out of a sequence.
LEMMA EraseFacts ==
  ASSUME NEW T, NEW s \in Seq(T), NEW k \in 1 .. Len(s)
  PROVE  LET t == SubSeq(s, 1, k - 1) \o SubSeq(s, k + 1, Len(s)) IN
           /\ t \in Seq(T) /\ Len(t) = Len(s) - 1
           /\ \A i \in 1 .. Len(s) - 1 : t[i] = IF i < k THEN s[i] ELSE s[i + 1]
<1> DEFINE x == SubSeq(s, 1, k - 1)
           y == SubSeq(s, k + 1, Len(s))
<1>1. Len(s) \in Nat /\ k \in Nat \ {0} /\ k <= Len(s)
  OBVIOUS
<1>2. x \in Seq(T) /\ Len(x) = k - 1 /\ \A i \in 1 .. k - 1 : x[i] = s[i]
  <2>1. \A i \in 1 .. k - 1 : s[i] \in T
    BY <1>1
  <2> QED BY <1>1, <2>1, SubSeqProperties
<1>3. y \in Seq(T) /\ Len(y) = Len(s) - k /\ \A i \in 1 .. Len(s) - k : y[i] = s[k + i]
  <2>1. \A i \in k + 1 .. Len(s) : s[i] \in T
    BY <1>1
  <2>2. /\ y \in Seq(T) /\ Len(y) = Len(s) - k
        /\ \A i \in 1 .. Len(s) - (k + 1) + 1 : y[i] = s[k + 1 + i - 1]
    BY <1>1, <2>1, SubSeqProperties
  <2>3. \A i \in 1 .. Len(s) - k : i \in 1 .. Len(s) - (k + 1) + 1 /\ k + 1 + i - 1 = k + i
    BY <1>1
  <2> QED BY <2>2, <2>3
<1> HIDE DEF x, y
<1>4. /\ x \o y \in Seq(T) /\ Len(x \o y) = Len(x) + Len(y)
      /\ \A i \in 1 .. Len(x) + Len(y) : (x \o y)[i] = IF i <= Len(x) THEN x[i] ELSE y[i - Len(x)]
  BY <1>2, <1>3, ConcatProperties
<1>5. Len(x) + Len(y) = Len(s) - 1
  BY <1>1, <1>2, <1>3
<1>6. ASSUME NEW i \in 1 .. Len(s) - 1
      PROVE  (x \o y)[i] = IF i < k THEN s[i] ELSE s[i + 1]
  <2>1. CASE i < k
    BY <1>1, <1>2, <1>4, <1>5, <2>1
  <2>2. CASE i >= k
    <3>0. i \in 1 .. Len(x) + Len(y) /\ ~(i <= Len(x)) /\ Len(x) = k - 1
      BY <1>1, <1>2, <1>5, <2>2
    <3>1. (x \o y)[i] = y[i - (k - 1)]
      BY <1>4, <3>0
    <3>2. i - (k - 1) \in 1 .. Len(s) - k /\ k + (i - (k - 1)) = i + 1
      BY <1>1, <2>2
    <3>3. y[i - (k - 1)] = s[i + 1]
      BY <1>3, <3>2
    <3> QED BY <2>2, <3>1, <3>3
  <2>3. i < k \/ i >= k
    BY <1>1
  <2> QED BY <2>1, <2>2, <2>3
<1> QED BY <1>4, <1>5, <1>6 DEF x, y

-----------------------------------------------------------------------------
(***************************************************************************)
(* The dictionary and its indices.                                          *)
(***************************************************************************)

Units == ToSet(Characters) \X (1 .. 3)
OneByteIn(p) == \E i \in 1 .. Len(p) : IsOneByte(p[i][1])

\* The bytes of a word: units whose characters are those of the word.
UnitsOf(S) == {u \in Seq(Units) : Len(u) >= 1 /\ \A i \in 1 .. Len(u) : u[i][1] \in S}

LEMMA BytesFacts ==
  ASSUME NEW w \in Seq(ToSet(Characters)), Len(w) >= 1
  PROVE  Bytes(w) \in UnitsOf(ToSet(w))
<1> DEFINE G == UnitsOf(ToSet(w))
           size(k) == IF IsOneByte(w[k]) THEN 1 ELSE 3
           ss == [k \in DOMAIN w |-> [i \in 1 .. size(k) |-> <<w[k], i>>]]
<1>1. Len(w) \in Nat /\ DOMAIN w = 1 .. Len(w) /\ \A k \in 1 .. Len(w) : w[k] \in ToSet(Characters) /\ w[k] \in ToSet(w)
  BY DEF ToSet
<1>2. ASSUME NEW k \in 1 .. Len(w) PROVE [i \in 1 .. size(k) |-> <<w[k], i>>] \in G
  <2>1. size(k) \in {1, 3}
    OBVIOUS
  <2> HIDE DEF size
  <2> DEFINE u == [i \in 1 .. size(k) |-> <<w[k], i>>]
  <2>2. ASSUME NEW i \in 1 .. size(k) PROVE u[i] \in Units /\ u[i][1] = w[k]
    <3>1. u[i] = <<w[k], i>> /\ i \in 1 .. 3
      BY <2>1
    <3> HIDE DEF u
    <3> QED BY <1>1, <3>1 DEF Units
  <2>3. u \in Seq(Units) /\ Len(u) = size(k)
    <3>1. u \in [1 .. size(k) -> Units]
      BY <2>2
    <3>2. DOMAIN u = 1 .. size(k) /\ size(k) \in Nat
      BY <2>1
    <3> HIDE DEF u
    <3> QED BY <3>1, <3>2, SeqDef, LenProperties
  <2> HIDE DEF u
  <2>4. u \in G
    BY <1>1, <2>1, <2>2, <2>3 DEF UnitsOf
  <2> QED BY <2>4 DEF u
<1>3. ss \in Seq(G) /\ Len(ss) = Len(w)
  <2> HIDE DEF G, size
  <2>1. ss \in [1 .. Len(w) -> G] /\ DOMAIN ss = 1 .. Len(w)
    BY <1>1, <1>2
  <2> HIDE DEF ss
  <2> QED BY <1>1, <2>1, SeqDef, LenProperties
<1>4. ASSUME NEW u \in G, NEW v \in G PROVE u \o v \in G
  <2>1. /\ u \in Seq(Units) /\ Len(u) >= 1 /\ \A i \in 1 .. Len(u) : u[i][1] \in ToSet(w)
        /\ v \in Seq(Units) /\ Len(v) >= 1 /\ \A i \in 1 .. Len(v) : v[i][1] \in ToSet(w)
    BY DEF UnitsOf
  <2>2. /\ u \o v \in Seq(Units) /\ Len(u \o v) = Len(u) + Len(v)
        /\ \A i \in 1 .. Len(u) + Len(v) : (u \o v)[i] = IF i <= Len(u) THEN u[i] ELSE v[i - Len(u)]
    BY <2>1, ConcatProperties
  <2>3. Len(u) \in Nat /\ Len(v) \in Nat
    BY <2>1
  <2>4. ASSUME NEW i \in 1 .. Len(u) + Len(v) PROVE (u \o v)[i][1] \in ToSet(w)
    <3>1. i <= Len(u) => i \in 1 .. Len(u)
      BY <2>3
    <3>2. ~(i <= Len(u)) => i - Len(u) \in 1 .. Len(v)
      BY <2>3
    <3> QED BY <2>1, <2>2, <3>1, <3>2
  <2> DEFINE x == u \o v
  <2>5. x \in Seq(Units) /\ Len(x) >= 1 /\ \A i \in 1 .. Len(x) : x[i][1] \in ToSet(w)
    <3>1. Len(x) = Len(u) + Len(v) /\ x \in Seq(Units) /\ \A i \in 1 .. Len(u) + Len(v) : x[i][1] \in ToSet(w)
      BY <2>2, <2>4
    <3> HIDE DEF x
    <3> QED BY <2>1, <2>3, <3>1
  <2> HIDE DEF x
  <2>6. x \in G
    BY <2>5 DEF UnitsOf
  <2> QED BY <2>6 DEF x
<1>5. FlattenSeq(ss) \in G
  <2> HIDE DEF G, ss
  <2> QED BY <1>3, <1>4, FlattenIn
<1>6. Bytes(w) = FlattenSeq(ss)
  BY DEF Bytes
<1> QED BY <1>5, <1>6

LEMMA BytesAreUnits ==
  ASSUME NEW w \in Seq(ToSet(Characters))
  PROVE  Bytes(w) \in Seq(Units) /\ \A i \in 1 .. Len(Bytes(w)) : Bytes(w)[i][1] \in ToSet(w)
<1>1. CASE Len(w) >= 1
  BY <1>1, BytesFacts DEF UnitsOf
<1>2. CASE Len(w) = 0
  <2>1. w = <<>>
    BY <1>2, EmptySeq
  <2>2. Bytes(w) = <<>>
    <3>1. \A x : [k \in DOMAIN <<>> |-> x[k]] = <<>> 
      OBVIOUS
    <3> DEFINE ss == [k \in DOMAIN w |-> [i \in 1 .. (IF IsOneByte(w[k]) THEN 1 ELSE 3) |-> <<w[k], i>>]]
    <3>2. ss = <<>>
      BY <2>1
    <3>3. Bytes(w) = FlattenSeq(ss)
      BY DEF Bytes
    <3> HIDE DEF ss
    <3>4. Len(ss) = 0
      BY <3>2
    <3> QED BY <3>2, <3>3, <3>4 DEF FlattenSeq
  <2> QED BY <2>2
<1>3. Len(w) \in Nat
  OBVIOUS
<1> QED BY <1>1, <1>2, <1>3

LEMMA PieceFacts ==
  ASSUME NEW w \in Seq(ToSet(Characters)), NEW p \in Pieces(w)
  PROVE  p \in Seq(Units) /\ Len(p) = 3 /\ p[1][1] \in ToSet(w) /\ \A i \in 1 .. 3 : p[i][1] \in ToSet(w)
<1> DEFINE b == Bytes(w)
<1>1. b \in Seq(Units) /\ \A i \in 1 .. Len(b) : b[i][1] \in ToSet(w)
  BY BytesAreUnits
<1>2. PICK k \in 1 .. Len(b) \div 3 : p = SubSeq(b, 3 * k - 2, 3 * k)
  BY DEF Pieces
<1> HIDE DEF b
<1>3. Len(b) \in Nat /\ k \in Nat /\ k >= 1 /\ 3 * k <= Len(b)
  <2>1. Len(b) \in Nat
    BY <1>1
  <2> QED BY <1>2, <2>1
<1>4. 3 * k - 2 \in 1 .. Len(b) /\ 3 * k \in 1 .. Len(b) /\ 3 * k - 2 <= 3 * k
  BY <1>3
<1>5. \A i \in 3 * k - 2 .. 3 * k : b[i] \in Units
  BY <1>1, <1>3
<1>6. /\ p \in Seq(Units) /\ Len(p) = 3 * k - (3 * k - 2) + 1
      /\ \A i \in 1 .. 3 * k - (3 * k - 2) + 1 : p[i] = b[3 * k - 2 + i - 1]
  BY <1>1, <1>2, <1>4, <1>5, SubSeqProperties
<1>7. 3 * k - (3 * k - 2) + 1 = 3 /\ \A i \in 1 .. 3 : 3 * k - 2 + i - 1 \in 1 .. Len(b)
  BY <1>3
<1>8. ASSUME NEW i \in 1 .. 3 PROVE p[i][1] \in ToSet(w)
  <2>1. p[i] = b[3 * k - 2 + i - 1]
    BY <1>6, <1>7
  <2> QED BY <1>1, <1>7, <2>1
<1>9. 1 \in 1 .. 3
  OBVIOUS
<1> QED BY <1>6, <1>7, <1>8, <1>9

\* The digits of a number are one byte each.
LEMMA DigitsFacts ==
  ASSUME NEW n \in Nat
  PROVE  /\ to_string(n) \in Seq(Units) /\ Len(to_string(n)) >= 1
         /\ \A i \in 1 .. Len(to_string(n)) : IsOneByte(to_string(n)[i][1])
<1> DEFINE Fits(i) == i = 10 \/ Powers[i] <= n
           T == {i \in 1 .. 10 : Fits(i)}
           first == CHOOSE i \in 1 .. 10 : (i = 10 \/ Powers[i] <= n) /\ \A j \in 1 .. i - 1 : n < Powers[j]
<1>1. \A i \in 1 .. 10 : Powers[i] \in Nat \ {0}
  BY DEF Powers
<1>2. first \in 1 .. 10
  <2>1. T \in SUBSET Nat /\ 10 \in T
    OBVIOUS
  <2>2. PICK i \in T : \A j \in T : i <= j
    <3> HIDE DEF T
    <3> QED BY <2>1, Least
  <2>3. i \in 1 .. 10 /\ Fits(i)
    OBVIOUS
  <2>4. ASSUME NEW j \in 1 .. i - 1 PROVE n < Powers[j]
    <3>1. j \in 1 .. 10 /\ j # 10 /\ ~(i <= j)
      BY <2>3
    <3>2. ~Fits(j)
      BY <2>2, <3>1
    <3> QED BY <1>1, <3>1, <3>2
  <2> QED BY <2>3, <2>4
<1> DEFINE w == [i \in 1 .. 11 - first |-> Digits[((n \div Powers[first + i - 1]) % 10) + 1]]
<1>3. to_string(n) = Bytes(w)
  BY DEF to_string
<1> HIDE DEF first
<1>4. ASSUME NEW i \in 1 .. 11 - first
      PROVE  Digits[((n \div Powers[first + i - 1]) % 10) + 1] \in ToSet(Digits)
  <2>1. first + i - 1 \in 1 .. 10
    BY <1>2
  <2> DEFINE p == Powers[first + i - 1]
  <2>2. p \in Nat \ {0}
    BY <1>1, <2>1
  <2> HIDE DEF p
  <2>3. n \div p \in Nat
    BY <2>2
  <2>4. ((n \div p) % 10) + 1 \in 1 .. 10
    <3> DEFINE q == n \div p
    <3>1. q \in Nat
      BY <2>3
    <3> HIDE DEF q
    <3>2. (q % 10) + 1 \in 1 .. 10
      BY <3>1
    <3> QED BY <3>2 DEF q
  <2>5. Digits[((n \div p) % 10) + 1] \in ToSet(Digits)
    BY <2>4, DictionaryAssumption DEF ToSet
  <2> QED BY <2>5 DEF p
<1>5. ToSet(Digits) \subseteq ToSet(Characters)
  BY DictionaryAssumption DEF ToSet
<1>6. 11 - first \in Nat /\ 11 - first >= 1
  BY <1>2
<1>7. w \in [1 .. 11 - first -> ToSet(Digits)] /\ DOMAIN w = 1 .. 11 - first
  BY <1>4
<1> HIDE DEF w
<1>8. w \in Seq(ToSet(Digits)) /\ w \in Seq(ToSet(Characters)) /\ Len(w) = 11 - first
  BY <1>5, <1>6, <1>7, SeqDef, LenProperties
<1>9. ToSet(w) \subseteq ToSet(Digits)
  BY <1>7 DEF ToSet
<1>10. Bytes(w) \in UnitsOf(ToSet(w))
  BY <1>6, <1>8, BytesFacts
<1> QED BY <1>3, <1>9, <1>10 DEF UnitsOf, IsOneByte

\* Taking a part out of a sequence once makes it shorter by that part.
LEMMA TakeOutFacts ==
  ASSUME NEW S, NEW t \in Seq(S), NEW s \in SubSeqs(t)
  PROVE  /\ ReplaceFirstSubSeq(<<>>, s, t) \in Seq(S)
         /\ Len(s) \in Nat /\ Len(s) <= Len(t)
         /\ Len(ReplaceFirstSubSeq(<<>>, s, t)) = Len(t) - Len(s)
<1> DEFINE Within(i) == s \in SubSeqs(SubSeq(t, 1, i))
           T == {i \in 0 .. Len(t) : Within(i)}
           last == CHOOSE i \in 0 .. Len(t) : Within(i) /\ \A j \in 0 .. i - 1 : ~Within(j)
<1>0. Len(t) \in Nat /\ \A i \in 1 .. Len(t) : t[i] \in S
  OBVIOUS
<1>1. last \in 0 .. Len(t) /\ Within(last)
  <2>1. Within(Len(t))
    <3>1. SubSeq(t, 1, Len(t)) = t
      OBVIOUS
    <3> QED BY <3>1
  <2>2. T \in SUBSET Nat /\ Len(t) \in T
    BY <1>0, <2>1
  <2>3. PICK i \in T : \A j \in T : i <= j
    <3> HIDE DEF T
    <3> QED BY <2>2, Least
  <2>4. i \in 0 .. Len(t) /\ Within(i)
    BY <2>3
  <2>5. ASSUME NEW j \in 0 .. i - 1 PROVE ~Within(j)
    <3>1. j \in 0 .. Len(t) /\ ~(i <= j)
      BY <1>0, <2>4
    <3> QED BY <2>3, <3>1
  <2> HIDE DEF Within, T
  <2> QED BY <2>4, <2>5
<1>2. IndexFirstSubSeq(s, t) = last - (Len(s) - 1)
  BY DEF IndexFirstSubSeq
<1> HIDE DEF last
<1>3. Len(s) \in Nat /\ Len(s) <= last
  <2> DEFINE r == SubSeq(t, 1, last)
  <2>1. r \in Seq(S) /\ Len(r) = last
    BY <1>0, <1>1, SubSeqProperties
  <2>0. s \in SubSeqs(r)
    BY <1>1
  <2> HIDE DEF r
  <2>2. PICK i \in 0 .. Len(r), j \in 0 .. Len(r) : s = SubSeq(r, i + 1, j)
    BY <2>0 DEF SubSeqs
  <2>3. CASE i + 1 <= j
    <3>1. i + 1 \in 1 .. Len(r) /\ j \in 1 .. Len(r) /\ \A k \in i + 1 .. j : r[k] \in S
      BY <1>1, <2>1, <2>3
    <3>2. Len(s) = j - (i + 1) + 1
      BY <2>1, <2>2, <2>3, <3>1, SubSeqProperties
    <3> QED BY <1>1, <2>1, <2>3, <3>2
  <2>4. CASE j < i + 1
    <3>1. s = <<>>
      BY <1>1, <2>1, <2>2, <2>4, SubSeqProperties
    <3> QED BY <1>1, <3>1
  <2> QED BY <1>1, <2>1, <2>3, <2>4
<1> DEFINE i0 == last - (Len(s) - 1)
           prefix == SubSeq(t, 1, i0 - 1)
           suffix == SubSeq(t, i0 + Len(s), Len(t))
<1>4. i0 \in Nat /\ i0 >= 1 /\ i0 - 1 = last - Len(s) /\ i0 + Len(s) = last + 1
  BY <1>0, <1>1, <1>3
<1>5. prefix \in Seq(S) /\ Len(prefix) = last - Len(s)
  <2>1. i0 - 1 \in 0 .. Len(t) /\ \A i \in 1 .. i0 - 1 : t[i] \in S
    BY <1>0, <1>1, <1>3, <1>4
  <2> HIDE DEF i0
  <2> QED BY <1>0, <1>1, <1>3, <1>4, <2>1, SubSeqProperties
<1>6. suffix \in Seq(S) /\ Len(suffix) = Len(t) - last
  <2> HIDE DEF i0
  <2>1. suffix = SubSeq(t, last + 1, Len(t))
    BY <1>4
  <2>2. \A i \in last + 1 .. Len(t) : t[i] \in S
    BY <1>0, <1>1
  <2> HIDE DEF suffix
  <2> QED BY <1>0, <1>1, <2>1, <2>2, SubSeqProperties
<1>7. ReplaceFirstSubSeq(<<>>, s, t) = prefix \o <<>> \o suffix
  BY <1>2 DEF ReplaceFirstSubSeq, ReplaceSubSeqAt
<1> HIDE DEF prefix, suffix, i0
<1>8. prefix \o <<>> = prefix
  BY <1>5
<1>9. prefix \o suffix \in Seq(S) /\ Len(prefix \o suffix) = Len(prefix) + Len(suffix)
  BY <1>5, <1>6, ConcatProperties
<1> DEFINE x == ReplaceFirstSubSeq(<<>>, s, t)
<1>10. x \in Seq(S) /\ Len(x) = Len(prefix) + Len(suffix)
  BY <1>7, <1>8, <1>9
<1> HIDE DEF x
<1>11. Len(x) = Len(t) - Len(s) /\ Len(s) <= Len(t)
  BY <1>0, <1>1, <1>3, <1>5, <1>6, <1>10
<1> QED BY <1>3, <1>10, <1>11 DEF x

-----------------------------------------------------------------------------
(* The builder. *)

\* Nothing but rows of an index is missing.
Complete == ToSet(failed) \subseteq {"row"}

Rows == [word : AllWords, freq : Nat]

\* The words of a table are those the loop has passed, in its order.
Follows(l, n) == Len(dict[l]) = n /\ \A i \in 1 .. n : dict[l][i].word = order[i]

\* What IndexTrue says of a row.
RowTrue(l, row) ==
  l = "En" \/ (Len(row[1]) = 3 /\ ~HasOneByte([i \in 1 .. 3 |-> row[1][i][1]])) =>
    \E n \in DOMAIN dict[l] : row[2] = to_string(n) /\ row[1][1][1] \in ToSet(dict[l][n].word)

DicTypes ==
  /\ dpc \in {"read", "insert", "index", "done"} /\ lang \in Languages
  /\ DOMAIN files = Languages /\ \A l \in Languages : files[l] \in Seq(Texts[l])
  /\ DOMAIN count \subseteq AllWords /\ count \in [DOMAIN count -> Nat]
  /\ order \in Seq(AllWords) /\ Len(order) <= Cardinality(AllWords)
  /\ pos \in 0 .. Len(order) /\ (dpc = "insert" => order \in Seq(DOMAIN count))
  /\ dict \in [Languages -> Seq(Rows)]
  /\ index \in [Languages -> SUBSET (Seq(Units) \X Seq(Units))]
  /\ failed \in Seq({"read", "word", "row"}) /\ Len(failed) <= MaxFailures
  /\ memory \subseteq Seq(Units) \X Nat /\ \A m \in memory : Len(m[1]) = 3
  /\ sql \in [key : Seq(Units), piece : Seq(Units), number : Seq(Units)]

\* A table is empty until its words are inserted, one INSERT for each.
DicSizes ==
  /\ \A l \in Languages : Len(dict[l]) <= Cardinality(AllWords)
  /\ lang = "En" => dict["Cn"] = <<>>
  /\ dpc = "read" => dict[lang] = <<>>
  /\ dpc = "insert" => Len(dict[lang]) <= pos

\* Both loops over the words see the same order, and the positions kept for
\* the pieces are identifiers.
DicAgrees ==
  Complete =>
    /\ dpc = "insert" => Follows(lang, pos)
    /\ dpc = "index" => Follows(lang, Len(order))
    /\ \A m \in memory : m[2] \in DOMAIN dict["Cn"] /\ m[1] \in Pieces(dict["Cn"][m[2]].word)
    /\ \A l \in Languages : \A row \in index[l] : RowTrue(l, row)

\* A statement whose piece has lost nothing has the piece of its key; only a
\* piece with digits can lose them.
DicStatement ==
  /\ Len(sql.piece) <= 3
  /\ sql.piece = sql.key \/ Len(sql.piece) < 3
  /\ ~OneByteIn(sql.key) => sql.piece = sql.key /\ sql.number = <<>>

DicInv == DicTypes /\ DicSizes /\ DicAgrees /\ DicStatement

LEMMA ToSetFinite ==
  ASSUME NEW S, NEW t \in Seq(S)
  PROVE  IsFiniteSet(ToSet(t)) /\ ToSet(t) \subseteq S
<1>1. Len(t) \in Nat /\ DOMAIN t = 1 .. Len(t) /\ \A i \in 1 .. Len(t) : t[i] \in S
  OBVIOUS
<1>2. IsFiniteSet(1 .. Len(t))
  BY <1>1, FS_Interval
<1>3. t \in Surjection(1 .. Len(t), ToSet(t))
  BY <1>1 DEF Surjection, ToSet
<1> QED BY <1>1, <1>2, <1>3, FS_Surjection DEF ToSet

LEMMA AllWordsFacts ==
  /\ IsFiniteSet(AllWords) /\ Cardinality(AllWords) \in Nat
  /\ AllWords \subseteq Seq(ToSet(Characters))
  /\ \A l \in Languages : \A t \in Texts[l] : t \in Seq(AllWords) /\ ToSet(t) \subseteq AllWords
<1> DEFINE Ts == UNION {Texts[l] : l \in Languages}
           Ws == {ToSet(t) : t \in Ts}
<1>1. Ts = Texts["En"] \union Texts["Cn"] /\ AllWords = UNION Ws
  BY DEF AllWords, Languages
<1>2. IsFiniteSet(Ts) /\ Ts \subseteq Seq(Seq(ToSet(Characters)))
  <2>1. IsFiniteSet(Texts["En"]) /\ IsFiniteSet(Texts["Cn"])
    BY DictionaryAssumption DEF Languages
  <2>2. Ts \subseteq Seq(Seq(ToSet(Characters)))
    BY DictionaryAssumption
  <2> QED BY <1>1, <2>1, <2>2, FS_Union
<1> HIDE DEF Ts
<1>3. IsFiniteSet(Ws)
  <2> DEFINE f == [t \in Ts |-> ToSet(t)]
  <2>1. f \in Surjection(Ts, Ws)
    BY DEF Surjection
  <2> QED BY <1>2, <2>1, FS_Surjection
<1>4. \A W \in Ws : IsFiniteSet(W) /\ W \subseteq Seq(ToSet(Characters))
  BY <1>2, ToSetFinite
<1>5. ASSUME NEW l \in Languages, NEW t \in Texts[l] PROVE t \in Seq(AllWords) /\ ToSet(t) \subseteq AllWords
  <2>1. t \in Ts
    BY DEF Ts
  <2>2. ToSet(t) \subseteq AllWords
    BY <1>1, <2>1
  <2>3. t \in Seq(Seq(ToSet(Characters)))
    BY <1>2, <2>1
  <2>4. Len(t) \in Nat /\ t \in [1 .. Len(t) -> AllWords]
    BY <2>2, <2>3 DEF ToSet
  <2> QED BY <2>2, <2>4, SeqDef
<1>6. IsFiniteSet(AllWords) /\ AllWords \subseteq Seq(ToSet(Characters))
  <2> HIDE DEF Ws
  <2> QED BY <1>1, <1>3, <1>4, FS_UNION
<1> QED BY <1>5, <1>6, FS_CardinalityType

\* A call that fails is noted, and no other failure is forgotten.
LEMMA FailFacts ==
  ASSUME DicTypes, NEW kind \in {"read", "word", "row"}, NEW n \in Nat, Fail(kind, n)
  PROVE  /\ failed' \in Seq({"read", "word", "row"}) /\ Len(failed') <= MaxFailures
         /\ Complete' => Complete /\ (n = 0 \/ kind = "row")
<1> DEFINE K == {"read", "word", "row"}
           more == [i \in 1 .. n |-> kind]
<1>1. failed \in Seq(K) /\ Len(failed) + n <= MaxFailures /\ failed' = failed \o more
  BY DEF DicTypes, Fail
<1>2. more \in Seq(K) /\ Len(more) = n /\ \A i \in 1 .. n : more[i] = kind
  <2>1. more \in [1 .. n -> K] /\ DOMAIN more = 1 .. n /\ \A i \in 1 .. n : more[i] = kind
    OBVIOUS
  <2> HIDE DEF more
  <2> QED BY <2>1, SeqDef, LenProperties
<1> HIDE DEF more, K
<1>3. /\ failed' \in Seq(K) /\ Len(failed') = Len(failed) + n /\ Len(failed) \in Nat
      /\ \A i \in 1 .. Len(failed) + n : failed'[i] = IF i <= Len(failed) THEN failed[i] ELSE more[i - Len(failed)]
  <2>1. /\ failed \o more \in Seq(K) /\ Len(failed \o more) = Len(failed) + Len(more)
        /\ \A i \in 1 .. Len(failed) + Len(more) :
             (failed \o more)[i] = IF i <= Len(failed) THEN failed[i] ELSE more[i - Len(failed)]
    BY <1>1, <1>2, ConcatProperties
  <2>2. Len(failed) \in Nat
    BY <1>1
  <2> QED BY <1>1, <1>2, <2>1, <2>2
<1>4. DOMAIN failed' = 1 .. Len(failed) + n /\ DOMAIN failed = 1 .. Len(failed)
  BY <1>1, <1>3
<1>5. ToSet(failed) \subseteq ToSet(failed')
  <2>1. ASSUME NEW i \in 1 .. Len(failed) PROVE failed[i] \in ToSet(failed')
    <3>1. i \in 1 .. Len(failed) + n /\ i <= Len(failed)
      BY <1>3
    <3>2. failed'[i] = failed[i]
      BY <1>3, <3>1
    <3> QED BY <1>4, <3>1, <3>2 DEF ToSet
  <2> QED BY <1>4, <2>1 DEF ToSet
<1>6. ASSUME n # 0 PROVE kind \in ToSet(failed')
  <2>1. Len(failed) + n \in 1 .. Len(failed) + n /\ ~(Len(failed) + n <= Len(failed)) /\ Len(failed) + n - Len(failed) = n
    BY <1>3, <1>6
  <2>2. failed'[Len(failed) + n] = kind
    BY <1>2, <1>3, <1>6, <2>1
  <2> QED BY <1>4, <2>1, <2>2 DEF ToSet
<1> QED BY <1>1, <1>3, <1>5, <1>6 DEF Complete, K

LEMMA InsertRowsFacts ==
  ASSUME DicTypes, NEW rows, IsFiniteSet(rows), rows \subseteq Seq(Units) \X Seq(Units), InsertRows(rows)
  PROVE  /\ failed' \in Seq({"read", "word", "row"}) /\ Len(failed') <= MaxFailures
         /\ Complete' => Complete
         /\ index' \in [Languages -> SUBSET (Seq(Units) \X Seq(Units))]
         /\ \A l \in Languages : \A row \in index'[l] : row \in index[l] \/ (l = lang /\ row \in rows)
<1>1. PICK done \in SUBSET rows :
        index' = [index EXCEPT ![lang] = @ \union done] /\ Fail("row", Cardinality(rows \ done))
  BY DEF InsertRows
<1>2. Cardinality(rows \ done) \in Nat
  <2>1. IsFiniteSet(rows \ done)
    BY FS_Difference
  <2> QED BY <2>1, FS_CardinalityType
<1>3. /\ failed' \in Seq({"read", "word", "row"}) /\ Len(failed') <= MaxFailures
      /\ Complete' => Complete
  BY <1>1, <1>2, FailFacts
<1>4. index \in [Languages -> SUBSET (Seq(Units) \X Seq(Units))] /\ lang \in Languages
  BY DEF DicTypes
<1>5. done \subseteq Seq(Units) \X Seq(Units)
  OBVIOUS
<1>6. index' \in [Languages -> SUBSET (Seq(Units) \X Seq(Units))]
  BY <1>1, <1>4, <1>5
<1>7. \A l \in Languages : index'[l] = IF l = lang THEN index[l] \union done ELSE index[l]
  BY <1>1, <1>4
<1> QED BY <1>3, <1>6, <1>7

LEMMA CountFacts ==
  ASSUME NEW l \in Languages, NEW t \in Texts[l],
         DOMAIN count \subseteq AllWords, count \in [DOMAIN count -> Nat]
  PROVE  LET c == Added(count, Counted(l, t)) IN DOMAIN c \subseteq AllWords /\ c \in [DOMAIN c -> Nat]
<1> DEFINE g == Counted(l, t)
           c == Added(count, g)
<1>1. t \in Seq(AllWords) /\ ToSet(t) \subseteq AllWords
  BY AllWordsFacts
<1>2. ASSUME NEW w PROVE Cardinality({i \in DOMAIN t : t[i] = w}) \in Nat
  <2>1. IsFiniteSet(DOMAIN t)
    BY <1>1, FS_Interval
  <2>2. {i \in DOMAIN t : t[i] = w} \in SUBSET (DOMAIN t)
    OBVIOUS
  <2> QED BY <2>1, <2>2, FS_Subset, FS_CardinalityType
<1>3. DOMAIN g \subseteq AllWords /\ \A w \in DOMAIN g : g[w] \in Nat
  BY <1>1, <1>2 DEF Counted
<1> HIDE DEF g
<1>4. /\ DOMAIN c = DOMAIN count \union DOMAIN g
      /\ c = [w \in DOMAIN count \union DOMAIN g |->
                (IF w \in DOMAIN count THEN count[w] ELSE 0) + (IF w \in DOMAIN g THEN g[w] ELSE 0)]
  BY DEF Added
<1>5. ASSUME NEW w \in DOMAIN c PROVE c[w] \in Nat
  <2>1. c[w] = (IF w \in DOMAIN count THEN count[w] ELSE 0) + (IF w \in DOMAIN g THEN g[w] ELSE 0)
    BY <1>4
  <2>2. (IF w \in DOMAIN count THEN count[w] ELSE 0) \in Nat /\ (IF w \in DOMAIN g THEN g[w] ELSE 0) \in Nat
    BY <1>3
  <2> HIDE DEF c
  <2> QED BY <2>1, <2>2
<1>6. c \in [DOMAIN c -> Nat]
  BY <1>4, <1>5
<1> QED BY <1>3, <1>4, <1>6 DEF g

LEMMA IterationFacts ==
  ASSUME NEW l, NEW words, words \subseteq AllWords, NEW s \in Iterations(l, words)
  PROVE  s \in Seq(AllWords) /\ s \in Seq(words) /\ Len(s) <= Cardinality(AllWords)
<1>1. IsFiniteSet(words) /\ Cardinality(words) <= Cardinality(AllWords)
  BY AllWordsFacts, FS_Subset
<1>2. Cardinality(words) \in Nat
  BY <1>1, FS_CardinalityType
<1>3. s \in [1 .. Cardinality(words) -> words]
  BY DEF Iterations, SetToSeqs
<1>4. s \in Seq(words) /\ Len(s) = Cardinality(words)
  BY <1>2, <1>3, SeqDef, LenProperties
<1> QED BY <1>1, <1>4, SeqDef

LEMMA DicStart ==
  ASSUME NEW en \in Articles("En"), NEW cn \in Articles("Cn"), DictStart(en, cn)
  PROVE  DicInv
<1>0. /\ dpc = "read" /\ lang = "En" /\ files = [l \in Languages |-> IF l = "En" THEN en ELSE cn]
      /\ count = <<>> /\ order = <<>> /\ pos = 0 /\ memory = {}
      /\ sql = [key |-> <<>>, piece |-> <<>>, number |-> <<>>]
      /\ dict = [l \in Languages |-> <<>>] /\ index = [l \in Languages |-> {}] /\ failed = <<>>
  BY DEF DictStart
<1>1. ASSUME NEW l \in Languages PROVE \A a \in Articles(l) : a \in Seq(Texts[l])
  <2> SUFFICES ASSUME NEW a \in Articles(l) PROVE a \in Seq(Texts[l])
    OBVIOUS
  <2>1. PICK n \in 0 .. MaxFiles : a \in [1 .. n -> Texts[l]]
    BY DEF Articles
  <2>2. n \in Nat
    BY DictionaryAssumption
  <2> QED BY <2>1, <2>2, SeqDef
<1>2. DOMAIN files = Languages /\ \A l \in Languages : files[l] \in Seq(Texts[l])
  BY <1>0, <1>1 DEF Languages
<1>3. Len(<<>>) = 0 /\ \A S : <<>> \in Seq(S)
  OBVIOUS
<1>4. DOMAIN count \subseteq AllWords /\ count \in [DOMAIN count -> Nat]
  BY <1>0
<1>5. MaxFailures \in Nat /\ Cardinality(AllWords) \in Nat
  BY DictionaryAssumption, AllWordsFacts
<1>6. DicTypes
  <2>1. order \in Seq(AllWords) /\ Len(order) <= Cardinality(AllWords) /\ pos \in 0 .. Len(order)
    BY <1>0, <1>3, <1>5
  <2>2. dict \in [Languages -> Seq(Rows)] /\ index \in [Languages -> SUBSET (Seq(Units) \X Seq(Units))]
    BY <1>0, <1>3
  <2>3. failed \in Seq({"read", "word", "row"}) /\ Len(failed) <= MaxFailures
    BY <1>0, <1>3, <1>5
  <2>4. sql \in [key : Seq(Units), piece : Seq(Units), number : Seq(Units)]
    BY <1>0, <1>3
  <2>5. dpc \in {"read", "insert", "index", "done"} /\ lang \in Languages
    BY <1>0 DEF Languages
  <2>6. memory \subseteq Seq(Units) \X Nat /\ \A m \in memory : Len(m[1]) = 3
    BY <1>0
  <2> QED BY <1>0, <1>2, <1>4, <2>1, <2>2, <2>3, <2>4, <2>5, <2>6 DEF DicTypes
<1>7. DicSizes
  <2>1. \A l \in Languages : dict[l] = <<>>
    BY <1>0
  <2> QED BY <1>0, <1>3, <1>5, <2>1 DEF DicSizes, Languages
<1>8. DicAgrees
  BY <1>0 DEF DicAgrees
<1>9. DicStatement
  BY <1>0, <1>3 DEF DicStatement
<1> QED BY <1>6, <1>7, <1>8, <1>9 DEF DicInv

\* A row stays true while its table only grows.
LEMMA RowStays ==
  ASSUME NEW l \in Languages, NEW row, RowTrue(l, row), dict[l] \in Seq(Rows),
         dict'[l] = dict[l] \/ \E r \in Rows : dict'[l] = Append(dict[l], r)
  PROVE  RowTrue(l, row)'
<1>1. ASSUME NEW n \in DOMAIN dict[l] PROVE n \in DOMAIN dict'[l] /\ dict'[l][n] = dict[l][n]
  <2>1. CASE dict'[l] = dict[l]
    BY <2>1
  <2>2. ASSUME NEW r \in Rows, dict'[l] = Append(dict[l], r) PROVE n \in DOMAIN dict'[l] /\ dict'[l][n] = dict[l][n]
    BY <2>2
  <2> QED BY <2>1, <2>2
<1> QED BY <1>1 DEF RowTrue

LEMMA ReadFileStep == DicInv /\ ReadFile => DicInv'
<1> SUFFICES ASSUME DicInv, ReadFile PROVE DicInv'
  OBVIOUS
<1>1. /\ dpc = "read" /\ files[lang] # <<>> /\ files' = [files EXCEPT ![lang] = Tail(@)]
      /\ count' = Added(count, Counted(lang, Head(files[lang])))
      /\ UNCHANGED <<dpc, lang, texts, order, pos, memory, sql, dict, index, failed>>
  BY DEF ReadFile
<1>2. DicTypes
  BY DEF DicInv
<1>3. lang \in Languages /\ DOMAIN files = Languages /\ \A l \in Languages : files[l] \in Seq(Texts[l])
  BY <1>2 DEF DicTypes
<1>4. Head(files[lang]) \in Texts[lang] /\ Tail(files[lang]) \in Seq(Texts[lang])
  <2> DEFINE f == files[lang]
             S == Texts[lang]
  <2>1. f \in Seq(S) /\ f # <<>>
    BY <1>1, <1>3
  <2> HIDE DEF f, S
  <2>2. Head(f) \in S /\ Tail(f) \in Seq(S)
    BY <2>1
  <2> QED BY <2>2 DEF f, S
<1>5. DOMAIN count' \subseteq AllWords /\ count' \in [DOMAIN count' -> Nat]
  BY <1>1, <1>2, <1>3, <1>4, CountFacts DEF DicTypes
<1>6. DOMAIN files' = Languages /\ \A l \in Languages : files'[l] \in Seq(Texts[l])
  <2>1. DOMAIN files' = Languages /\ \A l \in Languages : l # lang => files'[l] = files[l]
    BY <1>1, <1>3
  <2>2. files'[lang] = Tail(files[lang])
    BY <1>1, <1>3
  <2> QED BY <1>3, <1>4, <2>1, <2>2
<1>7. DicTypes'
  BY <1>1, <1>2, <1>5, <1>6 DEF DicTypes
<1>8. DicSizes' /\ DicAgrees' /\ DicStatement'
  BY <1>1 DEF DicInv, DicSizes, DicAgrees, DicStatement, Complete, Follows, RowTrue
<1> QED BY <1>7, <1>8 DEF DicInv

LEMMA AllReadStep == DicInv /\ AllRead => DicInv'
<1> SUFFICES ASSUME DicInv, AllRead PROVE DicInv'
  OBVIOUS
<1>1. /\ dpc = "read" /\ order' \in Iterations(lang, DOMAIN count) /\ pos' = 0 /\ dpc' = "insert"
      /\ UNCHANGED <<lang, files, texts, count, memory, sql, dict, index, failed>>
  BY DEF AllRead
<1>2. DicTypes /\ dict[lang] = <<>>
  BY <1>1 DEF DicInv, DicSizes
<1>3. order' \in Seq(AllWords) /\ order' \in Seq(DOMAIN count') /\ Len(order') <= Cardinality(AllWords)
  BY <1>1, <1>2, IterationFacts DEF DicTypes
<1>4. DicTypes'
  <2>1. pos' \in 0 .. Len(order')
    BY <1>1, <1>3
  <2> QED BY <1>1, <1>2, <1>3, <2>1 DEF DicTypes
<1>5. DicSizes' /\ DicStatement'
  BY <1>1, <1>2 DEF DicInv, DicSizes, DicStatement
<1>6. DicAgrees'
  <2>1. Follows(lang, 0)'
    BY <1>1, <1>2 DEF Follows
  <2> QED BY <1>1, <2>1 DEF DicInv, DicAgrees, Complete, Follows, RowTrue
<1> QED BY <1>4, <1>5, <1>6 DEF DicInv

LEMMA CannotOpenStep == DicInv /\ CannotOpen => DicInv'
<1> SUFFICES ASSUME DicInv, CannotOpen PROVE DicInv'
  OBVIOUS
<1>1. /\ dpc = "read" /\ Fail("read", 1) /\ files' = [files EXCEPT ![lang] = <<>>]
      /\ order' \in Iterations(lang, DOMAIN count) /\ pos' = 0 /\ dpc' = "index"
      /\ UNCHANGED <<lang, texts, count, memory, sql, dict, index>>
  BY DEF CannotOpen
<1>2. DicTypes
  BY DEF DicInv
<1>3. order' \in Seq(AllWords) /\ Len(order') <= Cardinality(AllWords)
  BY <1>1, <1>2, IterationFacts DEF DicTypes
<1>4. failed' \in Seq({"read", "word", "row"}) /\ Len(failed') <= MaxFailures /\ ~Complete'
  BY <1>1, <1>2, FailFacts
<1>5. DOMAIN files' = Languages /\ \A l \in Languages : files'[l] \in Seq(Texts[l])
  <2>1. \A S : <<>> \in Seq(S)
    OBVIOUS
  <2> QED BY <1>1, <1>2, <2>1 DEF DicTypes
<1>6. DicTypes'
  <2>1. pos' \in 0 .. Len(order')
    BY <1>1, <1>3
  <2> QED BY <1>1, <1>2, <1>3, <1>4, <1>5, <2>1 DEF DicTypes
<1>7. DicSizes' /\ DicStatement'
  BY <1>1 DEF DicInv, DicSizes, DicStatement
<1>8. DicAgrees'
  BY <1>4 DEF DicAgrees
<1> QED BY <1>6, <1>7, <1>8 DEF DicInv

LEMMA AllInsertedStep == DicInv /\ AllInserted => DicInv'
<1> SUFFICES ASSUME DicInv, AllInserted PROVE DicInv'
  OBVIOUS
<1>1. /\ dpc = "insert" /\ pos = Len(order) /\ pos' = 0 /\ dpc' = "index"
      /\ UNCHANGED <<lang, files, texts, count, order, memory, sql, dict, index, failed>>
  BY DEF AllInserted
<1>2. DicTypes'
  <2>1. pos' \in 0 .. Len(order')
    BY <1>1 DEF DicInv, DicTypes
  <2> QED BY <1>1, <2>1 DEF DicInv, DicTypes
<1>3. DicSizes' /\ DicStatement'
  BY <1>1 DEF DicInv, DicSizes, DicStatement
<1>4. DicAgrees'
  BY <1>1 DEF DicInv, DicAgrees, Complete, Follows, RowTrue
<1> QED BY <1>2, <1>3, <1>4 DEF DicInv

LEMMA NextLanguageStep == DicInv /\ NextLanguage => DicInv'
<1> SUFFICES ASSUME DicInv, NextLanguage PROVE DicInv'
  OBVIOUS
<1>1. /\ dpc = "index" /\ dpc' = (IF lang = "En" THEN "read" ELSE "done")
      /\ lang' = "Cn" /\ count' = <<>> /\ order' = <<>> /\ pos' = 0
      /\ UNCHANGED <<files, texts, memory, sql, dict, index, failed>>
  BY DEF NextLanguage
<1>2. DicTypes'
  <2>1. count' \in [DOMAIN count' -> Nat] /\ DOMAIN count' \subseteq AllWords
    BY <1>1
  <2>2. order' \in Seq(AllWords) /\ Len(order') <= Cardinality(AllWords) /\ pos' \in 0 .. Len(order')
    BY <1>1, AllWordsFacts
  <2>3. dpc' \in {"read", "insert", "index", "done"} /\ lang' \in Languages
    BY <1>1 DEF Languages
  <2> QED BY <1>1, <2>1, <2>2, <2>3 DEF DicInv, DicTypes
<1>3. DicSizes' /\ DicStatement'
  BY <1>1 DEF DicInv, DicSizes, DicStatement
<1>4. DicAgrees'
  BY <1>1 DEF DicInv, DicAgrees, Complete, RowTrue
<1> QED BY <1>2, <1>3, <1>4 DEF DicInv

\* English: the letters of a word, with its identifier.
LEMMA IndexWordStep == DicInv /\ IndexWord => DicInv'
<1> SUFFICES ASSUME DicInv, IndexWord PROVE DicInv'
  OBVIOUS
<1> DEFINE w == order[pos + 1]
           rows == {<<Bytes(<<c>>), to_string(Position)>> : c \in ToSet(w)}
<1>1. /\ dpc = "index" /\ lang = "En" /\ pos < Len(order) /\ InsertRows(rows) /\ pos' = pos + 1
      /\ UNCHANGED <<dpc, lang, files, texts, count, order, memory, sql, dict>>
  BY DEF IndexWord
<1>2. DicTypes
  BY DEF DicInv
<1>3. /\ order \in Seq(AllWords) /\ pos \in Nat /\ Len(order) \in Nat /\ pos + 1 \in 1 .. Len(order)
      /\ w \in Seq(ToSet(Characters))
  <2>1. order \in Seq(AllWords) /\ pos \in 0 .. Len(order)
    BY <1>2 DEF DicTypes
  <2>2. pos \in Nat /\ Len(order) \in Nat /\ pos + 1 \in 1 .. Len(order)
    BY <1>1, <2>1
  <2>3. w \in AllWords
    BY <2>1, <2>2
  <2> QED BY <2>1, <2>2, <2>3, AllWordsFacts
<1>4. Position = pos + 1 /\ to_string(pos + 1) \in Seq(Units)
  BY <1>3, DigitsFacts DEF Position
<1> HIDE DEF w
<1>5. IsFiniteSet(ToSet(w)) /\ ToSet(w) \subseteq ToSet(Characters)
  BY <1>3, ToSetFinite
<1>6. ASSUME NEW c \in ToSet(w) PROVE Bytes(<<c>>) \in Seq(Units) /\ Bytes(<<c>>)[1][1] = c
  <2>1. <<c>> \in Seq(ToSet(Characters)) /\ Len(<<c>>) = 1 /\ ToSet(<<c>>) = {c}
    BY <1>5 DEF ToSet
  <2> DEFINE v == <<c>>
  <2> HIDE DEF v
  <2>2. Bytes(v) \in UnitsOf({c})
    <3>1. v \in Seq(ToSet(Characters)) /\ Len(v) >= 1 /\ ToSet(v) = {c}
      BY <2>1 DEF v
    <3>2. Bytes(v) \in UnitsOf(ToSet(v))
      BY <3>1, BytesFacts
    <3> QED BY <3>1, <3>2
  <2>3. Bytes(v) \in Seq(Units) /\ Bytes(v)[1][1] = c
    BY <2>2 DEF UnitsOf
  <2> QED BY <2>3 DEF v
<1>7. IsFiniteSet(rows) /\ rows \subseteq Seq(Units) \X Seq(Units)
  <2> DEFINE f == [c \in ToSet(w) |-> <<Bytes(<<c>>), to_string(Position)>>]
  <2>1. f \in Surjection(ToSet(w), rows)
    BY DEF Surjection
  <2>2. IsFiniteSet(rows)
    BY <1>5, <2>1, FS_Surjection
  <2>3. ASSUME NEW c \in ToSet(w) PROVE <<Bytes(<<c>>), to_string(Position)>> \in Seq(Units) \X Seq(Units)
    <3>1. Bytes(<<c>>) \in Seq(Units) /\ to_string(Position) \in Seq(Units)
      BY <1>4, <1>6
    <3> QED BY <3>1
  <2>4. rows \subseteq Seq(Units) \X Seq(Units)
    BY <2>3
  <2> QED BY <2>2, <2>4
<1> HIDE DEF rows
<1>8. /\ failed' \in Seq({"read", "word", "row"}) /\ Len(failed') <= MaxFailures
      /\ Complete' => Complete
      /\ index' \in [Languages -> SUBSET (Seq(Units) \X Seq(Units))]
      /\ \A l \in Languages : \A row \in index'[l] : row \in index[l] \/ (l = lang /\ row \in rows)
  BY <1>1, <1>2, <1>7, InsertRowsFacts
<1>9. DicTypes'
  <2>1. pos' \in 0 .. Len(order')
    BY <1>1, <1>3
  <2> QED BY <1>1, <1>2, <1>8, <2>1 DEF DicTypes
<1>10. DicSizes' /\ DicStatement'
  BY <1>1 DEF DicInv, DicSizes, DicStatement
<1>11. DicAgrees'
  <2> SUFFICES ASSUME Complete' PROVE
        /\ (dpc = "index" => Follows(lang, Len(order)))'
        /\ (\A m \in memory : m[2] \in DOMAIN dict["Cn"] /\ m[1] \in Pieces(dict["Cn"][m[2]].word))'
        /\ (\A l \in Languages : \A row \in index[l] : RowTrue(l, row))'
    BY <1>1 DEF DicAgrees
  <2>1. /\ Follows("En", Len(order))
        /\ \A m \in memory : m[2] \in DOMAIN dict["Cn"] /\ m[1] \in Pieces(dict["Cn"][m[2]].word)
        /\ \A l \in Languages : \A row \in index[l] : RowTrue(l, row)
    BY <1>1, <1>8 DEF DicInv, DicAgrees
  <2>2. ASSUME NEW row \in rows PROVE RowTrue("En", row)
    <3>1. PICK c \in ToSet(w) : row = <<Bytes(<<c>>), to_string(pos + 1)>>
      BY <1>4 DEF rows
    <3>2. dict["En"] \in Seq(Rows) /\ Len(dict["En"]) = Len(order) /\ dict["En"][pos + 1].word = w
      BY <1>2, <1>3, <2>1 DEF Follows, DicTypes, Languages, w
    <3>3. pos + 1 \in DOMAIN dict["En"]
      BY <1>3, <3>2
    <3>4. row[2] = to_string(pos + 1) /\ row[1][1][1] \in ToSet(dict["En"][pos + 1].word)
      BY <1>6, <3>1, <3>2
    <3> QED BY <3>3, <3>4 DEF RowTrue
  <2>3. ASSUME NEW l \in Languages, NEW row \in index'[l] PROVE RowTrue(l, row)'
    <3>1. RowTrue(l, row)
      BY <1>1, <1>8, <2>1, <2>2
    <3> QED BY <1>1, <3>1 DEF RowTrue
  <2> QED BY <1>1, <2>1, <2>3 DEF Follows
<1> QED BY <1>9, <1>10, <1>11 DEF DicInv

\* A word gets the next identifier of its table, the one counted for its pieces.
LEMMA InsertWordStep == DicInv /\ InsertWord => DicInv'
<1> SUFFICES ASSUME DicInv, InsertWord PROVE DicInv'
  OBVIOUS
<1> DEFINE w == order[pos + 1]
           r == [word |-> w, freq |-> count[w]]
<1>1. /\ dpc = "insert" /\ pos < Len(order) /\ pos' = pos + 1
      /\ memory' = (IF lang = "Cn" THEN memory \union (Pieces(w) \X {pos + 1}) ELSE memory)
      /\ UNCHANGED <<dpc, lang, files, texts, count, order, sql, index>>
  BY DEF InsertWord, Position
<1>2. \/ dict' = [dict EXCEPT ![lang] = Append(@, r)] /\ failed' = failed
      \/ dict' = dict /\ Fail("word", 1)
  BY DEF InsertWord
<1>3. DicTypes /\ lang \in Languages /\ dict \in [Languages -> Seq(Rows)]
  BY DEF DicInv, DicTypes
<1>4. /\ order \in Seq(AllWords) /\ pos \in Nat /\ Len(order) \in Nat /\ pos + 1 \in 1 .. Len(order)
      /\ w \in AllWords /\ w \in DOMAIN count
  <2>1. order \in Seq(AllWords) /\ order \in Seq(DOMAIN count) /\ pos \in 0 .. Len(order)
    BY <1>1, <1>3 DEF DicTypes
  <2>2. pos \in Nat /\ Len(order) \in Nat /\ pos + 1 \in 1 .. Len(order)
    BY <1>1, <2>1
  <2> QED BY <2>1, <2>2
<1>5. r \in Rows /\ r.word = w /\ w \in Seq(ToSet(Characters))
  BY <1>3, <1>4, AllWordsFacts DEF Rows, DicTypes
<1> HIDE DEF r, w
<1>6. /\ dict' \in [Languages -> Seq(Rows)]
      /\ \A l \in Languages : l # lang => dict'[l] = dict[l]
      /\ \/ dict'[lang] = Append(dict[lang], r) /\ failed' = failed
         \/ dict' = dict /\ Fail("word", 1)
  <2>1. CASE dict' = [dict EXCEPT ![lang] = Append(@, r)] /\ failed' = failed
    <3>1. Append(dict[lang], r) \in Seq(Rows)
      BY <1>3, <1>5
    <3> QED BY <1>3, <2>1, <3>1
  <2>2. CASE dict' = dict /\ Fail("word", 1)
    BY <1>3, <2>2
  <2> QED BY <1>2, <2>1, <2>2
<1>7. /\ failed' \in Seq({"read", "word", "row"}) /\ Len(failed') <= MaxFailures
      /\ Complete' => Complete /\ dict'[lang] = Append(dict[lang], r)
  <2>1. CASE dict'[lang] = Append(dict[lang], r) /\ failed' = failed
    BY <1>3, <2>1 DEF DicTypes, Complete
  <2>2. CASE Fail("word", 1)
    <3>1. /\ failed' \in Seq({"read", "word", "row"}) /\ Len(failed') <= MaxFailures
          /\ Complete' => Complete /\ (1 = 0 \/ "word" = "row")
      BY <1>3, <2>2, FailFacts
    <3> QED BY <3>1
  <2> QED BY <1>6, <2>1, <2>2
<1>8. \A p \in Pieces(w) : p \in Seq(Units) /\ Len(p) = 3
  BY <1>5, PieceFacts
<1>9. DicTypes'
  <2>1. memory' \subseteq Seq(Units) \X Nat /\ \A m \in memory' : Len(m[1]) = 3
    <3>1. memory \subseteq Seq(Units) \X Nat /\ \A m \in memory : Len(m[1]) = 3
      BY <1>3 DEF DicTypes
    <3>2. \A m \in Pieces(w) \X {pos + 1} : m \in Seq(Units) \X Nat /\ Len(m[1]) = 3
      BY <1>4, <1>8
    <3> QED BY <1>1, <3>1, <3>2
  <2>2. pos' \in 0 .. Len(order')
    BY <1>1, <1>4
  <2> QED BY <1>1, <1>3, <1>6, <1>7, <2>1, <2>2 DEF DicTypes
<1>10. Len(dict[lang]) \in Nat /\ (Len(dict'[lang]) = Len(dict[lang]) + 1 \/ Len(dict'[lang]) = Len(dict[lang]))
  <2> DEFINE d == dict[lang]
  <2>1. d \in Seq(Rows)
    BY <1>3
  <2> HIDE DEF d
  <2>2. Len(d) \in Nat /\ Len(Append(d, r)) = Len(d) + 1
    BY <1>5, <2>1
  <2> QED BY <1>6, <2>2 DEF d
<1>11. DicSizes'
  <2>1. Len(dict[lang]) <= pos /\ Len(order) <= Cardinality(AllWords) /\ Cardinality(AllWords) \in Nat
    BY <1>1, <1>3, AllWordsFacts DEF DicInv, DicSizes, DicTypes
  <2>2. Len(dict'[lang]) <= pos' /\ Len(dict'[lang]) <= Cardinality(AllWords)
    BY <1>1, <1>4, <1>10, <2>1
  <2>3. \A l \in Languages : Len(dict'[l]) <= Cardinality(AllWords)
    BY <1>6, <2>2 DEF DicInv, DicSizes
  <2>4. lang' = "En" => dict'["Cn"] = <<>>
    BY <1>1, <1>6 DEF DicInv, DicSizes, Languages
  <2> QED BY <1>1, <2>2, <2>3, <2>4 DEF DicSizes
<1>12. DicStatement'
  BY <1>1 DEF DicInv, DicStatement
<1>13. DicAgrees'
  <2> SUFFICES ASSUME Complete' PROVE
        /\ Follows(lang, pos)'
        /\ (\A m \in memory : m[2] \in DOMAIN dict["Cn"] /\ m[1] \in Pieces(dict["Cn"][m[2]].word))'
        /\ (\A l \in Languages : \A row \in index[l] : RowTrue(l, row))'
    BY <1>1 DEF DicAgrees
  <2>1. /\ Len(dict[lang]) = pos /\ \A i \in 1 .. pos : dict[lang][i].word = order[i]
        /\ \A m \in memory : m[2] \in DOMAIN dict["Cn"] /\ m[1] \in Pieces(dict["Cn"][m[2]].word)
        /\ \A l \in Languages : \A row \in index[l] : RowTrue(l, row)
        /\ dict'[lang] = Append(dict[lang], r)
    BY <1>1, <1>7 DEF DicInv, DicAgrees, Follows
  <2>2. /\ Len(dict'[lang]) = pos + 1 /\ DOMAIN dict'[lang] = 1 .. pos + 1
        /\ \A i \in 1 .. pos : dict'[lang][i] = dict[lang][i]
        /\ dict'[lang][pos + 1] = r
    <3> DEFINE d == dict[lang]
    <3>1. d \in Seq(Rows) /\ Len(d) = pos
      BY <1>3, <2>1
    <3> HIDE DEF d
    <3>2. /\ Len(Append(d, r)) = pos + 1 /\ DOMAIN Append(d, r) = 1 .. pos + 1
          /\ \A i \in 1 .. pos : Append(d, r)[i] = d[i]
          /\ Append(d, r)[pos + 1] = r
      BY <1>5, <3>1
    <3> QED BY <2>1, <3>2 DEF d
  <2>3. Follows(lang, pos)'
    <3>1. ASSUME NEW i \in 1 .. pos + 1 PROVE dict'[lang][i].word = order[i]
      <4>1. CASE i = pos + 1
        BY <1>5, <2>2, <4>1 DEF w
      <4>2. CASE i # pos + 1
        <5>1. i \in 1 .. pos
          BY <1>4, <4>2
        <5> QED BY <2>1, <2>2, <5>1
      <4> QED BY <4>1, <4>2
    <3> QED BY <1>1, <2>2, <3>1 DEF Follows
  <2>4. ASSUME NEW m \in memory'
        PROVE  m[2] \in DOMAIN dict'["Cn"] /\ m[1] \in Pieces(dict'["Cn"][m[2]].word)
    <3>1. CASE m \in memory
      <4>1. m[2] \in DOMAIN dict["Cn"] /\ m[1] \in Pieces(dict["Cn"][m[2]].word)
        BY <2>1, <3>1
      <4>2. m[2] \in DOMAIN dict'["Cn"] /\ dict'["Cn"][m[2]] = dict["Cn"][m[2]]
        <5>1. CASE lang = "Cn"
          <6>1. DOMAIN dict["Cn"] = 1 .. pos
            BY <1>3, <2>1, <5>1
          <6>2. m[2] \in 1 .. pos /\ m[2] \in 1 .. pos + 1
            BY <1>4, <4>1, <6>1
          <6> QED BY <2>2, <5>1, <6>2
        <5>2. CASE lang # "Cn"
          BY <1>6, <4>1, <5>2 DEF Languages
        <5> QED BY <5>1, <5>2
      <4> QED BY <4>1, <4>2
    <3>2. CASE m \notin memory
      <4>1. lang = "Cn" /\ m[1] \in Pieces(w) /\ m[2] = pos + 1
        BY <1>1, <3>2
      <4>2. pos + 1 \in 1 .. pos + 1
        BY <1>4
      <4> QED BY <1>5, <2>2, <4>1, <4>2
    <3> QED BY <3>1, <3>2
  <2>5. ASSUME NEW l \in Languages, NEW row \in index'[l] PROVE RowTrue(l, row)'
    <3>1. RowTrue(l, row) /\ dict[l] \in Seq(Rows)
      BY <1>1, <1>3, <2>1
    <3>2. dict'[l] = dict[l] \/ \E x \in Rows : dict'[l] = Append(dict[l], x)
      BY <1>5, <1>6, <2>1
    <3> QED BY <3>1, <3>2, RowStays
  <2> QED BY <2>3, <2>4, <2>5
<1> QED BY <1>9, <1>11, <1>12, <1>13 DEF DicInv

LEMMA IndexPieceStep == DicInv /\ IndexPiece => DicInv'
<1> SUFFICES ASSUME DicInv, IndexPiece PROVE DicInv'
  OBVIOUS
<1>1. /\ dpc = "index"
      /\ UNCHANGED <<dpc, lang, files, texts, count, order, pos, memory, dict, index, failed>>
  BY DEF IndexPiece
<1>2. PICK m \in memory : sql' = [key |-> m[1], piece |-> m[1], number |-> <<>>]
  BY DEF IndexPiece
<1>3. m[1] \in Seq(Units) /\ Len(m[1]) = 3
  BY DEF DicInv, DicTypes
<1>4. DicTypes'
  <2>1. sql' \in [key : Seq(Units), piece : Seq(Units), number : Seq(Units)]
    BY <1>2, <1>3
  <2> QED BY <1>1, <2>1 DEF DicInv, DicTypes
<1>5. DicSizes'
  BY <1>1 DEF DicInv, DicSizes
<1>6. DicAgrees'
  BY <1>1 DEF DicInv, DicAgrees, Complete, Follows, RowTrue
<1>7. DicStatement'
  <2>1. sql'.key = m[1] /\ sql'.piece = m[1] /\ sql'.number = <<>> /\ Len(m[1]) <= 3
    BY <1>2, <1>3
  <2> QED BY <2>1 DEF DicStatement
<1> QED BY <1>4, <1>5, <1>6, <1>7 DEF DicInv

\* Digits are taken out of the number, unless the piece holds them.
LEMMA TakenOutFacts ==
  ASSUME NEW s \in [key : Seq(Units), piece : Seq(Units), number : Seq(Units)],
         NEW digits \in Seq(Units), Len(digits) >= 1, \A i \in 1 .. Len(digits) : IsOneByte(digits[i][1]),
         Len(s.piece) <= 3, s.piece = s.key \/ Len(s.piece) < 3,
         ~OneByteIn(s.key) => s.piece = s.key /\ s.number = digits
  PROVE  LET t == TakenOut(s, digits) IN
           /\ t \in [key : Seq(Units), piece : Seq(Units), number : Seq(Units)]
           /\ t.key = s.key
           /\ Len(t.piece) <= 3
           /\ t.piece = t.key \/ Len(t.piece) < 3
           /\ ~OneByteIn(t.key) => t.piece = t.key /\ t.number = <<>>
<1> DEFINE t == TakenOut(s, digits)
<1>0. s.key \in Seq(Units) /\ s.piece \in Seq(Units) /\ s.number \in Seq(Units) /\ Len(s.piece) \in Nat
  OBVIOUS
<1>1. CASE digits \in SubSeqs(s.piece)
  <2> DEFINE p == ReplaceFirstSubSeq(<<>>, digits, s.piece)
  <2>1. p \in Seq(Units) /\ Len(digits) \in Nat /\ Len(digits) <= Len(s.piece) /\ Len(p) = Len(s.piece) - Len(digits)
    BY <1>0, <1>1, TakeOutFacts
  <2>2. t = [s EXCEPT !.piece = p]
    BY <1>1 DEF TakenOut
  <2> HIDE DEF p, t
  <2>3. t.key = s.key /\ t.piece = p /\ t.number = s.number
    BY <2>2
  <2>4. t \in [key : Seq(Units), piece : Seq(Units), number : Seq(Units)]
    BY <2>1, <2>2
  <2>5. Len(p) < 3
    BY <1>0, <2>1
  <2>6. OneByteIn(s.key)
    <3> SUFFICES ASSUME ~OneByteIn(s.key) PROVE FALSE
      OBVIOUS
    <3>1. digits \in SubSeqs(s.key)
      BY <1>1
    <3>2. PICK i \in 0 .. Len(s.key), j \in 0 .. Len(s.key) : digits = SubSeq(s.key, i + 1, j)
      BY <3>1 DEF SubSeqs
    <3>3. Len(s.key) \in Nat /\ i + 1 <= j
      <4>1. Len(s.key) \in Nat
        BY <1>0
      <4>2. CASE j < i + 1
        <5>1. digits = <<>>
          BY <1>0, <3>2, <4>1, <4>2, SubSeqProperties
        <5> QED BY <5>1
      <4> QED BY <4>1, <4>2
    <3>4. i + 1 \in 1 .. Len(s.key) /\ j \in 1 .. Len(s.key)
      BY <3>3
    <3>5. \A k \in i + 1 .. j : s.key[k] \in Units
      BY <1>0, <3>4
    <3>6. \A k \in 1 .. j - (i + 1) + 1 : digits[k] = s.key[i + 1 + k - 1]
      BY <1>0, <3>2, <3>3, <3>4, <3>5, SubSeqProperties
    <3>7. digits[1] = s.key[i + 1] /\ 1 \in 1 .. Len(digits)
      <4>1. 1 \in 1 .. j - (i + 1) + 1 /\ i + 1 + 1 - 1 = i + 1
        BY <3>3
      <4> QED BY <2>1, <3>6, <4>1
    <3>8. IsOneByte(s.key[i + 1][1])
      BY <3>7
    <3> QED BY <3>4, <3>8 DEF OneByteIn
  <2>7. Len(t.piece) <= 3 /\ Len(t.piece) < 3
    <3>1. Len(p) \in Nat
      BY <2>1
    <3> QED BY <2>3, <2>5, <3>1
  <2> QED BY <2>3, <2>4, <2>6, <2>7 DEF t
<1>2. CASE digits \notin SubSeqs(s.piece)
  <2> DEFINE n == ReplaceFirstSubSeq(<<>>, digits, s.number)
  <2>1. n \in Seq(Units)
    <3>1. CASE digits \in SubSeqs(s.number)
      BY <1>0, <3>1, TakeOutFacts
    <3>2. CASE digits \notin SubSeqs(s.number)
      BY <1>0, <3>2 DEF ReplaceFirstSubSeq
    <3> QED BY <3>1, <3>2
  <2>2. ASSUME s.number = digits PROVE n = <<>>
    <3>1. digits \in SubSeqs(digits)
      <4>1. Len(digits) \in Nat /\ SubSeq(digits, 0 + 1, Len(digits)) = digits
        OBVIOUS
      <4>2. 0 \in 0 .. Len(digits) /\ Len(digits) \in 0 .. Len(digits)
        BY <4>1
      <4> QED BY <4>1, <4>2 DEF SubSeqs
    <3>2. Len(n) = Len(digits) - Len(digits) /\ Len(digits) \in Nat
      BY <2>2, <3>1, TakeOutFacts
    <3>3. Len(n) = 0
      BY <3>2
    <3> HIDE DEF n
    <3> QED BY <2>1, <3>3, EmptySeq
  <2>3. t = [s EXCEPT !.number = n]
    BY <1>2 DEF TakenOut
  <2> HIDE DEF n, t
  <2>4. t.key = s.key /\ t.piece = s.piece /\ t.number = n
    BY <2>3
  <2>5. t \in [key : Seq(Units), piece : Seq(Units), number : Seq(Units)]
    BY <2>1, <2>3
  <2> QED BY <2>2, <2>4, <2>5 DEF t
<1> QED BY <1>1, <1>2

\* Chinese: a position of the piece at hand.
LEMMA IndexPositionStep == DicInv /\ IndexPosition => DicInv'
<1> SUFFICES ASSUME DicInv, IndexPosition PROVE DicInv'
  OBVIOUS
<1>1. /\ dpc = "index" /\ lang = "Cn"
      /\ UNCHANGED <<dpc, lang, files, texts, count, order, pos, dict>>
  BY DEF IndexPosition
<1>2. PICK id \in {m[2] : m \in {e \in memory : e[1] = sql.key}} :
        LET digits == to_string(id)
            whole == [sql EXCEPT !.number = @ \o digits]
        IN /\ InsertRows({<<whole.piece, whole.number>>})
           /\ sql' = TakenOut(whole, digits)
           /\ memory' = memory \ {<<sql.key, id>>}
  BY DEF IndexPosition
<1> DEFINE digits == to_string(id)
           number == sql.number \o digits
           whole == [sql EXCEPT !.number = number]
           row == <<sql.piece, number>>
<1>3. DicTypes /\ sql \in [key : Seq(Units), piece : Seq(Units), number : Seq(Units)]
  BY DEF DicInv, DicTypes
<1>4. id \in Nat /\ <<sql.key, id>> \in memory
  <2>1. PICK m \in memory : m[1] = sql.key /\ id = m[2]
    OBVIOUS
  <2>2. m \in Seq(Units) \X Nat
    BY <1>3 DEF DicTypes
  <2>3. m = <<sql.key, id>> /\ id \in Nat
    BY <2>1, <2>2
  <2> QED BY <2>1, <2>3
<1>5. digits \in Seq(Units) /\ Len(digits) >= 1 /\ \A i \in 1 .. Len(digits) : IsOneByte(digits[i][1])
  BY <1>4, DigitsFacts
<1>6. sql.key \in Seq(Units) /\ sql.piece \in Seq(Units) /\ sql.number \in Seq(Units)
  BY <1>3
<1>7. /\ whole \in [key : Seq(Units), piece : Seq(Units), number : Seq(Units)]
      /\ whole.key = sql.key /\ whole.piece = sql.piece /\ whole.number = number
      /\ number \in Seq(Units)
  <2> HIDE DEF digits
  <2>1. number \in Seq(Units)
    BY <1>5, <1>6, ConcatProperties
  <2> HIDE DEF number
  <2> QED BY <1>3, <2>1
<1>8. InsertRows({row}) /\ sql' = TakenOut(whole, digits) /\ memory' = memory \ {<<sql.key, id>>}
  <2>1. row = <<whole.piece, whole.number>>
    BY <1>7
  <2> QED BY <1>2, <2>1
<1> HIDE DEF digits, whole
<1>9. /\ Len(sql.piece) <= 3 /\ (sql.piece = sql.key \/ Len(sql.piece) < 3)
      /\ ~OneByteIn(sql.key) => sql.piece = sql.key /\ number = digits
  <2>1. ASSUME sql.number = <<>> PROVE number = digits
    BY <1>5, <2>1
  <2> QED BY <2>1 DEF DicInv, DicStatement
<1> HIDE DEF number
<1>10. /\ sql' \in [key : Seq(Units), piece : Seq(Units), number : Seq(Units)]
       /\ DicStatement'
  <2>1. ~OneByteIn(whole.key) => whole.piece = whole.key /\ whole.number = digits
    BY <1>7, <1>9
  <2>2. Len(whole.piece) <= 3 /\ (whole.piece = whole.key \/ Len(whole.piece) < 3)
    BY <1>7, <1>9
  <2>3. /\ TakenOut(whole, digits) \in [key : Seq(Units), piece : Seq(Units), number : Seq(Units)]
        /\ Len(TakenOut(whole, digits).piece) <= 3
        /\ TakenOut(whole, digits).piece = TakenOut(whole, digits).key \/ Len(TakenOut(whole, digits).piece) < 3
        /\ ~OneByteIn(TakenOut(whole, digits).key) =>
             TakenOut(whole, digits).piece = TakenOut(whole, digits).key /\ TakenOut(whole, digits).number = <<>>
    BY <1>5, <1>7, <2>1, <2>2, TakenOutFacts
  <2> QED BY <1>8, <2>3 DEF DicStatement
<1>11. /\ failed' \in Seq({"read", "word", "row"}) /\ Len(failed') <= MaxFailures
       /\ Complete' => Complete
       /\ index' \in [Languages -> SUBSET (Seq(Units) \X Seq(Units))]
       /\ \A l \in Languages : \A x \in index'[l] : x \in index[l] \/ (l = lang /\ x \in {row})
  <2>1. IsFiniteSet({row})
    BY FS_Singleton
  <2>2. {row} \subseteq Seq(Units) \X Seq(Units)
    BY <1>6, <1>7
  <2> HIDE DEF row
  <2> QED BY <1>3, <1>8, <2>1, <2>2, InsertRowsFacts
<1>12. DicTypes'
  BY <1>1, <1>3, <1>8, <1>10, <1>11 DEF DicTypes
<1>13. DicSizes'
  BY <1>1 DEF DicInv, DicSizes
<1>14. DicAgrees'
  <2> SUFFICES ASSUME Complete' PROVE
        /\ Follows(lang, Len(order))'
        /\ (\A m \in memory : m[2] \in DOMAIN dict["Cn"] /\ m[1] \in Pieces(dict["Cn"][m[2]].word))'
        /\ (\A l \in Languages : \A x \in index[l] : RowTrue(l, x))'
    BY <1>1 DEF DicAgrees
  <2>1. /\ Follows(lang, Len(order))
        /\ \A m \in memory : m[2] \in DOMAIN dict["Cn"] /\ m[1] \in Pieces(dict["Cn"][m[2]].word)
        /\ \A l \in Languages : \A x \in index[l] : RowTrue(l, x)
    BY <1>1, <1>11 DEF DicInv, DicAgrees
  <2>2. RowTrue("Cn", row)
    <3> SUFFICES ASSUME Len(sql.piece) = 3, ~HasOneByte([i \in 1 .. 3 |-> sql.piece[i][1]])
                 PROVE  \E n \in DOMAIN dict["Cn"] : number = to_string(n) /\ sql.piece[1][1] \in ToSet(dict["Cn"][n].word)
      BY DEF RowTrue
    <3>1. sql.piece = sql.key
      BY <1>9
    <3>2. ~OneByteIn(sql.key)
      BY <3>1 DEF OneByteIn, HasOneByte
    <3>3. number = to_string(id)
      BY <1>9, <3>2 DEF digits
    <3>4. id \in DOMAIN dict["Cn"] /\ sql.key \in Pieces(dict["Cn"][id].word)
      BY <1>4, <2>1
    <3>5. dict["Cn"][id].word \in Seq(ToSet(Characters))
      <4>1. dict["Cn"] \in Seq(Rows)
        BY <1>3 DEF DicTypes, Languages
      <4>2. dict["Cn"][id] \in Rows
        BY <3>4, <4>1
      <4> QED BY <4>2, AllWordsFacts DEF Rows
    <3>6. sql.key[1][1] \in ToSet(dict["Cn"][id].word)
      BY <3>4, <3>5, PieceFacts
    <3> QED BY <3>1, <3>3, <3>4, <3>6
  <2>3. ASSUME NEW l \in Languages, NEW x \in index'[l] PROVE RowTrue(l, x)'
    <3>1. RowTrue(l, x)
      BY <1>1, <1>11, <2>1, <2>2
    <3> QED BY <1>1, <3>1 DEF RowTrue
  <2>4. \A m \in memory' : m[2] \in DOMAIN dict'["Cn"] /\ m[1] \in Pieces(dict'["Cn"][m[2]].word)
    BY <1>1, <1>8, <2>1
  <2> QED BY <1>1, <2>1, <2>3, <2>4 DEF Follows
<1> QED BY <1>10, <1>12, <1>13, <1>14 DEF DicInv

LEMMA DicStep == DicInv /\ [DictNext]_dictVars => DicInv'
<1> SUFFICES ASSUME DicInv, [DictNext]_dictVars PROVE DicInv'
  OBVIOUS
<1>1. CASE ReadFile
  BY <1>1, ReadFileStep
<1>2. CASE AllRead
  BY <1>2, AllReadStep
<1>3. CASE CannotOpen
  BY <1>3, CannotOpenStep
<1>4. CASE InsertWord
  BY <1>4, InsertWordStep
<1>5. CASE AllInserted
  BY <1>5, AllInsertedStep
<1>6. CASE IndexWord
  BY <1>6, IndexWordStep
<1>7. CASE IndexPiece
  BY <1>7, IndexPieceStep
<1>8. CASE IndexPosition
  BY <1>8, IndexPositionStep
<1>9. CASE NextLanguage
  BY <1>9, NextLanguageStep
<1>10. CASE UNCHANGED dictVars
  <2> USE <1>10 DEF dictVars
  <2>1. DicTypes'
    BY DEF DicInv, DicTypes
  <2>2. DicSizes' /\ DicStatement'
    BY DEF DicInv, DicSizes, DicStatement
  <2>3. DicAgrees'
    BY DEF DicInv, DicAgrees, Complete, Follows, RowTrue
  <2> QED BY <2>1, <2>2, <2>3 DEF DicInv
<1> QED BY <1>1, <1>2, <1>3, <1>4, <1>5, <1>6, <1>7, <1>8, <1>9, <1>10 DEF DictNext

LEMMA DicInvIndexTrue == DicInv => IndexTrue
BY DEF DicInv, DicAgrees, Complete, RowTrue, IndexTrue

-----------------------------------------------------------------------------
(***************************************************************************)
(* The distance: what editDistance computes in its table is the number of    *)
(* changes of the cheapest matching of the two words.                         *)
(***************************************************************************)

\* The matchings of the first i characters of one word with the first j of
\* another, and what they cost.
Matchings(i, j) == {m \in SUBSET ((1 .. i) \X (1 .. j)) : InOrder(m)}
Wrong(u, v, m) == {p \in m : u[p[1]] # v[p[2]]}
Cost(u, v, i, j, m) == Cardinality(Wrong(u, v, m)) + (i - Cardinality(m)) + (j - Cardinality(m))
Change(u, v, i, j) == IF u[i] = v[j] THEN 0 ELSE 1
Costs(u, v, i, j) == {Cost(u, v, i, j, m) : m \in Matchings(i, j)}
Cheapest(u, v, i, j) == Min(Costs(u, v, i, j))

\* The least of a set of numbers.
LEMMA MinFacts ==
  ASSUME NEW T \in SUBSET Nat, T # {}
  PROVE  /\ Min(T) \in T /\ \A y \in T : Min(T) <= y
         /\ \A x \in T : (\A y \in T : x <= y) => Min(T) = x
<1>1. \E x \in T : \A y \in T : x <= y
  BY Least
<1>2. Min(T) \in T /\ \A y \in T : Min(T) <= y
  BY <1>1 DEF Min
<1>3. ASSUME NEW x \in T, \A y \in T : x <= y PROVE Min(T) = x
  <2>1. Min(T) <= x /\ x <= Min(T) /\ x \in Nat /\ Min(T) \in Nat
    BY <1>2, <1>3
  <2> QED BY <2>1
<1> QED BY <1>2, <1>3

\* No character is matched twice.
LEMMA MatchingFacts ==
  ASSUME NEW u, NEW v, NEW i \in Nat, NEW j \in Nat, NEW m \in Matchings(i, j)
  PROVE  /\ IsFiniteSet(m) /\ Cardinality(m) \in Nat /\ Cardinality(m) <= i /\ Cardinality(m) <= j
         /\ IsFiniteSet(Wrong(u, v, m)) /\ Cardinality(Wrong(u, v, m)) \in Nat
         /\ Cost(u, v, i, j, m) \in Nat
<1>1. m \in SUBSET ((1 .. i) \X (1 .. j)) /\ InOrder(m)
  BY DEF Matchings
<1>2. IsFiniteSet(1 .. i) /\ Cardinality(1 .. i) = i /\ IsFiniteSet(1 .. j) /\ Cardinality(1 .. j) = j
  <2>1. \A n \in Nat : IsFiniteSet(1 .. n) /\ Cardinality(1 .. n) = IF 1 > n THEN 0 ELSE n - 1 + 1
    BY FS_Interval
  <2>2. \A n \in Nat : (IF 1 > n THEN 0 ELSE n - 1 + 1) = n
    OBVIOUS
  <2> QED BY <2>1, <2>2
<1>3. IsFiniteSet(m) /\ Cardinality(m) <= i
  <2> DEFINE f == [p \in m |-> p[1]]
  <2>1. f \in Injection(m, 1 .. i)
    <3>1. f \in [m -> 1 .. i]
      BY <1>1
    <3>2. ASSUME NEW p \in m, NEW q \in m, f[p] = f[q] PROVE p = q
      <4>1. p[1] = q[1] /\ p[2] = q[2]
        BY <1>1, <3>2 DEF InOrder
      <4> QED BY <1>1, <4>1
    <3> HIDE DEF f
    <3> QED BY <3>1, <3>2 DEF Injection, IsInjective
  <2> QED BY <1>2, <2>1, FS_Injection
<1>4. Cardinality(m) <= j
  <2> DEFINE f == [p \in m |-> p[2]]
  <2>1. f \in Injection(m, 1 .. j)
    <3>1. f \in [m -> 1 .. j]
      BY <1>1
    <3>2. ASSUME NEW p \in m, NEW q \in m, f[p] = f[q] PROVE p = q
      <4>1. p[1] = q[1] /\ p[2] = q[2]
        BY <1>1, <3>2 DEF InOrder
      <4> QED BY <1>1, <4>1
    <3> HIDE DEF f
    <3> QED BY <3>1, <3>2 DEF Injection, IsInjective
  <2> QED BY <1>2, <2>1, FS_Injection
<1>5. Wrong(u, v, m) \in SUBSET m
  BY DEF Wrong
<1>6. IsFiniteSet(Wrong(u, v, m)) /\ Cardinality(m) \in Nat
  BY <1>3, <1>5, FS_Subset, FS_CardinalityType
<1>7. Cardinality(Wrong(u, v, m)) \in Nat
  BY <1>6, FS_CardinalityType
<1>8. Cost(u, v, i, j, m) \in Nat
  BY <1>3, <1>4, <1>6, <1>7 DEF Cost
<1> QED BY <1>3, <1>4, <1>6, <1>7, <1>8

LEMMA CheapestFacts ==
  ASSUME NEW u, NEW v, NEW i \in Nat, NEW j \in Nat
  PROVE  /\ Cheapest(u, v, i, j) \in Nat
         /\ \E m \in Matchings(i, j) : Cheapest(u, v, i, j) = Cost(u, v, i, j, m)
         /\ \A m \in Matchings(i, j) : Cheapest(u, v, i, j) <= Cost(u, v, i, j, m)
<1>1. {} \in Matchings(i, j)
  BY DEF Matchings, InOrder
<1>2. Costs(u, v, i, j) \in SUBSET Nat /\ Costs(u, v, i, j) # {}
  BY <1>1, MatchingFacts DEF Costs
<1>3. Cheapest(u, v, i, j) \in Costs(u, v, i, j) /\ \A y \in Costs(u, v, i, j) : Cheapest(u, v, i, j) <= y
  BY <1>2, MinFacts DEF Cheapest
<1> QED BY <1>2, <1>3 DEF Costs

\* A matching of shorter words is one of the words, and leaves one more out.
LEMMA MatchingGrows ==
  ASSUME NEW u, NEW v, NEW i \in Nat, NEW j \in Nat, NEW m \in Matchings(i, j)
  PROVE  /\ m \in Matchings(i + 1, j) /\ Cost(u, v, i + 1, j, m) = Cost(u, v, i, j, m) + 1
         /\ m \in Matchings(i, j + 1) /\ Cost(u, v, i, j + 1, m) = Cost(u, v, i, j, m) + 1
<1>1. m \in Matchings(i + 1, j) /\ m \in Matchings(i, j + 1)
  BY DEF Matchings
<1>2. Cardinality(m) \in Nat /\ Cardinality(Wrong(u, v, m)) \in Nat
  BY MatchingFacts
<1> QED BY <1>1, <1>2 DEF Cost

\* It can be extended by the last characters of both.
LEMMA MatchingExtends ==
  ASSUME NEW u, NEW v, NEW i \in Nat, NEW j \in Nat, NEW m \in Matchings(i, j)
  PROVE  /\ m \union {<<i + 1, j + 1>>} \in Matchings(i + 1, j + 1)
         /\ Cost(u, v, i + 1, j + 1, m \union {<<i + 1, j + 1>>}) =
              Cost(u, v, i, j, m) + Change(u, v, i + 1, j + 1)
<1> DEFINE last == <<i + 1, j + 1>>
           e == m \union {last}
<1>1. m \in SUBSET ((1 .. i) \X (1 .. j)) /\ InOrder(m)
  BY DEF Matchings
<1>2. \A p \in m : p[1] \in Nat /\ p[2] \in Nat /\ p[1] < i + 1 /\ p[2] < j + 1
  BY <1>1
<1>3. last \notin m /\ last[1] = i + 1 /\ last[2] = j + 1
  BY <1>2
<1> HIDE DEF last
<1>4. e \in Matchings(i + 1, j + 1)
  <2>1. e \in SUBSET ((1 .. i + 1) \X (1 .. j + 1))
    BY <1>1 DEF last
  <2>2. ASSUME NEW p \in e, NEW q \in e PROVE (p[1] < q[1] <=> p[2] < q[2]) /\ (p[1] = q[1] <=> p[2] = q[2])
    <3>1. CASE p \in m /\ q \in m
      BY <1>1, <3>1 DEF InOrder
    <3>2. CASE p \in m /\ q = last
      BY <1>2, <1>3, <3>2
    <3>3. CASE p = last /\ q \in m
      BY <1>2, <1>3, <3>3
    <3>4. CASE p = last /\ q = last
      BY <1>3, <3>4
    <3> QED BY <3>1, <3>2, <3>3, <3>4
  <2> HIDE DEF e
  <2> QED BY <2>1, <2>2 DEF Matchings, InOrder
<1>5. /\ IsFiniteSet(m) /\ Cardinality(m) \in Nat
      /\ IsFiniteSet(Wrong(u, v, m)) /\ Cardinality(Wrong(u, v, m)) \in Nat
  BY MatchingFacts
<1>6. Cardinality(e) = Cardinality(m) + 1
  BY <1>3, <1>5, FS_AddElement
<1>7. CASE u[i + 1] = v[j + 1]
  <2>1. Wrong(u, v, e) = Wrong(u, v, m)
    BY <1>3, <1>7 DEF Wrong
  <2> HIDE DEF e
  <2> QED BY <1>4, <1>5, <1>6, <1>7, <2>1 DEF Cost, Change, e, last
<1>8. CASE u[i + 1] # v[j + 1]
  <2>1. Wrong(u, v, e) = Wrong(u, v, m) \union {last} /\ last \notin Wrong(u, v, m)
    BY <1>3, <1>8 DEF Wrong
  <2>2. Cardinality(Wrong(u, v, e)) = Cardinality(Wrong(u, v, m)) + 1
    BY <1>5, <2>1, FS_AddElement
  <2> HIDE DEF e
  <2>3. Cost(u, v, i + 1, j + 1, e) = Cost(u, v, i, j, m) + 1
    BY <1>5, <1>6, <2>2 DEF Cost
  <2> QED BY <1>4, <1>8, <2>3 DEF Change, e, last
<1> QED BY <1>7, <1>8

\* Taken apart at its end, a matching leaves out the last character of a word,
\* or matches both.
LEMMA MatchingEnds ==
  ASSUME NEW u, NEW v, NEW i \in Nat, NEW j \in Nat, NEW e \in Matchings(i + 1, j + 1)
  PROVE  \/ e \in Matchings(i, j + 1)
         \/ e \in Matchings(i + 1, j)
         \/ \E m \in Matchings(i, j) :
              Cost(u, v, i + 1, j + 1, e) = Cost(u, v, i, j, m) + Change(u, v, i + 1, j + 1)
<1> DEFINE last == <<i + 1, j + 1>>
<1>1. e \in SUBSET ((1 .. i + 1) \X (1 .. j + 1)) /\ InOrder(e)
  BY DEF Matchings
<1>2. CASE last \in e
  <2> DEFINE m == e \ {last}
  <2>1. ASSUME NEW p \in m PROVE p \in (1 .. i) \X (1 .. j)
    <3>1. p \in (1 .. i + 1) \X (1 .. j + 1) /\ p # last /\ (p[1] = i + 1 <=> p[2] = j + 1)
      BY <1>1, <1>2 DEF InOrder
    <3>2. p[1] # i + 1 /\ p[2] # j + 1
      BY <3>1
    <3> QED BY <3>1, <3>2
  <2>2. InOrder(m)
    BY <1>1 DEF InOrder
  <2>3. m \in Matchings(i, j)
    <3> HIDE DEF m
    <3> QED BY <2>1, <2>2 DEF Matchings
  <2>4. e = m \union {last}
    BY <1>2
  <2> HIDE DEF m
  <2>5. Cost(u, v, i + 1, j + 1, m \union {<<i + 1, j + 1>>}) = Cost(u, v, i, j, m) + Change(u, v, i + 1, j + 1)
    BY <2>3, MatchingExtends
  <2> QED BY <2>3, <2>4, <2>5
<1>3. CASE last \notin e /\ \E p \in e : p[1] = i + 1
  <2>1. PICK p \in e : p[1] = i + 1
    BY <1>3
  <2>2. p[2] \in Nat /\ p[2] < j + 1
    BY <1>1, <1>3, <2>1
  <2>3. ASSUME NEW q \in e PROVE q[2] # j + 1
    <3> SUFFICES ASSUME q[2] = j + 1 PROVE FALSE
      OBVIOUS
    <3>1. q[1] \in Nat /\ q[1] <= i + 1 /\ q = <<q[1], q[2]>>
      BY <1>1
    <3>2. p[1] < q[1]
      BY <1>1, <2>2 DEF InOrder
    <3> QED BY <2>1, <3>1, <3>2
  <2>4. e \in SUBSET ((1 .. i + 1) \X (1 .. j))
    <3>1. ASSUME NEW q \in e PROVE q \in (1 .. i + 1) \X (1 .. j)
      BY <1>1, <2>3
    <3> QED BY <3>1
  <2> QED BY <1>1, <2>4 DEF Matchings
<1>4. CASE \A p \in e : p[1] # i + 1
  <2>1. e \in SUBSET ((1 .. i) \X (1 .. j + 1))
    <3>1. ASSUME NEW q \in e PROVE q \in (1 .. i) \X (1 .. j + 1)
      BY <1>1, <1>4
    <3> QED BY <3>1
  <2> QED BY <1>1, <2>1 DEF Matchings
<1> QED BY <1>2, <1>3, <1>4

\* Without its last character a word is one change farther at most.
LEMMA MatchingShrinks ==
  ASSUME NEW u, NEW v, NEW i \in Nat, NEW j \in Nat, NEW e \in Matchings(i, j)
  PROVE  /\ i >= 1 => \E m \in Matchings(i - 1, j) : Cost(u, v, i - 1, j, m) <= Cost(u, v, i, j, e) + 1
         /\ j >= 1 => \E m \in Matchings(i, j - 1) : Cost(u, v, i, j - 1, m) <= Cost(u, v, i, j, e) + 1
<1>1. e \in SUBSET ((1 .. i) \X (1 .. j)) /\ InOrder(e)
  BY DEF Matchings
<1>2. /\ IsFiniteSet(e) /\ Cardinality(e) \in Nat
      /\ IsFiniteSet(Wrong(u, v, e)) /\ Cardinality(Wrong(u, v, e)) \in Nat
  BY MatchingFacts
<1>3. ASSUME NEW p \in e
      PROVE  /\ Cardinality(e \ {p}) = Cardinality(e) - 1 /\ InOrder(e \ {p})
             /\ Cardinality(Wrong(u, v, e \ {p})) \in Nat
             /\ Cardinality(Wrong(u, v, e \ {p})) <= Cardinality(Wrong(u, v, e))
  <2>1. Cardinality(e \ {p}) = Cardinality(e) - 1
    BY <1>2, FS_RemoveElement
  <2>2. Wrong(u, v, e \ {p}) \in SUBSET Wrong(u, v, e)
    BY DEF Wrong
  <2>3. IsFiniteSet(Wrong(u, v, e \ {p})) /\ Cardinality(Wrong(u, v, e \ {p})) <= Cardinality(Wrong(u, v, e))
    BY <1>2, <2>2, FS_Subset
  <2> QED BY <1>1, <2>1, <2>3, FS_CardinalityType DEF InOrder
<1>4. ASSUME i >= 1
      PROVE  \E m \in Matchings(i - 1, j) : Cost(u, v, i - 1, j, m) <= Cost(u, v, i, j, e) + 1
  <2>1. CASE \E p \in e : p[1] = i
    <3>1. PICK p \in e : p[1] = i
      BY <2>1
    <3> DEFINE m == e \ {p}
    <3>2. ASSUME NEW q \in m PROVE q \in (1 .. i - 1) \X (1 .. j)
      <4>1. q \in (1 .. i) \X (1 .. j) /\ p \in (1 .. i) \X (1 .. j) /\ q # p /\ (p[1] = q[1] <=> p[2] = q[2])
        BY <1>1 DEF InOrder
      <4>2. q[1] # i
        BY <3>1, <4>1
      <4> QED BY <4>1, <4>2
    <3>3. m \in Matchings(i - 1, j)
      BY <1>3, <3>2 DEF Matchings
    <3>4. /\ Cardinality(m) = Cardinality(e) - 1
          /\ Cardinality(Wrong(u, v, m)) \in Nat
          /\ Cardinality(Wrong(u, v, m)) <= Cardinality(Wrong(u, v, e))
      BY <1>3
    <3> HIDE DEF m
    <3>5. Cost(u, v, i - 1, j, m) <= Cost(u, v, i, j, e) + 1
      BY <1>2, <3>4 DEF Cost
    <3> QED BY <3>3, <3>5
  <2>2. CASE \A p \in e : p[1] # i
    <3>1. ASSUME NEW q \in e PROVE q \in (1 .. i - 1) \X (1 .. j)
      BY <1>1, <2>2
    <3>2. e \in Matchings(i - 1, j)
      BY <1>1, <3>1 DEF Matchings
    <3>3. Cost(u, v, i - 1, j, e) <= Cost(u, v, i, j, e) + 1
      BY <1>2 DEF Cost
    <3> QED BY <3>2, <3>3
  <2> QED BY <2>1, <2>2
<1>5. ASSUME j >= 1
      PROVE  \E m \in Matchings(i, j - 1) : Cost(u, v, i, j - 1, m) <= Cost(u, v, i, j, e) + 1
  <2>1. CASE \E p \in e : p[2] = j
    <3>1. PICK p \in e : p[2] = j
      BY <2>1
    <3> DEFINE m == e \ {p}
    <3>2. ASSUME NEW q \in m PROVE q \in (1 .. i) \X (1 .. j - 1)
      <4>1. q \in (1 .. i) \X (1 .. j) /\ p \in (1 .. i) \X (1 .. j) /\ q # p /\ (p[1] = q[1] <=> p[2] = q[2])
        BY <1>1 DEF InOrder
      <4>2. q[2] # j
        BY <3>1, <4>1
      <4> QED BY <4>1, <4>2
    <3>3. m \in Matchings(i, j - 1)
      BY <1>3, <3>2 DEF Matchings
    <3>4. /\ Cardinality(m) = Cardinality(e) - 1
          /\ Cardinality(Wrong(u, v, m)) \in Nat
          /\ Cardinality(Wrong(u, v, m)) <= Cardinality(Wrong(u, v, e))
      BY <1>3
    <3> HIDE DEF m
    <3>5. Cost(u, v, i, j - 1, m) <= Cost(u, v, i, j, e) + 1
      BY <1>2, <3>4 DEF Cost
    <3> QED BY <3>3, <3>5
  <2>2. CASE \A p \in e : p[2] # j
    <3>1. ASSUME NEW q \in e PROVE q \in (1 .. i) \X (1 .. j - 1)
      BY <1>1, <2>2
    <3>2. e \in Matchings(i, j - 1)
      BY <1>1, <3>1 DEF Matchings
    <3>3. Cost(u, v, i, j - 1, e) <= Cost(u, v, i, j, e) + 1
      BY <1>2 DEF Cost
    <3> QED BY <3>2, <3>3
  <2> QED BY <2>1, <2>2
<1> QED BY <1>4, <1>5

\* What the table of editDistance says of its entries.
LEMMA CheapestSteps ==
  ASSUME NEW u, NEW v
  PROVE  /\ \A j \in Nat : Cheapest(u, v, 0, j) = j
         /\ \A i \in Nat : Cheapest(u, v, i, 0) = i
         /\ \A i, j \in Nat :
              /\ u[i + 1] = v[j + 1] => Cheapest(u, v, i + 1, j + 1) = Cheapest(u, v, i, j)
              /\ u[i + 1] # v[j + 1] =>
                   Cheapest(u, v, i + 1, j + 1) =
                     1 + Min({Cheapest(u, v, i + 1, j), Cheapest(u, v, i, j + 1), Cheapest(u, v, i, j)})
<1>1. ASSUME NEW i \in Nat, NEW j \in Nat, i = 0 \/ j = 0
      PROVE  Cheapest(u, v, i, j) = i + j
  <2>1. PICK m \in Matchings(i, j) : Cheapest(u, v, i, j) = Cost(u, v, i, j, m)
    BY CheapestFacts
  <2>2. m \in SUBSET ((1 .. i) \X (1 .. j))
    BY DEF Matchings
  <2>3. m = {} /\ Wrong(u, v, m) = {}
    BY <1>1, <2>2 DEF Wrong
  <2> QED BY <2>1, <2>3, FS_EmptySet DEF Cost
<1>2. ASSUME NEW i \in Nat, NEW j \in Nat
      PROVE  /\ Cheapest(u, v, i + 1, j) <= Cheapest(u, v, i, j) + 1
             /\ Cheapest(u, v, i, j + 1) <= Cheapest(u, v, i, j) + 1
             /\ Cheapest(u, v, i + 1, j + 1) <= Cheapest(u, v, i, j) + Change(u, v, i + 1, j + 1)
  <2>1. PICK m \in Matchings(i, j) : Cheapest(u, v, i, j) = Cost(u, v, i, j, m)
    BY CheapestFacts
  <2>2. i + 1 \in Nat /\ j + 1 \in Nat
    OBVIOUS
  <2>3. /\ m \in Matchings(i + 1, j) /\ Cost(u, v, i + 1, j, m) = Cost(u, v, i, j, m) + 1
        /\ m \in Matchings(i, j + 1) /\ Cost(u, v, i, j + 1, m) = Cost(u, v, i, j, m) + 1
    BY MatchingGrows
  <2>4. Cheapest(u, v, i + 1, j) <= Cost(u, v, i + 1, j, m)
    BY <2>2, <2>3, CheapestFacts
  <2>5. Cheapest(u, v, i, j + 1) <= Cost(u, v, i, j + 1, m)
    BY <2>2, <2>3, CheapestFacts
  <2> DEFINE e == m \union {<<i + 1, j + 1>>}
  <2>6. /\ e \in Matchings(i + 1, j + 1)
        /\ Cost(u, v, i + 1, j + 1, e) = Cost(u, v, i, j, m) + Change(u, v, i + 1, j + 1)
    BY MatchingExtends
  <2> HIDE DEF e
  <2>7. Cheapest(u, v, i + 1, j + 1) <= Cost(u, v, i + 1, j + 1, e)
    BY <2>2, <2>6, CheapestFacts
  <2> QED BY <2>1, <2>3, <2>4, <2>5, <2>6, <2>7
<1>3. ASSUME NEW i \in Nat, NEW j \in Nat
      PROVE  /\ Cheapest(u, v, i, j) <= Cheapest(u, v, i + 1, j) + 1
             /\ Cheapest(u, v, i, j) <= Cheapest(u, v, i, j + 1) + 1
  <2>0. i + 1 \in Nat /\ j + 1 \in Nat /\ i + 1 >= 1 /\ j + 1 >= 1 /\ i + 1 - 1 = i /\ j + 1 - 1 = j
    OBVIOUS
  <2>1. Cheapest(u, v, i, j) <= Cheapest(u, v, i + 1, j) + 1
    <3>1. PICK e \in Matchings(i + 1, j) : Cheapest(u, v, i + 1, j) = Cost(u, v, i + 1, j, e)
      BY <2>0, CheapestFacts
    <3>2. \E m \in Matchings(i + 1 - 1, j) : Cost(u, v, i + 1 - 1, j, m) <= Cost(u, v, i + 1, j, e) + 1
      BY <2>0, MatchingShrinks
    <3>3. PICK m \in Matchings(i, j) : Cost(u, v, i, j, m) <= Cost(u, v, i + 1, j, e) + 1
      BY <2>0, <3>2
    <3>4. /\ Cheapest(u, v, i, j) <= Cost(u, v, i, j, m) /\ Cheapest(u, v, i, j) \in Nat
          /\ Cost(u, v, i, j, m) \in Nat /\ Cost(u, v, i + 1, j, e) \in Nat
      BY <2>0, CheapestFacts, MatchingFacts
    <3> QED BY <3>1, <3>3, <3>4
  <2>2. Cheapest(u, v, i, j) <= Cheapest(u, v, i, j + 1) + 1
    <3>1. PICK e \in Matchings(i, j + 1) : Cheapest(u, v, i, j + 1) = Cost(u, v, i, j + 1, e)
      BY <2>0, CheapestFacts
    <3>2. \E m \in Matchings(i, j + 1 - 1) : Cost(u, v, i, j + 1 - 1, m) <= Cost(u, v, i, j + 1, e) + 1
      BY <2>0, MatchingShrinks
    <3>3. PICK m \in Matchings(i, j) : Cost(u, v, i, j, m) <= Cost(u, v, i, j + 1, e) + 1
      BY <2>0, <3>2
    <3>4. /\ Cheapest(u, v, i, j) <= Cost(u, v, i, j, m) /\ Cheapest(u, v, i, j) \in Nat
          /\ Cost(u, v, i, j, m) \in Nat /\ Cost(u, v, i, j + 1, e) \in Nat
      BY <2>0, CheapestFacts, MatchingFacts
    <3> QED BY <3>1, <3>3, <3>4
  <2> QED BY <2>1, <2>2
\* An entry is one of the three before it, with the change that leads there.
<1>4. ASSUME NEW i \in Nat, NEW j \in Nat
      PROVE  \/ Cheapest(u, v, i + 1, j + 1) >= Cheapest(u, v, i, j + 1) + 1
             \/ Cheapest(u, v, i + 1, j + 1) >= Cheapest(u, v, i + 1, j) + 1
             \/ Cheapest(u, v, i + 1, j + 1) >= Cheapest(u, v, i, j) + Change(u, v, i + 1, j + 1)
  <2>0. i + 1 \in Nat /\ j + 1 \in Nat
    OBVIOUS
  <2>1. PICK e \in Matchings(i + 1, j + 1) : Cheapest(u, v, i + 1, j + 1) = Cost(u, v, i + 1, j + 1, e)
    BY <2>0, CheapestFacts
  <2>2. CASE e \in Matchings(i, j + 1)
    <3>1. Cost(u, v, i + 1, j + 1, e) = Cost(u, v, i, j + 1, e) + 1
      BY <2>0, <2>2, MatchingGrows
    <3>2. /\ Cheapest(u, v, i, j + 1) <= Cost(u, v, i, j + 1, e)
          /\ Cheapest(u, v, i, j + 1) \in Nat /\ Cost(u, v, i, j + 1, e) \in Nat
      BY <2>0, <2>2, CheapestFacts, MatchingFacts
    <3> QED BY <2>1, <3>1, <3>2
  <2>3. CASE e \in Matchings(i + 1, j)
    <3>1. Cost(u, v, i + 1, j + 1, e) = Cost(u, v, i + 1, j, e) + 1
      BY <2>0, <2>3, MatchingGrows
    <3>2. /\ Cheapest(u, v, i + 1, j) <= Cost(u, v, i + 1, j, e)
          /\ Cheapest(u, v, i + 1, j) \in Nat /\ Cost(u, v, i + 1, j, e) \in Nat
      BY <2>0, <2>3, CheapestFacts, MatchingFacts
    <3> QED BY <2>1, <3>1, <3>2
  <2>4. ASSUME NEW m \in Matchings(i, j),
               Cost(u, v, i + 1, j + 1, e) = Cost(u, v, i, j, m) + Change(u, v, i + 1, j + 1)
        PROVE  Cheapest(u, v, i + 1, j + 1) >= Cheapest(u, v, i, j) + Change(u, v, i + 1, j + 1)
    <3>1. /\ Cheapest(u, v, i, j) <= Cost(u, v, i, j, m)
          /\ Cheapest(u, v, i, j) \in Nat /\ Cost(u, v, i, j, m) \in Nat
      BY CheapestFacts, MatchingFacts
    <3>2. Change(u, v, i + 1, j + 1) \in Nat
      BY DEF Change
    <3> QED BY <2>1, <2>4, <3>1, <3>2
  <2> QED BY <2>2, <2>3, <2>4, MatchingEnds
<1>5. ASSUME NEW i \in Nat, NEW j \in Nat
      PROVE  /\ u[i + 1] = v[j + 1] => Cheapest(u, v, i + 1, j + 1) = Cheapest(u, v, i, j)
             /\ u[i + 1] # v[j + 1] =>
                  Cheapest(u, v, i + 1, j + 1) =
                    1 + Min({Cheapest(u, v, i + 1, j), Cheapest(u, v, i, j + 1), Cheapest(u, v, i, j)})
  <2>0. i + 1 \in Nat /\ j + 1 \in Nat
    OBVIOUS
  <2> DEFINE a == Cheapest(u, v, i + 1, j)
             b == Cheapest(u, v, i, j + 1)
             c == Cheapest(u, v, i, j)
             d == Cheapest(u, v, i + 1, j + 1)
  <2>1. a \in Nat /\ b \in Nat /\ c \in Nat /\ d \in Nat
    BY <2>0, CheapestFacts
  <2>2. /\ d <= b + 1 /\ d <= a + 1 /\ c <= a + 1 /\ c <= b + 1
        /\ d <= c + Change(u, v, i + 1, j + 1)
        /\ Change(u, v, i + 1, j + 1) = IF u[i + 1] = v[j + 1] THEN 0 ELSE 1
    BY <2>0, <1>2, <1>3 DEF Change
  <2>3. d >= b + 1 \/ d >= a + 1 \/ d >= c + Change(u, v, i + 1, j + 1)
    BY <1>4
  <2> HIDE DEF a, b, c, d
  <2>4. CASE u[i + 1] = v[j + 1]
    <3>1. d = c
      BY <2>1, <2>2, <2>3, <2>4
    <3> QED BY <2>4, <3>1 DEF c, d
  <2>5. CASE u[i + 1] # v[j + 1]
    <3>1. Min({a, b, c}) \in {a, b, c} /\ \A y \in {a, b, c} : Min({a, b, c}) <= y
      BY <2>1, MinFacts
    <3>2. d = 1 + Min({a, b, c})
      <4> DEFINE z == Min({a, b, c})
      <4>1. (z = a \/ z = b \/ z = c) /\ z <= a /\ z <= b /\ z <= c
        BY <3>1
      <4> HIDE DEF z
      <4>2. d = 1 + z
        BY <2>1, <2>2, <2>3, <2>5, <4>1
      <4> QED BY <4>2 DEF z
    <3> QED BY <2>5, <3>2 DEF a, b, c, d
  <2> QED BY <2>4, <2>5
<1>6. \A j \in Nat : Cheapest(u, v, 0, j) = j
  BY <1>1
<1>7. \A i \in Nat : Cheapest(u, v, i, 0) = i
  BY <1>1
<1> QED BY <1>5, <1>6, <1>7

\* For all texts, of any length and over any set of characters: what
\* editDistance leaves in the last cell of its table is the least number of
\* characters to insert, drop or replace over all ways to match them in order.
THEOREM EditDistanceCheapest ==
  ASSUME NEW S, NEW u \in Seq(S), NEW v \in Seq(S)
  PROVE  editDistance(u, v) = Cheapest(u, v, Len(u), Len(v))
<1> DEFINE K == (0 .. Len(u)) \X (0 .. Len(v))
           Entry(f, i, j) ==
             IF i = 0 THEN j
             ELSE IF j = 0 THEN i
             ELSE IF u[i] = v[j] THEN f[<<i - 1, j - 1>>]
             ELSE 1 + Min({f[<<i, j - 1>>], f[<<i - 1, j>>], f[<<i - 1, j - 1>>]})
           t == CHOOSE f : f = [p \in K |-> Entry(f, p[1], p[2])]
           Best(p) == Cheapest(u, v, p[1], p[2])
<1>0. Len(u) \in Nat /\ Len(v) \in Nat
  OBVIOUS
<1>1. editDistance(u, v) = t[<<Len(u), Len(v)>>]
  BY DEF editDistance
<1>2. ASSUME NEW p \in K
      PROVE  /\ p = <<p[1], p[2]>> /\ p[1] \in Nat /\ p[2] \in Nat
             /\ p[1] # 0 /\ p[2] # 0 =>
                  /\ p[1] - 1 \in Nat /\ p[2] - 1 \in Nat /\ p[1] - 1 + 1 = p[1] /\ p[2] - 1 + 1 = p[2]
                  /\ <<p[1] - 1, p[2] - 1>> \in K /\ <<p[1], p[2] - 1>> \in K /\ <<p[1] - 1, p[2]>> \in K
  BY <1>0
<1> HIDE DEF K
\* An entry is right when those before it are.
<1>3. ASSUME NEW f, NEW p \in K,
             p[1] # 0 /\ p[2] # 0 =>
               \A o \in {<<p[1] - 1, p[2] - 1>>, <<p[1], p[2] - 1>>, <<p[1] - 1, p[2]>>} : f[o] = Best(o)
      PROVE  Entry(f, p[1], p[2]) = Best(p)
  <2> DEFINE i == p[1]
             j == p[2]
  <2>0. i \in Nat /\ j \in Nat
    BY <1>2
  <2>1. CASE i = 0
    <3>1. Cheapest(u, v, 0, j) = j
      BY <2>0, CheapestSteps
    <3> QED BY <2>1, <3>1
  <2>2. CASE i # 0 /\ j = 0
    <3>1. Cheapest(u, v, i, 0) = i
      BY <2>0, CheapestSteps
    <3> QED BY <2>2, <3>1
  <2>3. CASE i # 0 /\ j # 0
    <3> DEFINE k == i - 1
               l == j - 1
    <3>1. k \in Nat /\ l \in Nat /\ k + 1 = i /\ l + 1 = j
      BY <1>2, <2>3
    <3>2. Entry(f, i, j) = IF u[i] = v[j] THEN f[<<k, l>>] ELSE 1 + Min({f[<<i, l>>], f[<<k, j>>], f[<<k, l>>]})
      BY <2>3
    <3>3. /\ f[<<k, l>>] = Cheapest(u, v, k, l) /\ f[<<i, l>>] = Cheapest(u, v, i, l)
          /\ f[<<k, j>>] = Cheapest(u, v, k, j)
      BY <1>3, <2>3
    <3> HIDE DEF i, j, k, l, Entry
    <3>4. /\ u[k + 1] = v[l + 1] => Cheapest(u, v, k + 1, l + 1) = Cheapest(u, v, k, l)
          /\ u[k + 1] # v[l + 1] =>
               Cheapest(u, v, k + 1, l + 1) =
                 1 + Min({Cheapest(u, v, k + 1, l), Cheapest(u, v, k, l + 1), Cheapest(u, v, k, l)})
      BY <3>1, CheapestSteps
    <3>5. Entry(f, i, j) = Cheapest(u, v, i, j)
      BY <3>1, <3>2, <3>3, <3>4
    <3> QED BY <3>5 DEF i, j
  <2> QED BY <2>1, <2>2, <2>3
<1>4. t = [p \in K |-> Entry(t, p[1], p[2])]
  <2> DEFINE g == [p \in K |-> Best(p)]
  <2>1. \A p \in K : g[p] = Best(p)
    OBVIOUS
  <2> HIDE DEF g, Entry, Best
  <2>2. ASSUME NEW p \in K PROVE Best(p) = Entry(g, p[1], p[2])
    <3>1. p[1] # 0 /\ p[2] # 0 =>
            \A o \in {<<p[1] - 1, p[2] - 1>>, <<p[1], p[2] - 1>>, <<p[1] - 1, p[2]>>} : g[o] = Best(o)
      BY <1>2, <2>1
    <3>2. Entry(g, p[1], p[2]) = Best(p)
      BY <1>3, <3>1
    <3> QED BY <3>2
  <2>3. g = [p \in K |-> Entry(g, p[1], p[2])]
    BY <2>2 DEF g
  <2> QED BY <2>3
<1> HIDE DEF t, Entry, Best
<1>5. \A p \in K : t[p] = Entry(t, p[1], p[2])
  BY <1>4
<1> DEFINE Bad == {n \in Nat : \E p \in K : n = p[1] + p[2] /\ t[p] # Best(p)}
<1>6. ASSUME Bad # {} PROVE FALSE
  <2>1. PICK n \in Bad : \A k \in Bad : n <= k
    <3>1. Bad \in SUBSET Nat
      OBVIOUS
    <3> HIDE DEF Bad
    <3> QED BY <1>6, <3>1, Least
  <2>2. PICK p \in K : n = p[1] + p[2] /\ t[p] # Best(p)
    BY <2>1
  <2>3. ASSUME NEW o \in K, o[1] + o[2] < n PROVE t[o] = Best(o)
    <3>0. n \in Nat
      BY <2>1
    <3>1. o[1] + o[2] \in Nat /\ n \in Nat
      <4> HIDE DEF Bad
      <4>1. o[1] \in Nat /\ o[2] \in Nat
        BY <1>2
      <4> QED BY <3>0, <4>1
    <3> SUFFICES ASSUME t[o] # Best(o) PROVE FALSE
      OBVIOUS
    <3>2. o[1] + o[2] \in Bad
      BY <3>1
    <3>3. n <= o[1] + o[2]
      BY <2>1, <3>2
    <3> HIDE DEF Bad
    <3> QED BY <2>3, <3>1, <3>3
  <2> HIDE DEF Bad
  <2>4. ASSUME p[1] # 0, p[2] # 0,
               NEW o \in {<<p[1] - 1, p[2] - 1>>, <<p[1], p[2] - 1>>, <<p[1] - 1, p[2]>>}
        PROVE  t[o] = Best(o)
    <3>1. o \in K /\ p[1] \in Nat /\ p[2] \in Nat
      BY <1>2, <2>4
    <3>2. o[1] + o[2] < p[1] + p[2]
      BY <2>4, <3>1
    <3> QED BY <2>2, <2>3, <3>1, <3>2
  <2>5. Entry(t, p[1], p[2]) = Best(p)
    BY <1>3, <2>4
  <2> QED BY <1>5, <2>2, <2>5
<1> DEFINE last == <<Len(u), Len(v)>>
<1>7. last \in K /\ last[1] + last[2] \in Nat
  BY <1>0 DEF K
<1>8. t[last] = Best(last)
  <2> HIDE DEF last
  <2> QED BY <1>6, <1>7
<1> QED BY <1>1, <1>8 DEF Best

\* The number that Distance gives.
LEMMA DistanceFacts ==
  ASSUME NEW q \in Queries, NEW w \in AllWords, w \in Seq(ToSet(Characters))
  PROVE  Distance[<<q, w>>] = editDistance(q, w) /\ Distance[<<q, w>>] \in Nat
<1>1. q \in Seq(ToSet(Characters)) /\ Len(q) \in Nat /\ Len(w) \in Nat /\ DOMAIN q = 1 .. Len(q) /\ DOMAIN w = 1 .. Len(w)
  <2>1. q \in Seq(ToSet(Characters))
    BY DictionaryAssumption
  <2> QED BY <2>1
<1> DEFINE p == <<q, w>>
<1>2. p \in Queries \X AllWords /\ p[1] = q /\ p[2] = w
  OBVIOUS
<1> HIDE DEF p
<1>3. Distance[p] = Min({Changes(q, w, m) : m \in {s \in SUBSET ((DOMAIN q) \X (DOMAIN w)) : InOrder(s)}})
  <2>1. Distance[p] = Min({Changes(p[1], p[2], m) : m \in {s \in SUBSET ((DOMAIN p[1]) \X (DOMAIN p[2])) : InOrder(s)}})
    BY <1>2 DEF Distance
  <2> QED BY <1>2, <2>1
<1>4. {s \in SUBSET ((DOMAIN q) \X (DOMAIN w)) : InOrder(s)} = Matchings(Len(q), Len(w))
  BY <1>1 DEF Matchings
<1>5. \A m : Changes(q, w, m) = Cost(q, w, Len(q), Len(w), m)
  BY DEF Changes, Cost, Wrong
<1>6. Distance[p] = Cheapest(q, w, Len(q), Len(w))
  <2>1. {Changes(q, w, m) : m \in Matchings(Len(q), Len(w))} = Costs(q, w, Len(q), Len(w))
    BY <1>5 DEF Costs
  <2> QED BY <1>3, <1>4, <2>1 DEF Cheapest
<1>7. editDistance(q, w) = Cheapest(q, w, Len(q), Len(w)) /\ Cheapest(q, w, Len(q), Len(w)) \in Nat
  BY <1>1, EditDistanceCheapest, CheapestFacts
<1> QED BY <1>6, <1>7 DEF p

-----------------------------------------------------------------------------
(***************************************************************************)
(* The order of the candidates.                                              *)
(***************************************************************************)

\* Characters are told apart by their codes.
LEMMA RankFacts ==
  ASSUME NEW c \in ToSet(Characters), NEW d \in ToSet(Characters)
  PROVE  Rank(c) \in Nat /\ (Rank(c) = Rank(d) => c = d)
<1>1. \A x \in ToSet(Characters) : \E i \in DOMAIN Characters : Characters[i] = x
  BY DEF ToSet
<1>2. \A x \in ToSet(Characters) : Rank(x) \in DOMAIN Characters /\ Characters[Rank(x)] = x
  BY <1>1 DEF Rank
<1>3. DOMAIN Characters \subseteq Nat
  BY DictionaryAssumption
<1> QED BY <1>2, <1>3

\* Words are compared at the first place where they differ.
LEMMA WordLessAt ==
  ASSUME NEW S, NEW u \in Seq(S), NEW v \in Seq(S)
  PROVE  WordLess(u, v) <=>
           \E n \in Nat :
             /\ n <= Len(u) /\ n < Len(v)
             /\ \A i \in 1 .. n : u[i] = v[i]
             /\ n = Len(u) \/ Rank(u[n + 1]) < Rank(v[n + 1])
<1>0. Len(u) \in Nat /\ Len(v) \in Nat
  OBVIOUS
<1>1. ASSUME NEW n \in Nat, n <= Len(u), n < Len(v)
      PROVE  SubSeq(u, 1, n) = SubSeq(v, 1, n) <=> \A i \in 1 .. n : u[i] = v[i]
  <2>1. ASSUME NEW w \in Seq(S), n <= Len(w)
        PROVE  /\ DOMAIN SubSeq(w, 1, n) = 1 .. n
               /\ SubSeq(w, 1, n) = [i \in 1 .. n |-> SubSeq(w, 1, n)[i]]
               /\ \A i \in 1 .. n : SubSeq(w, 1, n)[i] = w[i]
    BY <2>1
  <2>2. /\ SubSeq(u, 1, n) = [i \in 1 .. n |-> SubSeq(u, 1, n)[i]] /\ \A i \in 1 .. n : SubSeq(u, 1, n)[i] = u[i]
        /\ SubSeq(v, 1, n) = [i \in 1 .. n |-> SubSeq(v, 1, n)[i]] /\ \A i \in 1 .. n : SubSeq(v, 1, n)[i] = v[i]
    BY <1>0, <1>1, <2>1
  <2> DEFINE x == SubSeq(u, 1, n)
             y == SubSeq(v, 1, n)
  <2> HIDE DEF x, y
  <2>3. x = y <=> \A i \in 1 .. n : u[i] = v[i]
    BY <2>2 DEF x, y
  <2> QED BY <2>3 DEF x, y
<1> DEFINE Order(n) == n = Len(u) \/ Rank(u[n + 1]) < Rank(v[n + 1])
<1>2. WordLess(u, v) <=>
        \E n \in 0 .. Len(u) : n < Len(v) /\ SubSeq(u, 1, n) = SubSeq(v, 1, n) /\ Order(n)
  BY Zenon DEF WordLess
<1>3. \A n : n \in 0 .. Len(u) <=> n \in Nat /\ n <= Len(u)
  BY <1>0
<1> HIDE DEF Order
<1>4. WordLess(u, v) <=>
        \E n \in Nat : n <= Len(u) /\ n < Len(v) /\ (\A i \in 1 .. n : u[i] = v[i]) /\ Order(n)
  BY <1>1, <1>2, <1>3, Zenon
<1> QED BY <1>4, Zenon DEF Order

\* The words are in a strict order, and any two of them can be compared.
LEMMA WordOrder ==
  ASSUME NEW u \in Seq(ToSet(Characters)), NEW v \in Seq(ToSet(Characters)), NEW w \in Seq(ToSet(Characters))
  PROVE  /\ ~WordLess(u, u)
         /\ WordLess(u, v) /\ WordLess(v, w) => WordLess(u, w)
         /\ u = v \/ WordLess(u, v) \/ WordLess(v, u)
<1> DEFINE Chars == ToSet(Characters)
<1>0. Len(u) \in Nat /\ Len(v) \in Nat /\ Len(w) \in Nat
  OBVIOUS
<1>1. ASSUME NEW x \in Seq(Chars), NEW i \in Nat, i < Len(x) PROVE Rank(x[i + 1]) \in Nat
  <2>1. x[i + 1] \in Chars
    BY <1>1
  <2> QED BY <2>1, RankFacts
<1>2. ~WordLess(u, u)
  <2> SUFFICES ASSUME WordLess(u, u) PROVE FALSE
    OBVIOUS
  <2>1. PICK n \in Nat : n < Len(u) /\ (n = Len(u) \/ Rank(u[n + 1]) < Rank(u[n + 1]))
    BY WordLessAt
  <2>2. Rank(u[n + 1]) \in Nat
    BY <1>1, <2>1
  <2> QED BY <1>0, <2>1, <2>2
<1>3. ASSUME WordLess(u, v), WordLess(v, w) PROVE WordLess(u, w)
  <2>1. PICK n \in Nat : /\ n <= Len(u) /\ n < Len(v)
                         /\ \A i \in 1 .. n : u[i] = v[i]
                         /\ n = Len(u) \/ Rank(u[n + 1]) < Rank(v[n + 1])
    BY <1>3, WordLessAt
  <2>2. PICK m \in Nat : /\ m <= Len(v) /\ m < Len(w)
                         /\ \A i \in 1 .. m : v[i] = w[i]
                         /\ m = Len(v) \/ Rank(v[m + 1]) < Rank(w[m + 1])
    BY <1>3, WordLessAt
  <2>3. CASE n < m
    <3>1. n < Len(w) /\ n + 1 \in 1 .. m /\ \A i \in 1 .. n : i \in 1 .. m
      BY <1>0, <2>1, <2>2, <2>3
    <3>2. v[n + 1] = w[n + 1] /\ \A i \in 1 .. n : u[i] = w[i]
      BY <2>1, <2>2, <3>1
    <3> QED BY <2>1, <3>1, <3>2, WordLessAt
  <2>4. CASE n = m
    <3>1. n < Len(w) /\ \A i \in 1 .. n : u[i] = w[i]
      BY <2>1, <2>2, <2>4
    <3>2. n = Len(u) \/ Rank(u[n + 1]) < Rank(w[n + 1])
      <4> SUFFICES ASSUME n # Len(u) PROVE Rank(u[n + 1]) < Rank(w[n + 1])
        OBVIOUS
      <4>1. n < Len(u) /\ n # Len(v)
        BY <1>0, <2>1
      <4>2. Rank(u[n + 1]) < Rank(v[n + 1]) /\ Rank(v[n + 1]) < Rank(w[n + 1])
        BY <2>1, <2>2, <2>4, <4>1
      <4>3. Rank(u[n + 1]) \in Nat /\ Rank(v[n + 1]) \in Nat /\ Rank(w[n + 1]) \in Nat
        BY <1>1, <2>1, <3>1, <4>1
      <4> QED BY <4>2, <4>3
    <3> QED BY <2>1, <3>1, <3>2, WordLessAt
  <2>5. CASE m < n
    <3>1. m <= Len(u) /\ m # Len(v) /\ m + 1 \in 1 .. n /\ \A i \in 1 .. m : i \in 1 .. n
      BY <1>0, <2>1, <2>2, <2>5
    <3>2. u[m + 1] = v[m + 1] /\ \A i \in 1 .. m : u[i] = w[i]
      BY <2>1, <2>2, <3>1
    <3> QED BY <2>2, <3>1, <3>2, WordLessAt
  <2> QED BY <2>3, <2>4, <2>5
<1>4. ASSUME u # v PROVE WordLess(u, v) \/ WordLess(v, u)
  <2> DEFINE T == {n \in Nat : n = Len(u) \/ n = Len(v) \/ u[n + 1] # v[n + 1]}
  <2>1. PICK n \in T : \A m \in T : n <= m
    <3>1. Len(u) \in T /\ T \in SUBSET Nat
      BY <1>0
    <3> HIDE DEF T
    <3> QED BY <3>1, Least
  <2>2. n \in Nat /\ (n = Len(u) \/ n = Len(v) \/ u[n + 1] # v[n + 1]) /\ n <= Len(u) /\ n <= Len(v)
    <3>1. Len(u) \in T /\ Len(v) \in T
      BY <1>0
    <3> QED BY <2>1, <3>1
  <2>3. ASSUME NEW i \in 1 .. n PROVE u[i] = v[i]
    <3> DEFINE k == i - 1
    <3>1. k \in Nat /\ k < n /\ k + 1 = i
      BY <2>2
    <3> HIDE DEF k
    <3>2. k \notin T
      <4> HIDE DEF T
      <4> QED BY <2>1, <2>2, <3>1
    <3> QED BY <3>1, <3>2
  <2> HIDE DEF T
  <2>4. CASE n = Len(u) /\ n = Len(v)
    <3>1. \A x \in Seq(Chars) : x \in [1 .. Len(x) -> Chars]
      OBVIOUS
    <3>2. u = v
      <4> HIDE DEF Chars
      <4>1. u \in [1 .. n -> Chars] /\ v \in [1 .. n -> Chars]
        BY <2>4, <3>1 DEF Chars
      <4>2. u = [i \in 1 .. n |-> u[i]] /\ v = [i \in 1 .. n |-> v[i]]
        BY <4>1
      <4>3. [i \in 1 .. n |-> u[i]] = [i \in 1 .. n |-> v[i]]
        BY <2>3
      <4> QED BY <4>2, <4>3
    <3> QED BY <1>4, <3>2
  <2>5. CASE n = Len(u) /\ n # Len(v)
    <3>1. n <= Len(u) /\ n < Len(v) /\ n = Len(u) /\ \A i \in 1 .. n : u[i] = v[i]
      BY <1>0, <2>2, <2>3, <2>5
    <3>2. WordLess(u, v)
      BY <2>2, <3>1, WordLessAt
    <3> QED BY <3>2
  <2>6. CASE n # Len(u) /\ n = Len(v)
    <3>1. n <= Len(v) /\ n < Len(u) /\ n = Len(v) /\ \A i \in 1 .. n : v[i] = u[i]
      BY <1>0, <2>2, <2>3, <2>6
    <3>2. WordLess(v, u)
      BY <2>2, <3>1, WordLessAt
    <3> QED BY <3>2
  <2>7. CASE n # Len(u) /\ n # Len(v)
    <3>1. n < Len(u) /\ n < Len(v) /\ u[n + 1] # v[n + 1]
      BY <1>0, <2>2, <2>7
    <3>2. u[n + 1] \in Chars /\ v[n + 1] \in Chars
      BY <2>2, <3>1
    <3>3. Rank(u[n + 1]) # Rank(v[n + 1]) /\ Rank(u[n + 1]) \in Nat /\ Rank(v[n + 1]) \in Nat
      BY <3>1, <3>2, RankFacts
    <3>4. Rank(u[n + 1]) < Rank(v[n + 1]) \/ Rank(v[n + 1]) < Rank(u[n + 1])
      BY <3>3
    <3>5. CASE Rank(u[n + 1]) < Rank(v[n + 1])
      BY <2>2, <2>3, <3>1, <3>5, WordLessAt
    <3>6. CASE Rank(v[n + 1]) < Rank(u[n + 1])
      BY <2>2, <2>3, <3>1, <3>6, WordLessAt
    <3> QED BY <3>4, <3>5, <3>6
  <2> QED BY <2>4, <2>5, <2>6, <2>7
<1> QED BY <1>2, <1>3, <1>4

\* So are the candidates.
Scores == [word : Seq(ToSet(Characters)), freq : Nat, dist : Nat]

LEMMA BetterOrder ==
  ASSUME NEW a \in Scores, NEW b \in Scores, NEW c \in Scores
  PROVE  /\ ~Better(a, a)
         /\ Better(a, b) /\ Better(b, c) => Better(a, c)
         /\ a = b \/ Better(a, b) \/ Better(b, a)
<1>1. \A x \in {a, b, c} : x.word \in Seq(ToSet(Characters)) /\ x.freq \in Nat /\ x.dist \in Nat
  BY DEF Scores
<1>2. /\ ~WordLess(a.word, a.word)
      /\ WordLess(a.word, b.word) /\ WordLess(b.word, c.word) => WordLess(a.word, c.word)
      /\ a.word = b.word \/ WordLess(a.word, b.word) \/ WordLess(b.word, a.word)
  BY <1>1, WordOrder
<1>3. a.word = b.word /\ a.freq = b.freq /\ a.dist = b.dist => a = b
  BY DEF Scores
<1>4. ~Better(a, a)
  BY <1>1, <1>2 DEF Better
<1>5. Better(a, b) /\ Better(b, c) => Better(a, c)
  BY <1>1, <1>2 DEF Better
<1>6. a = b \/ Better(a, b) \/ Better(b, a)
  BY <1>1, <1>2, <1>3 DEF Better
<1> QED BY <1>4, <1>5, <1>6

\* A finite set in a strict order: each has a rank of its own.
LEMMA RanksDiffer ==
  ASSUME NEW T, IsFiniteSet(T), T \subseteq Scores
  PROVE  /\ \A c \in T : Cardinality({d \in T : Better(d, c)}) \in Nat
         /\ \A c, e \in T : Cardinality({d \in T : Better(d, c)}) = Cardinality({d \in T : Better(d, e)}) => c = e
<1> DEFINE Ahead(c) == {d \in T : Better(d, c)}
<1>1. \A c \in T : IsFiniteSet(Ahead(c)) /\ Cardinality(Ahead(c)) \in Nat
  <2>1. \A c \in T : Ahead(c) \in SUBSET T
    OBVIOUS
  <2> HIDE DEF Ahead
  <2> QED BY <2>1, FS_Subset, FS_CardinalityType
<1>2. ASSUME NEW c \in T, NEW e \in T, Better(c, e) PROVE Cardinality(Ahead(c)) # Cardinality(Ahead(e))
  <2>1. Ahead(c) \in SUBSET Ahead(e)
    BY <1>2, BetterOrder
  <2>2. c \in Ahead(e) /\ c \notin Ahead(c)
    BY <1>2, BetterOrder
  <2> HIDE DEF Ahead
  <2>3. Cardinality(Ahead(e)) = Cardinality(Ahead(c)) => Ahead(e) = Ahead(c)
    BY <1>1, <2>1, FS_Subset
  <2> QED BY <2>2, <2>3
<1>3. ASSUME NEW c \in T, NEW e \in T, Cardinality(Ahead(c)) = Cardinality(Ahead(e)) PROVE c = e
  <2>1. c = e \/ Better(c, e) \/ Better(e, c)
    BY BetterOrder
  <2> HIDE DEF Ahead
  <2> QED BY <1>2, <1>3, <2>1
<1> QED BY <1>1, <1>3

\* The answer lists the candidates by their ranks.
LEMMA RankedFacts ==
  ASSUME NEW T, IsFiniteSet(T), T \subseteq Scores, NEW c \in T,
         NEW i \in 1 .. Cardinality(T), Cardinality({d \in T : Better(d, c)}) = i - 1
  PROVE  Ranked(T)[i] = c
<1>1. Ranked(T)[i] = CHOOSE e \in T : Cardinality({d \in T : Better(d, e)}) = i - 1
  BY DEF Ranked
<1>2. \A e \in T : Cardinality({d \in T : Better(d, e)}) = i - 1 => e = c
  BY RanksDiffer
<1> QED BY <1>1, <1>2

-----------------------------------------------------------------------------
(***************************************************************************)
(* Bytes and digits: a piece of a Chinese word is one of its characters, and  *)
(* no two positions have the same digits.                                     *)
(***************************************************************************)

Size(c) == IF IsOneByte(c) THEN 1 ELSE 3

\* The bytes of a word whose characters are all of one size.
LEMMA EvenBytes ==
  ASSUME NEW w \in Seq(ToSet(Characters)), Len(w) >= 1, NEW s \in {1, 3},
         \A k \in 1 .. Len(w) : Size(w[k]) = s
  PROVE  /\ Bytes(w) \in Seq(Units) /\ Len(Bytes(w)) = s * Len(w)
         /\ \A k \in 1 .. Len(w), b \in 1 .. s : Bytes(w)[s * (k - 1) + b] = <<w[k], b>>
<1> DEFINE n == Len(w)
           P == [1 .. s -> Units]
           ss == [k \in DOMAIN w |-> [i \in 1 .. (IF IsOneByte(w[k]) THEN 1 ELSE 3) |-> <<w[k], i>>]]
<1>1. n \in Nat /\ n >= 1 /\ DOMAIN w = 1 .. n /\ \A k \in 1 .. n : w[k] \in ToSet(Characters)
  OBVIOUS
<1>2. s \in Nat /\ s >= 1
  OBVIOUS
<1>3. ASSUME NEW k \in 1 .. n
      PROVE  ss[k] \in Seq(Units) /\ Len(ss[k]) = s /\ \A b \in 1 .. s : ss[k][b] = <<w[k], b>>
  <2> DEFINE u == [i \in 1 .. s |-> <<w[k], i>>]
  <2>1. ss[k] = u
    BY <1>1 DEF Size
  <2>2. ASSUME NEW i \in 1 .. s PROVE u[i] = <<w[k], i>> /\ u[i] \in Units
    BY <1>1 DEF Units
  <2>3. u \in [1 .. s -> Units] /\ DOMAIN u = 1 .. s
    BY <2>2
  <2> HIDE DEF u, ss
  <2>4. u \in Seq(Units) /\ Len(u) = s
    BY <1>2, <2>3, SeqDef, LenProperties
  <2> QED BY <2>1, <2>2, <2>4
<1>4. ss \in Seq(Seq(Units)) /\ Len(ss) = n
  <2>1. ss \in [1 .. n -> Seq(Units)] /\ DOMAIN ss = 1 .. n
    <3>1. DOMAIN ss = 1 .. n /\ ss = [k \in 1 .. n |-> ss[k]]
      BY <1>1
    <3> HIDE DEF ss
    <3> QED BY <1>3, <3>1
  <2> HIDE DEF ss
  <2> QED BY <1>1, <2>1, SeqDef, LenProperties
<1>5. \A u \in Seq(Units), v \in Seq(Units) : u \o v \in Seq(Units)
  BY ConcatProperties
<1>6. /\ FlattenSeq(ss) \in Seq(Units)
      /\ \E h : /\ \A i \in 1 .. Len(ss) : h[i] \in Seq(Units) /\ h[i] = IF i = 1 THEN ss[i] ELSE h[i - 1] \o ss[i]
                /\ FlattenSeq(ss) = h[Len(ss)]
  <2> HIDE DEF ss
  <2> DEFINE G == Seq(Units)
  <2>1. ss \in Seq(G) /\ Len(ss) >= 1 /\ G \subseteq G /\ \A u \in G, v \in G : u \o v \in G
    BY <1>1, <1>4, <1>5
  <2> HIDE DEF G
  <2>2. /\ FlattenSeq(ss) \in G
        /\ \E h : /\ \A i \in 1 .. Len(ss) : h[i] \in G /\ h[i] = IF i = 1 THEN ss[i] ELSE h[i - 1] \o ss[i]
                  /\ FlattenSeq(ss) = h[Len(ss)]
    BY <2>1, FlattenIn
  <2> QED BY <2>2 DEF G
<1>7. PICK h : /\ \A i \in 1 .. n : h[i] \in Seq(Units) /\ h[i] = IF i = 1 THEN ss[i] ELSE h[i - 1] \o ss[i]
               /\ FlattenSeq(ss) = h[n]
  BY <1>4, <1>6
<1>8. Bytes(w) = FlattenSeq(ss)
  BY DEF Bytes
<1> HIDE DEF ss
<1> DEFINE Good(i) == /\ Len(h[i]) = s * i
                      /\ \A k \in 1 .. i, b \in 1 .. s : h[i][s * (k - 1) + b] = <<w[k], b>>
           Bad == {i \in 1 .. n : ~Good(i)}
<1> HIDE DEF Good
<1>9. ASSUME Bad # {} PROVE FALSE
  <2>0. Bad \in SUBSET Nat
    BY <1>1
  <2>1. PICK i \in Bad : \A j \in Bad : i <= j
    <3> HIDE DEF Bad
    <3> QED BY <1>9, <2>0, Least
  <2>2. i \in 1 .. n /\ i \in Nat /\ ~Good(i)
    BY <1>1, <2>1
  <2>3. CASE i = 1
    <3>1. h[1] = ss[1] /\ Len(ss[1]) = s /\ \A b \in 1 .. s : ss[1][b] = <<w[1], b>>
      BY <1>3, <1>7, <2>2, <2>3
    <3>2. s * 1 = s /\ \A b \in 1 .. s : s * (1 - 1) + b = b
      OBVIOUS
    <3>3. ASSUME NEW k \in 1 .. 1, NEW b \in 1 .. s PROVE h[1][s * (k - 1) + b] = <<w[k], b>>
      <4>1. k = 1 /\ s * (k - 1) + b = b
        BY <3>2
      <4> QED BY <3>1, <4>1
    <3>4. Good(1)
      BY <3>1, <3>2, <3>3 DEF Good
    <3> QED BY <2>2, <2>3, <3>4
  <2>4. CASE i # 1
    <3>1. i - 1 \in 1 .. n /\ i - 1 \notin Bad
      <4>1. i - 1 \in 1 .. n /\ ~(i <= i - 1)
        BY <1>1, <2>2, <2>4
      <4> HIDE DEF Bad
      <4> QED BY <2>1, <4>1
    <3>2. Good(i - 1)
      BY <3>1
    <3>3. h[i] = h[i - 1] \o ss[i] /\ h[i - 1] \in Seq(Units) /\ ss[i] \in Seq(Units)
      BY <1>3, <1>7, <2>2, <2>4, <3>1
    <3>4. Len(h[i - 1]) = s * (i - 1) /\ Len(ss[i]) = s
      BY <1>3, <2>2, <3>2 DEF Good
    <3>5. /\ s * (i - 1) + s = s * i /\ s * (i - 1) \in Nat
          /\ \A k \in 1 .. i - 1, b \in 1 .. s : s * (k - 1) + b \in 1 .. s * (i - 1)
      <4>1. CASE s = 1
        BY <2>2, <2>4, <4>1
      <4>2. CASE s = 3
        BY <2>2, <2>4, <4>2
      <4> QED BY <4>1, <4>2
    <3> DEFINE m == s * (i - 1)
    <3>6. /\ Len(h[i]) = m + s
          /\ \A x \in 1 .. m : h[i][x] = h[i - 1][x]
          /\ \A b \in 1 .. s : h[i][m + b] = ss[i][b]
      <4>0. m \in Nat
        BY <3>5
      <4> HIDE DEF m
      <4> DEFINE x == h[i - 1]
                 y == ss[i]
      <4>1. x \in Seq(Units) /\ Len(x) = m /\ y \in Seq(Units) /\ Len(y) = s /\ h[i] = x \o y
        BY <3>3, <3>4 DEF m
      <4> HIDE DEF x, y
      <4>2. Len(x \o y) = m + s /\ \A z \in 1 .. m + s : (x \o y)[z] = IF z <= m THEN x[z] ELSE y[z - m]
        BY <4>1, ConcatProperties
      <4>3. ASSUME NEW z \in 1 .. m PROVE h[i][z] = x[z]
        <5>1. z \in 1 .. m + s /\ z <= m
          BY <1>2, <4>0
        <5> QED BY <4>1, <4>2, <5>1
      <4>4. ASSUME NEW b \in 1 .. s PROVE h[i][m + b] = y[b]
        <5>1. ASSUME NEW z, z = m + b PROVE (x \o y)[z] = y[b]
          <6>1. z \in 1 .. m + s /\ ~(z <= m) /\ z - m = b
            BY <1>2, <4>0, <5>1
          <6>2. (x \o y)[z] = IF z <= m THEN x[z] ELSE y[z - m]
            BY <4>2, <6>1, Zenon
          <6> QED BY <6>1, <6>2, Zenon
        <5> QED BY <4>1, <5>1
      <4>5. Len(h[i]) = m + s
        BY <4>1, <4>2
      <4> QED BY <4>3, <4>4, <4>5 DEF x, y
    <3> HIDE DEF m
    <3>7. ASSUME NEW k \in 1 .. i, NEW b \in 1 .. s PROVE h[i][s * (k - 1) + b] = <<w[k], b>>
      <4>1. CASE k = i
        <5>1. ss[i][b] = <<w[i], b>>
          BY <1>3, <2>2
        <5> QED BY <3>6, <4>1, <5>1 DEF m
      <4>2. CASE k # i
        <5>1. k \in 1 .. i - 1
          BY <2>2, <4>2
        <5>2. s * (k - 1) + b \in 1 .. m
          BY <3>5, <5>1 DEF m
        <5>3. h[i - 1][s * (k - 1) + b] = <<w[k], b>>
          BY <3>2, <5>1 DEF Good
        <5> QED BY <3>6, <5>2, <5>3
      <4> QED BY <4>1, <4>2
    <3>8. Len(h[i]) = s * i
      BY <3>5, <3>6 DEF m
    <3> QED BY <2>2, <3>7, <3>8 DEF Good
  <2> QED BY <2>3, <2>4
<1>10. n \in 1 .. n
  BY <1>1
<1>11. Good(n)
  BY <1>9, <1>10
<1>12. Bytes(w) = h[n] /\ h[n] \in Seq(Units)
  BY <1>7, <1>8, <1>10
<1> QED BY <1>11, <1>12 DEF Good

\* A character alone.
LEMMA CharBytes ==
  ASSUME NEW c \in ToSet(Characters)
  PROVE  /\ Bytes(<<c>>) \in Seq(Units) /\ Len(Bytes(<<c>>)) = Size(c)
         /\ \A b \in 1 .. Size(c) : Bytes(<<c>>)[b] = <<c, b>>
         /\ Bytes(<<c>>)[1][1] = c
<1> DEFINE w == <<c>>
           s == Size(c)
<1>1. w \in Seq(ToSet(Characters)) /\ Len(w) = 1 /\ w[1] = c
  OBVIOUS
<1>2. s \in {1, 3}
  BY DEF Size
<1>3. \A k \in 1 .. Len(w) : Size(w[k]) = s
  <2>1. \A k \in 1 .. Len(w) : k = 1
    BY <1>1
  <2> QED BY <1>1, <2>1
<1> HIDE DEF w, s
<1>4. /\ Bytes(w) \in Seq(Units) /\ Len(Bytes(w)) = s * Len(w)
      /\ \A k \in 1 .. Len(w), b \in 1 .. s : Bytes(w)[s * (k - 1) + b] = <<w[k], b>>
  <2>1. Len(w) >= 1
    BY <1>1
  <2> QED BY <1>1, <1>2, <1>3, <2>1, EvenBytes
<1>5. s * 1 = s /\ \A b \in 1 .. s : s * (1 - 1) + b = b
  BY <1>2
<1>6. Len(Bytes(w)) = s /\ \A b \in 1 .. s : Bytes(w)[b] = <<c, b>>
  <2>1. 1 \in 1 .. Len(w)
    BY <1>1
  <2>2. \A b \in 1 .. s : Bytes(w)[s * (1 - 1) + b] = <<w[1], b>>
    BY <1>4, <2>1
  <2> QED BY <1>1, <1>4, <1>5, <2>2
<1>7. 1 \in 1 .. s
  BY <1>2
<1>8. Bytes(w)[1] = <<c, 1>>
  BY <1>6, <1>7
<1>9. Bytes(w)[1][1] = c /\ Bytes(w) \in Seq(Units)
  BY <1>4, <1>8
<1> QED BY <1>6, <1>9 DEF w, s

\* The pieces of a Chinese word are its characters.
LEMMA ChinesePieces ==
  ASSUME NEW w \in Seq(ToSet(Characters)), ~HasOneByte(w), NEW c \in ToSet(w)
  PROVE  Bytes(<<c>>) \in Pieces(w)
<1>1. PICK k \in 1 .. Len(w) : c = w[k]
  BY DEF ToSet
<1>2. Len(w) \in Nat /\ Len(w) >= 1 /\ c \in ToSet(Characters) /\ k \in Nat /\ k >= 1 /\ k <= Len(w)
  BY <1>1
<1>3. \A i \in 1 .. Len(w) : Size(w[i]) = 3
  BY DEF HasOneByte, Size
<1>4. /\ Bytes(w) \in Seq(Units) /\ Len(Bytes(w)) = 3 * Len(w)
      /\ \A i \in 1 .. Len(w), b \in 1 .. 3 : Bytes(w)[3 * (i - 1) + b] = <<w[i], b>>
  BY <1>2, <1>3, EvenBytes
<1>5. /\ Bytes(<<c>>) \in Seq(Units) /\ Len(Bytes(<<c>>)) = 3
      /\ \A b \in 1 .. 3 : Bytes(<<c>>)[b] = <<c, b>>
  <2>1. Size(c) = 3
    BY <1>1, <1>3
  <2> QED BY <1>2, <2>1, CharBytes
<1> DEFINE u == Bytes(w)
           x == Bytes(<<c>>)
           p == SubSeq(u, 3 * k - 2, 3 * k)
<1> HIDE DEF u, x
<1>6. p \in Seq(Units) /\ Len(p) = 3 /\ \A b \in 1 .. 3 : p[b] = u[3 * (k - 1) + b]
  <2>1. /\ u \in Seq(Units) /\ Len(u) = 3 * Len(w)
        /\ 3 * k - 2 \in 1 .. Len(u) /\ 3 * k \in 1 .. Len(u) /\ 3 * k - 2 <= 3 * k
    BY <1>2, <1>4 DEF u
  <2>2. \A i \in 3 * k - 2 .. 3 * k : u[i] \in Units
    <3>1. \A i \in 3 * k - 2 .. 3 * k : i \in 1 .. Len(u)
      BY <1>2, <2>1
    <3> QED BY <2>1, <3>1
  <2>3. /\ p \in Seq(Units) /\ Len(p) = 3 * k - (3 * k - 2) + 1
        /\ \A i \in 1 .. 3 * k - (3 * k - 2) + 1 : p[i] = u[3 * k - 2 + i - 1]
    BY <2>1, <2>2, SubSeqProperties
  <2>4. 3 * k - (3 * k - 2) + 1 = 3 /\ \A b \in 1 .. 3 : 3 * k - 2 + b - 1 = 3 * (k - 1) + b
    BY <1>2
  <2> HIDE DEF p
  <2> QED BY <2>3, <2>4
<1>7. \A b \in 1 .. 3 : p[b] = x[b]
  <2>1. ASSUME NEW b \in 1 .. 3 PROVE p[b] = <<c, b>>
    BY <1>1, <1>4, <1>6 DEF u
  <2> QED BY <1>5, <2>1 DEF x
<1>8. p = x
  <2>1. x \in Seq(Units) /\ Len(x) = 3
    BY <1>5 DEF x
  <2> HIDE DEF p
  <2> QED BY <1>6, <1>7, <2>1, SeqEqual
<1>9. k \in 1 .. Len(u) \div 3
  <2>1. Len(u) = 3 * Len(w)
    BY <1>4 DEF u
  <2>2. (3 * Len(w)) \div 3 = Len(w)
    BY <1>2
  <2> QED BY <1>2, <2>1, <2>2
<1> QED BY <1>8, <1>9 DEF u, x, p, Pieces

\* The greatest int; ten digits determine a number up to it.
IntMax == 2147483647

LEMMA TenDigits ==
  ASSUME NEW n \in Nat, NEW m \in Nat, n <= IntMax, m <= IntMax,
         \A j \in 1 .. 10 : (n \div Powers[j]) % 10 = (m \div Powers[j]) % 10
  PROVE  n = m
<1> DEFINE Same(j) == n \div Powers[j] = m \div Powers[j]
<1>1. \A j \in 1 .. 10 : Powers[j] \in Nat \ {0}
  BY SMT DEF Powers
<1>2. ASSUME NEW x \in Nat, NEW j \in 1 .. 9 PROVE x \div Powers[j] = (x \div Powers[j + 1]) \div 10
  <2>1. x \div 1000000000 = (x \div 100000000) \div 10
    BY SMT
  <2>2. x \div 100000000 = (x \div 10000000) \div 10
    BY SMT
  <2>3. x \div 10000000 = (x \div 1000000) \div 10
    BY SMT
  <2>4. x \div 1000000 = (x \div 100000) \div 10
    BY SMT
  <2>5. x \div 100000 = (x \div 10000) \div 10
    BY SMT
  <2>6. x \div 10000 = (x \div 1000) \div 10
    BY SMT
  <2>7. x \div 1000 = (x \div 100) \div 10
    BY SMT
  <2>8. x \div 100 = (x \div 10) \div 10
    BY SMT
  <2>9. x \div 10 = (x \div 1) \div 10
    BY SMT
  <2>10. CASE j \in {1, 2, 3}
    BY <2>1, <2>2, <2>3, <2>10, SMT DEF Powers
  <2>11. CASE j \in {4, 5, 6}
    BY <2>4, <2>5, <2>6, <2>11, SMT DEF Powers
  <2>12. CASE j \in {7, 8, 9}
    BY <2>7, <2>8, <2>9, <2>12, SMT DEF Powers
  <2>13. j \in {1, 2, 3} \/ j \in {4, 5, 6} \/ j \in {7, 8, 9}
    BY SMT
  <2> QED BY <2>10, <2>11, <2>12, <2>13
<1>3. \A x \in Nat, y \in Nat : x \div 10 = y \div 10 /\ x % 10 = y % 10 => x = y
  OBVIOUS
<1>4. ASSUME NEW x \in Nat, NEW j \in 1 .. 10 PROVE x \div Powers[j] \in Nat
  <2> DEFINE p == Powers[j]
  <2>1. p \in Nat \ {0}
    BY <1>1
  <2> HIDE DEF p
  <2>2. x \div p \in Nat
    BY <2>1
  <2> QED BY <2>2 DEF p
<1>5. ASSUME NEW j \in 1 .. 9, Same(j) PROVE Same(j + 1)
  <2> DEFINE x == n \div Powers[j + 1]
             y == m \div Powers[j + 1]
  <2>1. j + 1 \in 1 .. 10
    OBVIOUS
  <2>2. x \in Nat /\ y \in Nat
    BY <1>4, <2>1
  <2>3. x % 10 = y % 10
    BY <2>1
  <2>4. x \div 10 = y \div 10
    BY <1>2, <1>5
  <2> HIDE DEF x, y
  <2>5. x = y
    BY <1>3, <2>2, <2>3, <2>4
  <2> QED BY <2>5 DEF x, y
<1>6. Same(1)
  <2>1. \A x \in Nat : x <= IntMax => x \div Powers[1] \in 0 .. 2
    BY SMT DEF IntMax, Powers
  <2>2. \A x \in 0 .. 2 : x % 10 = x
    OBVIOUS
  <2>3. (n \div Powers[1]) % 10 = (m \div Powers[1]) % 10
    OBVIOUS
  <2> QED BY <2>1, <2>2, <2>3
<1>7. Same(10)
  <2> HIDE DEF Same
  <2>1. Same(1 + 1) /\ 1 + 1 = 2
    BY <1>5, <1>6
  <2>2. Same(2 + 1) /\ 2 + 1 = 3
    BY <1>5, <2>1
  <2>3. Same(3 + 1) /\ 3 + 1 = 4
    BY <1>5, <2>2
  <2>4. Same(4 + 1) /\ 4 + 1 = 5
    BY <1>5, <2>3
  <2>5. Same(5 + 1) /\ 5 + 1 = 6
    BY <1>5, <2>4
  <2>6. Same(6 + 1) /\ 6 + 1 = 7
    BY <1>5, <2>5
  <2>7. Same(7 + 1) /\ 7 + 1 = 8
    BY <1>5, <2>6
  <2>8. Same(8 + 1) /\ 8 + 1 = 9
    BY <1>5, <2>7
  <2>9. Same(9 + 1) /\ 9 + 1 = 10
    BY <1>5, <2>8
  <2> QED BY <2>9
<1>8. Powers[10] = 1
  BY SMT DEF Powers
<1> QED BY <1>7, <1>8

\* Positions have different digits.
LEMMA ToStringInjective ==
  ASSUME NEW n \in Nat, NEW m \in Nat, n <= IntMax, m <= IntMax, to_string(n) = to_string(m)
  PROVE  n = m
<1> DEFINE First(x) == CHOOSE i \in 1 .. 10 : (i = 10 \/ Powers[i] <= x) /\ \A j \in 1 .. i - 1 : x < Powers[j]
           Numeral(x) == [i \in 1 .. 11 - First(x) |-> Digits[((x \div Powers[First(x) + i - 1]) % 10) + 1]]
<1>1. \A i \in 1 .. 10 : Powers[i] \in Nat \ {0}
  BY SMT DEF Powers
<1>2. ASSUME NEW x \in Nat
      PROVE  First(x) \in 1 .. 10 /\ \A j \in 1 .. First(x) - 1 : x < Powers[j]
  <2> DEFINE Fits(i) == i = 10 \/ Powers[i] <= x
             T == {i \in 1 .. 10 : Fits(i)}
  <2>1. T \in SUBSET Nat /\ 10 \in T
    OBVIOUS
  <2>2. PICK i \in T : \A j \in T : i <= j
    <3> HIDE DEF T
    <3> QED BY <2>1, Least
  <2>3. i \in 1 .. 10 /\ Fits(i)
    OBVIOUS
  <2>4. ASSUME NEW j \in 1 .. i - 1 PROVE x < Powers[j]
    <3>1. j \in 1 .. 10 /\ j # 10 /\ ~(i <= j)
      BY <2>3
    <3>2. ~Fits(j)
      BY <2>2, <3>1
    <3> QED BY <1>1, <3>1, <3>2
  <2> QED BY <2>3, <2>4
<1>3. \A x \in Nat : to_string(x) = Bytes(Numeral(x))
  BY DEF to_string
<1> HIDE DEF First
<1>4. ASSUME NEW x \in Nat, NEW j \in 1 .. 10
      PROVE  ((x \div Powers[j]) % 10) + 1 \in 1 .. 10
  <2> DEFINE p == Powers[j]
             q == x \div p
  <2>1. p \in Nat \ {0}
    BY <1>1
  <2> HIDE DEF p
  <2>2. q \in Nat
    BY <2>1
  <2> HIDE DEF q
  <2>3. (q % 10) + 1 \in 1 .. 10
    BY <2>2
  <2> QED BY <2>3 DEF q, p
<1>5. ToSet(Digits) \subseteq ToSet(Characters) /\ \A i \in 1 .. 10 : Digits[i] \in ToSet(Digits)
  BY DictionaryAssumption DEF ToSet
<1>6. ASSUME NEW x \in Nat
      PROVE  /\ Len(to_string(x)) = 11 - First(x)
             /\ \A j \in First(x) .. 10 : to_string(x)[j - First(x) + 1] = <<Digits[((x \div Powers[j]) % 10) + 1], 1>>
  <2> DEFINE f == First(x)
             w == Numeral(x)
  <2>1. f \in 1 .. 10
    BY <1>2
  <2>2. w = [i \in 1 .. 11 - f |-> Digits[((x \div Powers[f + i - 1]) % 10) + 1]]
    OBVIOUS
  <2> HIDE DEF f, w
  <2>3. ASSUME NEW i \in 1 .. 11 - f PROVE w[i] = Digits[((x \div Powers[f + i - 1]) % 10) + 1] /\ w[i] \in ToSet(Digits)
    <3>1. f + i - 1 \in 1 .. 10
      BY <2>1
    <3>2. w[i] = Digits[((x \div Powers[f + i - 1]) % 10) + 1]
      BY <2>2
    <3>3. ((x \div Powers[f + i - 1]) % 10) + 1 \in 1 .. 10
      BY <1>4, <3>1
    <3> QED BY <1>5, <3>2, <3>3
  <2>4. w \in Seq(ToSet(Characters)) /\ Len(w) = 11 - f /\ Len(w) >= 1
    <3>1. 11 - f \in Nat /\ 11 - f >= 1
      BY <2>1
    <3>2. w \in [1 .. 11 - f -> ToSet(Characters)] /\ DOMAIN w = 1 .. 11 - f
      <4>1. DOMAIN w = 1 .. 11 - f /\ w = [i \in 1 .. 11 - f |-> w[i]]
        BY <2>2
      <4> QED BY <1>5, <2>3, <4>1
    <3> QED BY <3>1, <3>2, SeqDef, LenProperties
  <2>5. \A k \in 1 .. Len(w) : Size(w[k]) = 1
    BY <2>3, <2>4 DEF Size, IsOneByte
  <2>6. Len(Bytes(w)) = 1 * Len(w) /\ \A k \in 1 .. Len(w), b \in 1 .. 1 : Bytes(w)[1 * (k - 1) + b] = <<w[k], b>>
    BY <2>4, <2>5, EvenBytes
  <2>7. Len(Bytes(w)) = 11 - f /\ \A k \in 1 .. 11 - f : Bytes(w)[k] = <<w[k], 1>>
    <3>1. ASSUME NEW k \in 1 .. 11 - f PROVE Bytes(w)[k] = <<w[k], 1>>
      <4>1. 1 \in 1 .. 1 /\ 1 * (k - 1) + 1 = k
        BY <2>1
      <4>2. Bytes(w)[1 * (k - 1) + 1] = <<w[k], 1>>
        BY <2>4, <2>6, <4>1
      <4> QED BY <4>1, <4>2
    <3>2. 1 * Len(w) = Len(w)
      BY <2>4
    <3> QED BY <2>4, <2>6, <3>1, <3>2
  <2>8. ASSUME NEW j \in f .. 10
        PROVE  Bytes(w)[j - f + 1] = <<Digits[((x \div Powers[j]) % 10) + 1], 1>>
    <3>1. j - f + 1 \in 1 .. 11 - f /\ f + (j - f + 1) - 1 = j
      BY <2>1
    <3> QED BY <2>3, <2>7, <3>1
  <2> QED BY <1>3, <2>7, <2>8 DEF f, w
<1>7. First(n) = First(m)
  <2>1. 11 - First(n) = 11 - First(m) /\ First(n) \in 1 .. 10 /\ First(m) \in 1 .. 10
    BY <1>2, <1>6
  <2> QED BY <2>1
<1>8. ASSUME NEW j \in 1 .. 10 PROVE (n \div Powers[j]) % 10 = (m \div Powers[j]) % 10
  <2> DEFINE a == (n \div Powers[j]) % 10
             b == (m \div Powers[j]) % 10
  <2>1. CASE j \in First(n) .. 10
    <3>1. a + 1 \in 1 .. 10 /\ b + 1 \in 1 .. 10
      BY <1>4
    <3>2. <<Digits[a + 1], 1>> = <<Digits[b + 1], 1>>
      <4>1. to_string(n)[j - First(n) + 1] = <<Digits[a + 1], 1>>
        BY <1>6, <2>1
      <4>2. to_string(m)[j - First(m) + 1] = <<Digits[b + 1], 1>>
        BY <1>6, <1>7, <2>1
      <4> QED BY <1>7, <4>1, <4>2
    <3> HIDE DEF a, b
    <3>3. Digits[a + 1] = Digits[b + 1]
      BY <3>2
    <3>4. a + 1 = b + 1
      BY <3>1, <3>3, DictionaryAssumption DEF IsInjective
    <3>5. a \in Int /\ b \in Int
      <4>1. \A q : q \in Nat => q % 10 \in Int
        OBVIOUS
      <4>2. Powers[j] \in Nat \ {0}
        BY <1>1
      <4>3. n \div Powers[j] \in Nat /\ m \div Powers[j] \in Nat
        BY <4>2
      <4> QED BY <4>1, <4>3 DEF a, b
    <3> QED BY <3>4, <3>5 DEF a, b
  <2>2. CASE j \notin First(n) .. 10
    <3>1. j \in 1 .. First(n) - 1 /\ First(n) \in 1 .. 10
      BY <1>2, <2>2
    <3>2. n < Powers[j] /\ m < Powers[j]
      BY <1>2, <1>7, <3>1
    <3> DEFINE p == Powers[j]
    <3>3. p \in Nat \ {0}
      BY <1>1
    <3> HIDE DEF p
    <3>4. \A x \in Nat : x < p => x \div p = 0
      BY <3>3
    <3>5. n \div p = 0 /\ m \div p = 0
      BY <3>2, <3>4 DEF p
    <3> QED BY <3>5 DEF p
  <2> QED BY <2>1, <2>2
<1> QED BY <1>8, TenDigits

-----------------------------------------------------------------------------
(***************************************************************************)
(* Completeness: as long as nothing has failed, every word of the articles is *)
(* in its table and every character of it has its row.                        *)
(***************************************************************************)

\* The occurrences of a word in the first n texts, and the words kept of them.
Places(ts, n, w) == UNION {{<<k, i>> : i \in {j \in DOMAIN ts[k] : ts[k][j] = w}} : k \in 1 .. n}
KeptOf(l, ts, n) == {w \in UNION {ToSet(ts[k]) : k \in 1 .. n} : Kept(l, w)}

\* A map has the words of the first n texts with their numbers.
Tallied(l, ts, n, c) ==
  /\ DOMAIN c = KeptOf(l, ts, n)
  /\ \A w \in DOMAIN c : c[w] = Cardinality(Places(ts, n, w))

\* The articles f are the last ones of ts.
Remaining(f, ts) ==
  Len(f) <= Len(ts) /\ \A i \in 1 .. Len(f) : f[i] = ts[Len(ts) - Len(f) + i]

\* A table with all rows it should have.
RowOf(ts, w) == [word |-> w, freq |-> Cardinality(Places(ts, Len(ts), w))]
Finished(l, ts, d) ==
  /\ \A w \in KeptOf(l, ts, Len(ts)) : \E n \in DOMAIN d : d[n].word = w
  /\ \A n \in DOMAIN d : d[n].word \in KeptOf(l, ts, Len(ts)) /\ d[n] = RowOf(ts, d[n].word)

\* The words o of the loop are those of the articles, and the first n have rows.
Listed(l, ts, o, d, n) ==
  /\ ToSet(o) = KeptOf(l, ts, Len(ts))
  /\ Len(d) = n /\ \A i \in 1 .. n : d[i] = RowOf(ts, o[i])

\* The characters of a row's word lead to it; the Chinese ones, or they will.
Indexed(d, rows, n) == \A c \in ToSet(d[n].word) : <<Bytes(<<c>>), to_string(n)>> \in rows
Pending(d, mem, rows, n) ==
  ~HasOneByte(d[n].word) =>
    \A c \in ToSet(d[n].word) : <<Bytes(<<c>>), n>> \in mem \/ <<Bytes(<<c>>), to_string(n)>> \in rows

\* Only a word with a letter or a digit spoils a piece.
Unspoiled(d, rows) ==
  (\A n \in DOMAIN d : ~HasOneByte(d[n].word)) => \A row \in rows : Len(row[1]) = 3

WordsComplete ==
  /\ dpc = "read" =>
       /\ Remaining(files[lang], texts[lang])
       /\ Tallied(lang, texts[lang], Len(texts[lang]) - Len(files[lang]), count)
  /\ dpc = "insert" =>
       /\ Tallied(lang, texts[lang], Len(texts[lang]), count)
       /\ Listed(lang, texts[lang], order, dict[lang], pos)
  /\ dpc = "index" => Listed(lang, texts[lang], order, dict[lang], Len(order))
  /\ lang = "Cn" => Finished("En", texts["En"], dict["En"])
  /\ dpc = "done" => lang = "Cn" /\ Finished("Cn", texts["Cn"], dict["Cn"])

RowsComplete ==
  /\ lang = "En" /\ dpc = "index" => \A n \in 1 .. pos : Indexed(dict["En"], index["En"], n)
  /\ lang = "Cn" => \A n \in DOMAIN dict["En"] : Indexed(dict["En"], index["En"], n)
  /\ \A n \in DOMAIN dict["Cn"] : Pending(dict["Cn"], memory, index["Cn"], n)
  /\ dpc = "done" => memory = {}
  /\ Unspoiled(dict["Cn"], index["Cn"])

BestInv ==
  /\ DOMAIN texts = Languages /\ \A l \in Languages : texts[l] \in Seq(Texts[l])
  /\ lang = "En" => files["Cn"] = texts["Cn"]
  /\ failed = <<>> => WordsComplete /\ RowsComplete

\* Nothing has failed before if nothing has now.
LEMMA NoFailure ==
  ASSUME DicTypes, NEW kind, NEW n \in Nat, Fail(kind, n), failed' = <<>>
  PROVE  failed = <<>> /\ n = 0
<1> DEFINE more == [i \in 1 .. n |-> kind]
<1>1. failed \in Seq({"read", "word", "row"}) /\ failed' = failed \o more
  BY DEF DicTypes, Fail
<1>2. more \in Seq({kind}) /\ Len(more) = n
  <2>1. more \in [1 .. n -> {kind}] /\ DOMAIN more = 1 .. n
    OBVIOUS
  <2> HIDE DEF more
  <2> QED BY <2>1, SeqDef, LenProperties
<1> HIDE DEF more
<1> DEFINE S == {"read", "word", "row", kind}
<1>3. failed \in Seq(S) /\ more \in Seq(S)
  BY <1>1, <1>2
<1> HIDE DEF S
<1>4. Len(failed \o more) = Len(failed) + Len(more)
  BY <1>3, ConcatProperties
<1>5. Len(failed) + n = 0 /\ Len(failed) \in Nat
  <2>1. Len(<<>>) = 0
    OBVIOUS
  <2> QED BY <1>1, <1>2, <1>4, <2>1
<1>6. Len(failed) = 0 /\ n = 0
  BY <1>5
<1> QED BY <1>1, <1>6, EmptySeq

\* All rows were inserted.
LEMMA AllRowsInserted ==
  ASSUME DicTypes, NEW rows, IsFiniteSet(rows), InsertRows(rows), failed' = <<>>
  PROVE  failed = <<>> /\ index' = [index EXCEPT ![lang] = @ \union rows]
<1>1. PICK done \in SUBSET rows :
        index' = [index EXCEPT ![lang] = @ \union done] /\ Fail("row", Cardinality(rows \ done))
  BY DEF InsertRows
<1>2. IsFiniteSet(rows \ done) /\ Cardinality(rows \ done) \in Nat
  <2>1. IsFiniteSet(rows \ done)
    BY FS_Difference
  <2> QED BY <2>1, FS_CardinalityType
<1>3. failed = <<>> /\ Cardinality(rows \ done) = 0
  BY <1>1, <1>2, NoFailure
<1>4. rows \ done = {}
  BY <1>2, <1>3, FS_EmptySet
<1>5. done = rows
  BY <1>4
<1> QED BY <1>1, <1>3, <1>5

\* One text more has the occurrences in it.
LEMMA PlacesFacts ==
  ASSUME NEW ts \in Seq(Seq(AllWords)), NEW w, NEW n \in 0 .. Len(ts)
  PROVE  /\ Cardinality(Places(ts, n, w)) \in Nat
         /\ (\A k \in 1 .. n : w \notin ToSet(ts[k])) => Cardinality(Places(ts, n, w)) = 0
         /\ n < Len(ts) =>
              Cardinality(Places(ts, n + 1, w))
                = Cardinality(Places(ts, n, w)) + Cardinality({i \in DOMAIN ts[n + 1] : ts[n + 1][i] = w})
<1> DEFINE In(k) == {j \in DOMAIN ts[k] : ts[k][j] = w}
           At(k) == {<<k, i>> : i \in In(k)}
<1>0. Len(ts) \in Nat /\ n \in Nat /\ n <= Len(ts) /\ \A k \in 1 .. Len(ts) : ts[k] \in Seq(AllWords)
  OBVIOUS
<1>1. ASSUME NEW k \in 1 .. Len(ts)
      PROVE  /\ IsFiniteSet(In(k)) /\ Cardinality(In(k)) \in Nat
             /\ IsFiniteSet(At(k)) /\ Cardinality(At(k)) = Cardinality(In(k))
  <2>1. DOMAIN ts[k] = 1 .. Len(ts[k]) /\ Len(ts[k]) \in Nat
    BY <1>0
  <2>2. IsFiniteSet(DOMAIN ts[k])
    BY <2>1, FS_Interval
  <2>3. IsFiniteSet(In(k)) /\ Cardinality(In(k)) \in Nat
    <3>1. In(k) \in SUBSET (DOMAIN ts[k])
      OBVIOUS
    <3>2. IsFiniteSet(In(k))
      BY <2>2, <3>1, FS_Subset
    <3> QED BY <3>2, FS_CardinalityType
  <2> DEFINE f == [i \in In(k) |-> <<k, i>>]
  <2>4. f \in Surjection(In(k), At(k))
    BY DEF Surjection
  <2>5. f \in Injection(In(k), At(k))
    <3>1. f \in [In(k) -> At(k)] /\ \A i, j \in In(k) : f[i] = f[j] => i = j
      OBVIOUS
    <3> QED BY <3>1 DEF Injection, IsInjective
  <2> HIDE DEF In, At, f
  <2>6. IsFiniteSet(At(k)) /\ Cardinality(At(k)) = Cardinality(In(k))
    BY <2>3, <2>4, <2>5, FS_Surjection
  <2> QED BY <2>3, <2>6
<1>2. ASSUME NEW m \in 0 .. Len(ts)
      PROVE  Places(ts, m, w) = UNION {At(k) : k \in 1 .. m} /\ IsFiniteSet(Places(ts, m, w))
  <2> DEFINE Ats == {At(k) : k \in 1 .. m}
  <2>1. Places(ts, m, w) = UNION Ats
    BY DEF Places
  <2> HIDE DEF At
  <2>2. IsFiniteSet(1 .. m)
    BY <1>0, FS_Interval
  <2>3. IsFiniteSet(Ats)
    <3> DEFINE f == [k \in 1 .. m |-> At(k)]
    <3>1. f \in Surjection(1 .. m, Ats)
      BY DEF Surjection
    <3> HIDE DEF f, Ats
    <3> QED BY <2>2, <3>1, FS_Surjection
  <2>4. \A T \in Ats : IsFiniteSet(T)
    <3>1. \A k \in 1 .. m : k \in 1 .. Len(ts)
      BY <1>0
    <3> QED BY <1>1, <3>1
  <2>5. IsFiniteSet(UNION Ats)
    <3> HIDE DEF Ats
    <3> QED BY <2>3, <2>4, FS_UNION
  <2> QED BY <2>1, <2>5
<1>3. Cardinality(Places(ts, n, w)) \in Nat
  BY <1>2, FS_CardinalityType
<1>4. ASSUME \A k \in 1 .. n : w \notin ToSet(ts[k]) PROVE Cardinality(Places(ts, n, w)) = 0
  <2>1. \A k \in 1 .. n : In(k) = {}
    BY <1>4 DEF ToSet
  <2>2. \A k \in 1 .. n : At(k) = {}
    BY <2>1
  <2> HIDE DEF At, In
  <2>3. Places(ts, n, w) = {}
    BY <1>2, <2>2
  <2> QED BY <2>3, FS_EmptySet
<1>5. ASSUME n < Len(ts)
      PROVE  Cardinality(Places(ts, n + 1, w)) = Cardinality(Places(ts, n, w)) + Cardinality(In(n + 1))
  <2>1. n + 1 \in 0 .. Len(ts) /\ n + 1 \in 1 .. Len(ts)
    BY <1>0, <1>5
  <2>2. 1 .. n + 1 = (1 .. n) \union {n + 1} /\ n + 1 \notin 1 .. n
    BY <1>0
  <2>3. Places(ts, n + 1, w) = Places(ts, n, w) \union At(n + 1)
    <3> HIDE DEF At
    <3>1. Places(ts, n + 1, w) = UNION {At(k) : k \in 1 .. n + 1} /\ Places(ts, n, w) = UNION {At(k) : k \in 1 .. n}
      BY <1>2, <2>1
    <3> QED BY <2>2, <3>1
  <2>4. Places(ts, n, w) \intersect At(n + 1) = {}
    <3>1. \A x \in At(n + 1) : x[1] = n + 1
      OBVIOUS
    <3>2. \A k \in 1 .. n : \A x \in At(k) : x[1] = k
      OBVIOUS
    <3> HIDE DEF At
    <3> QED BY <1>2, <2>2, <3>1, <3>2
  <2>5. IsFiniteSet(Places(ts, n, w)) /\ IsFiniteSet(At(n + 1)) /\ Cardinality(At(n + 1)) = Cardinality(In(n + 1))
    BY <1>1, <1>2, <2>1
  <2>6. Cardinality(In(n + 1)) \in Nat
    BY <1>1, <2>1
  <2> HIDE DEF At, In
  <2>7. Cardinality(Places(ts, n, w) \union At(n + 1))
          = Cardinality(Places(ts, n, w)) + Cardinality(At(n + 1)) - Cardinality(Places(ts, n, w) \intersect At(n + 1))
    BY <2>5, FS_Union
  <2>8. Cardinality(Places(ts, n, w) \intersect At(n + 1)) = 0
    BY <2>4, FS_EmptySet
  <2>9. \A a, b \in Nat : a + b - 0 = a + b
    OBVIOUS
  <2> QED BY <1>3, <2>3, <2>5, <2>6, <2>7, <2>8, <2>9, Zenon
<1> QED BY <1>3, <1>4, <1>5

\* One article more is counted.
LEMMA TallyGrows ==
  ASSUME NEW l, NEW ts \in Seq(Seq(AllWords)), NEW n \in Nat, n < Len(ts), NEW c, c \in [DOMAIN c -> Nat],
         Tallied(l, ts, n, c)
  PROVE  Tallied(l, ts, n + 1, Added(c, Counted(l, ts[n + 1])))
<1> DEFINE t == ts[n + 1]
           g == Counted(l, t)
           Here(w) == Cardinality({i \in DOMAIN t : t[i] = w})
           d == Added(c, g)
<1>0. n \in 0 .. Len(ts) /\ n + 1 \in 1 .. Len(ts) /\ t \in Seq(AllWords)
  <2> DEFINE S == Seq(AllWords)
  <2>1. ts \in Seq(S) /\ n < Len(ts)
    OBVIOUS
  <2> HIDE DEF S
  <2>2. n \in 0 .. Len(ts) /\ n + 1 \in 1 .. Len(ts)
    BY <2>1
  <2>3. t \in S
    BY <2>1, <2>2
  <2> QED BY <2>2, <2>3 DEF S
<1>1. g = [w \in {v \in ToSet(t) : Kept(l, v)} |-> Here(w)]
  BY DEF Counted
<1>2. d = [w \in DOMAIN c \union DOMAIN g |->
             (IF w \in DOMAIN c THEN c[w] ELSE 0) + (IF w \in DOMAIN g THEN g[w] ELSE 0)]
  BY DEF Added
<1>3. DOMAIN c = KeptOf(l, ts, n) /\ \A w \in DOMAIN c : c[w] = Cardinality(Places(ts, n, w))
  BY DEF Tallied
<1>4. ASSUME NEW w
      PROVE  /\ Cardinality(Places(ts, n, w)) \in Nat
             /\ (\A k \in 1 .. n : w \notin ToSet(ts[k])) => Cardinality(Places(ts, n, w)) = 0
             /\ Cardinality(Places(ts, n + 1, w)) = Cardinality(Places(ts, n, w)) + Here(w)
  BY <1>0, PlacesFacts
<1>5. ASSUME NEW w PROVE Here(w) \in Nat /\ (w \notin ToSet(t) => Here(w) = 0)
  <2>1. IsFiniteSet(DOMAIN t)
    <3> HIDE DEF t
    <3>1. DOMAIN t = 1 .. Len(t) /\ Len(t) \in Nat
      BY <1>0
    <3>2. IsFiniteSet(1 .. Len(t))
      <4>1. 1 \in Int /\ Len(t) \in Int
        BY <3>1
      <4> QED BY <4>1, FS_Interval, Zenon
    <3> QED BY <3>1, <3>2
  <2> DEFINE I == {i \in DOMAIN t : t[i] = w}
  <2>2. IsFiniteSet(I) /\ Cardinality(I) \in Nat
    <3>1. I \in SUBSET (DOMAIN t)
      OBVIOUS
    <3>2. IsFiniteSet(I)
      BY <2>1, <3>1, FS_Subset
    <3> QED BY <3>2, FS_CardinalityType
  <2>3. w \notin ToSet(t) => I = {}
    BY DEF ToSet
  <2> QED BY <2>2, <2>3, FS_EmptySet
<1> HIDE DEF t, g, Here, d
<1>6. DOMAIN d = DOMAIN c \union DOMAIN g /\ DOMAIN g = {v \in ToSet(t) : Kept(l, v)}
  BY <1>1, <1>2
<1>7. DOMAIN d = KeptOf(l, ts, n + 1)
  <2>1. 1 .. n + 1 = (1 .. n) \union {n + 1}
    OBVIOUS
  <2>2. ASSUME NEW w
        PROVE  (\E k \in 1 .. n + 1 : w \in ToSet(ts[k])) <=> (\E k \in 1 .. n : w \in ToSet(ts[k])) \/ w \in ToSet(t)
    BY <2>1, Zenon DEF t
  <2>3. ASSUME NEW w, NEW m PROVE w \in KeptOf(l, ts, m) <=> Kept(l, w) /\ \E k \in 1 .. m : w \in ToSet(ts[k])
    BY Zenon DEF KeptOf
  <2>4. \A w : w \in DOMAIN d <=> w \in KeptOf(l, ts, n + 1)
    BY <1>3, <1>6, <2>2, <2>3, Zenon
  <2> QED BY <2>4, Zenon
<1>8. ASSUME NEW w \in DOMAIN d PROVE d[w] = Cardinality(Places(ts, n + 1, w))
  <2> DEFINE old == IF w \in DOMAIN c THEN c[w] ELSE 0
             new == IF w \in DOMAIN g THEN g[w] ELSE 0
  <2>1. d[w] = old + new
    BY <1>2, <1>6
  <2>2. Kept(l, w)
    BY <1>7 DEF KeptOf
  <2>3. old = Cardinality(Places(ts, n, w))
    <3>1. CASE w \in DOMAIN c
      BY <1>3, <3>1
    <3>2. CASE w \notin DOMAIN c
      <4>1. \A k \in 1 .. n : w \notin ToSet(ts[k])
        BY <1>3, <2>2, <3>2 DEF KeptOf
      <4> QED BY <1>4, <3>2, <4>1
    <3> QED BY <3>1, <3>2
  <2>4. new = Here(w)
    <3>1. CASE w \in DOMAIN g
      BY <1>1, <1>6, <3>1
    <3>2. CASE w \notin DOMAIN g
      BY <1>5, <1>6, <2>2, <3>2
    <3> QED BY <3>1, <3>2
  <2> HIDE DEF old, new
  <2> QED BY <1>4, <2>1, <2>3, <2>4, Zenon
<1> QED BY <1>7, <1>8 DEF Tallied, d, g, t

LEMMA BestReadFile == DicInv /\ BestInv /\ ReadFile => BestInv'
<1> SUFFICES ASSUME DicInv, BestInv, ReadFile PROVE BestInv'
  OBVIOUS
<1>1. /\ dpc = "read" /\ files[lang] # <<>> /\ files' = [files EXCEPT ![lang] = Tail(@)]
      /\ count' = Added(count, Counted(lang, Head(files[lang])))
      /\ UNCHANGED <<dpc, lang, texts, order, pos, memory, sql, dict, index, failed>>
  BY DEF ReadFile
<1>2. /\ lang \in Languages /\ DOMAIN files = Languages /\ \A l \in Languages : files[l] \in Seq(Texts[l])
      /\ count \in [DOMAIN count -> Nat]
  BY DEF DicInv, DicTypes
<1>3. /\ DOMAIN texts = Languages /\ \A l \in Languages : texts[l] \in Seq(Texts[l])
      /\ lang = "En" => files["Cn"] = texts["Cn"]
      /\ failed = <<>> => WordsComplete /\ RowsComplete
  BY DEF BestInv
<1> DEFINE f == files[lang]
           ts == texts[lang]
           n == Len(ts) - Len(f)
<1>4. /\ f \in Seq(Texts[lang]) /\ ts \in Seq(Texts[lang]) /\ f # <<>>
      /\ Len(f) \in Nat /\ Len(f) >= 1 /\ Len(ts) \in Nat
      /\ Head(f) = f[1] /\ Len(Tail(f)) = Len(f) - 1 /\ \A i \in 1 .. Len(f) - 1 : Tail(f)[i] = f[i + 1]
  <2>1. f \in Seq(Texts[lang]) /\ ts \in Seq(Texts[lang]) /\ f # <<>>
    BY <1>1, <1>2, <1>3
  <2> HIDE DEF f, ts
  <2> QED BY <2>1
<1>5. files'[lang] = Tail(f) /\ \A l \in Languages : l # lang => files'[l] = files[l]
  BY <1>1, <1>2
<1>6. ts \in Seq(Seq(AllWords))
  <2>1. Texts[lang] \subseteq Seq(AllWords)
    BY <1>2, AllWordsFacts
  <2> DEFINE S == Texts[lang]
             R == Seq(AllWords)
  <2> HIDE DEF S, R, ts
  <2>2. S \subseteq R /\ ts \in Seq(S)
    BY <1>4, <2>1 DEF S, R
  <2>3. ts \in Seq(R)
    BY <2>2
  <2> QED BY <2>3 DEF R
<1>7. ASSUME failed' = <<>> PROVE WordsComplete'
  <2>1. /\ Remaining(f, ts) /\ Tallied(lang, ts, n, count) /\ failed = <<>>
        /\ lang = "Cn" => Finished("En", texts["En"], dict["En"])
    BY <1>1, <1>3, <1>7 DEF WordsComplete
  <2>2. Len(f) <= Len(ts) /\ \A i \in 1 .. Len(f) : f[i] = ts[n + i]
    BY <2>1 DEF Remaining
  <2>3. texts'[lang'] = ts /\ files'[lang'] = Tail(f) /\ lang' = lang
    BY <1>1, <1>5
  <2>4. count' = Added(count, Counted(lang, Head(f)))
    BY <1>1
  <2> HIDE DEF f, ts
  <2>5. n \in Nat /\ n < Len(ts) /\ Head(f) = ts[n + 1]
    <3>1. n \in Nat /\ n < Len(ts)
      BY <1>4, <2>2
    <3>2. 1 \in 1 .. Len(f)
      BY <1>4
    <3> QED BY <1>4, <2>2, <3>1, <3>2
  <2>6. Len(ts) - Len(Tail(f)) = n + 1
    BY <1>4, <2>2
  <2> HIDE DEF n
  <2>7. Tallied(lang, ts, n + 1, count')
    <3>1. Tallied(lang, ts, n + 1, Added(count, Counted(lang, ts[n + 1])))
      BY <1>2, <1>6, <2>1, <2>5, TallyGrows
    <3> QED BY <2>4, <2>5, <3>1, Zenon
  <2>8. Remaining(Tail(f), ts)
    <3>1. Len(Tail(f)) <= Len(ts)
      BY <1>4, <2>2
    <3>2. ASSUME NEW i \in 1 .. Len(f) - 1 PROVE Tail(f)[i] = ts[n + 1 + i]
      <4>1. i + 1 \in 1 .. Len(f) /\ n + (i + 1) = n + 1 + i
        BY <1>4, <2>5
      <4>2. f[i + 1] = ts[n + (i + 1)]
        BY <2>2, <4>1
      <4> QED BY <1>4, <4>1, <4>2
    <3> QED BY <1>4, <2>6, <3>1, <3>2 DEF Remaining
  <2>9. /\ Remaining(files'[lang'], texts'[lang'])
        /\ Tallied(lang', texts'[lang'], Len(texts'[lang']) - Len(files'[lang']), count')
    BY <2>3, <2>6, <2>7, <2>8
  <2> QED BY <1>1, <2>1, <2>9 DEF WordsComplete
<1>8. failed' = <<>> => RowsComplete'
  BY <1>1, <1>3 DEF RowsComplete
<1>9. lang' = "En" => files'["Cn"] = texts'["Cn"]
  BY <1>1, <1>3, <1>5 DEF Languages
<1> QED BY <1>1, <1>3, <1>7, <1>8, <1>9 DEF BestInv

\* The loop is over the words that were counted.
LEMMA IterationWords ==
  ASSUME NEW l, NEW words, words \subseteq AllWords, NEW s \in Iterations(l, words)
  PROVE  ToSet(s) = words
<1>1. IsFiniteSet(words)
  BY AllWordsFacts, FS_Subset
<1>2. s \in [1 .. Cardinality(words) -> words] /\ \A i, j \in 1 .. Cardinality(words) : s[i] = s[j] => i = j
  BY DEF Iterations, SetToSeqs, IsInjective
<1>3. Cardinality(words) \in Nat
  BY <1>1, FS_CardinalityType
<1>4. IsFiniteSet(1 .. Cardinality(words)) /\ Cardinality(1 .. Cardinality(words)) = Cardinality(words)
  <2>1. Cardinality(1 .. Cardinality(words)) = (IF 1 > Cardinality(words) THEN 0 ELSE Cardinality(words) - 1 + 1)
    BY <1>3, FS_Interval
  <2>2. \A n \in Nat : (IF 1 > n THEN 0 ELSE n - 1 + 1) = n
    OBVIOUS
  <2> QED BY <1>3, <2>1, <2>2, FS_Interval
<1>5. s \in Injection(1 .. Cardinality(words), words)
  BY <1>2 DEF Injection, IsInjective
<1>6. s \in Surjection(1 .. Cardinality(words), words)
  BY <1>1, <1>4, <1>5, FS_Injection
<1>7. DOMAIN s = 1 .. Cardinality(words)
  BY <1>2
<1> QED BY <1>6, <1>7 DEF Surjection, ToSet

LEMMA BestAllRead == DicInv /\ BestInv /\ AllRead => BestInv'
<1> SUFFICES ASSUME DicInv, BestInv, AllRead PROVE BestInv'
  OBVIOUS
<1>1. /\ dpc = "read" /\ files[lang] = <<>> /\ order' \in Iterations(lang, DOMAIN count) /\ pos' = 0 /\ dpc' = "insert"
      /\ UNCHANGED <<lang, files, texts, count, memory, sql, dict, index, failed>>
  BY DEF AllRead
<1>2. lang \in Languages /\ DOMAIN count \subseteq AllWords /\ dict[lang] = <<>>
  BY <1>1 DEF DicInv, DicTypes, DicSizes
<1>3. /\ DOMAIN texts = Languages /\ \A l \in Languages : texts[l] \in Seq(Texts[l])
      /\ lang = "En" => files["Cn"] = texts["Cn"]
      /\ failed = <<>> => WordsComplete /\ RowsComplete
  BY DEF BestInv
<1>4. ToSet(order') = DOMAIN count
  BY <1>1, <1>2, IterationWords
<1>5. ASSUME failed' = <<>> PROVE WordsComplete'
  <2> DEFINE ts == texts[lang]
  <2>1. /\ Tallied(lang, ts, Len(ts) - Len(files[lang]), count)
        /\ lang = "Cn" => Finished("En", texts["En"], dict["En"])
    BY <1>1, <1>3, <1>5 DEF WordsComplete
  <2>2. Len(ts) - Len(files[lang]) = Len(ts)
    <3>1. ts \in Seq(Texts[lang])
      BY <1>2, <1>3
    <3> HIDE DEF ts
    <3>2. Len(ts) \in Nat /\ Len(<<>>) = 0
      BY <3>1
    <3> QED BY <1>1, <3>2
  <2> HIDE DEF ts
  <2>3. Tallied(lang, ts, Len(ts), count)
    BY <2>1, <2>2
  <2>4. Listed(lang, ts, order', dict[lang], 0)
    <3>1. ToSet(order') = KeptOf(lang, ts, Len(ts))
      BY <1>4, <2>3 DEF Tallied
    <3> QED BY <1>2, <3>1 DEF Listed
  <2> QED BY <1>1, <2>1, <2>3, <2>4 DEF WordsComplete, ts
<1>6. failed' = <<>> => RowsComplete'
  BY <1>1, <1>3 DEF RowsComplete
<1> QED BY <1>1, <1>3, <1>5, <1>6 DEF BestInv

LEMMA BestCannotOpen == DicInv /\ BestInv /\ CannotOpen => BestInv'
<1> SUFFICES ASSUME DicInv, BestInv, CannotOpen PROVE BestInv'
  OBVIOUS
<1>1. /\ Fail("read", 1) /\ files' = [files EXCEPT ![lang] = <<>>]
      /\ UNCHANGED <<lang, texts>>
  BY DEF CannotOpen
<1>2. failed' # <<>>
  BY <1>1, NoFailure DEF DicInv
<1>3. DOMAIN files = Languages /\ lang \in Languages
  BY DEF DicInv, DicTypes
<1>4. lang' = "En" => files'["Cn"] = texts'["Cn"]
  BY <1>1, <1>3 DEF BestInv, Languages
<1> QED BY <1>1, <1>2, <1>4 DEF BestInv

LEMMA BestAllInserted == DicInv /\ BestInv /\ AllInserted => BestInv'
<1> SUFFICES ASSUME DicInv, BestInv, AllInserted PROVE BestInv'
  OBVIOUS
<1>1. /\ dpc = "insert" /\ pos = Len(order) /\ pos' = 0 /\ dpc' = "index"
      /\ UNCHANGED <<lang, files, texts, count, order, memory, sql, dict, index, failed>>
  BY DEF AllInserted
<1>2. 1 .. 0 = {}
  OBVIOUS
<1>3. failed' = <<>> => WordsComplete' /\ RowsComplete'
  BY <1>1, <1>2 DEF BestInv, WordsComplete, RowsComplete
<1> QED BY <1>1, <1>3 DEF BestInv

\* A table with all words listed is finished.
LEMMA ListedFinished ==
  ASSUME NEW l, NEW ts, NEW S, NEW o \in Seq(S), NEW d, DOMAIN d = 1 .. Len(o), Listed(l, ts, o, d, Len(o))
  PROVE  Finished(l, ts, d)
<1>1. /\ ToSet(o) = KeptOf(l, ts, Len(ts)) /\ \A i \in 1 .. Len(o) : d[i] = RowOf(ts, o[i])
  BY DEF Listed
<1>2. DOMAIN o = 1 .. Len(o)
  OBVIOUS
<1>3. \A w : RowOf(ts, w).word = w
  BY DEF RowOf
<1>4. \A i \in 1 .. Len(o) : d[i].word = o[i] /\ o[i] \in ToSet(o)
  BY <1>1, <1>2, <1>3 DEF ToSet
<1>5. \A w \in ToSet(o) : \E i \in 1 .. Len(o) : w = o[i]
  BY <1>2 DEF ToSet
<1> QED BY <1>1, <1>4, <1>5 DEF Finished

LEMMA BestNextLanguage == DicInv /\ BestInv /\ NextLanguage => BestInv'
<1> SUFFICES ASSUME DicInv, BestInv, NextLanguage PROVE BestInv'
  OBVIOUS
<1>1. /\ dpc = "index" /\ dpc' = (IF lang = "En" THEN "read" ELSE "done")
      /\ (IF lang = "En" THEN pos = Len(order) ELSE memory = {})
      /\ lang' = "Cn" /\ count' = <<>> /\ order' = <<>> /\ pos' = 0
      /\ UNCHANGED <<files, texts, memory, sql, dict, index, failed>>
  BY DEF NextLanguage
<1>2. /\ lang \in Languages /\ order \in Seq(AllWords) /\ dict \in [Languages -> Seq(Rows)]
  BY DEF DicInv, DicTypes
<1>3. /\ DOMAIN texts = Languages /\ \A l \in Languages : texts[l] \in Seq(Texts[l])
      /\ lang = "En" => files["Cn"] = texts["Cn"]
  BY DEF BestInv
<1>4. ASSUME failed' = <<>> PROVE WordsComplete' /\ RowsComplete'
  <2>1. WordsComplete /\ RowsComplete
    BY <1>1, <1>4 DEF BestInv
  <2>2. Finished(lang, texts[lang], dict[lang])
    <3>1. Listed(lang, texts[lang], order, dict[lang], Len(order))
      BY <1>1, <2>1 DEF WordsComplete
    <3>2. DOMAIN dict[lang] = 1 .. Len(order)
      <4>1. Len(dict[lang]) = Len(order) /\ dict[lang] \in Seq(Rows)
        BY <1>2, <3>1 DEF Listed
      <4> QED BY <4>1
    <3> QED BY <1>2, <3>1, <3>2, ListedFinished
  <2>3. CASE lang = "En"
    <3>1. /\ dpc' = "read" /\ lang' = "Cn" /\ Finished("En", texts'["En"], dict'["En"])
      BY <1>1, <2>2, <2>3
    <3>2. /\ Remaining(files["Cn"], texts["Cn"])
          /\ Tallied("Cn", texts["Cn"], Len(texts["Cn"]) - Len(files["Cn"]), <<>>)
      <4> DEFINE ts == texts["Cn"]
      <4>1. files["Cn"] = ts /\ Len(ts) \in Nat
        BY <1>3, <2>3 DEF Languages
      <4> HIDE DEF ts
      <4>2. Len(ts) - Len(ts) = 0 /\ \A i \in 1 .. Len(ts) : Len(ts) - Len(ts) + i = i
        BY <4>1
      <4>3. KeptOf("Cn", ts, 0) = {} /\ DOMAIN <<>> = {}
        <5>1. 1 .. 0 = {} /\ DOMAIN <<>> = 1 .. 0
          OBVIOUS
        <5>2. KeptOf("Cn", ts, 0) = {}
          BY <5>1, Zenon DEF KeptOf
        <5> QED BY <5>1, <5>2
      <4>4. Tallied("Cn", ts, 0, <<>>)
        BY <4>3 DEF Tallied
      <4>5. Remaining(ts, ts)
        BY <4>1, <4>2 DEF Remaining
      <4> QED BY <4>1, <4>2, <4>4, <4>5 DEF ts
    <3>3. WordsComplete'
      BY <1>1, <3>1, <3>2 DEF WordsComplete
    <3>4. \A n \in DOMAIN dict["En"] : Indexed(dict["En"], index["En"], n)
      <4>1. DOMAIN dict["En"] = 1 .. pos
        <5>1. Len(dict["En"]) = Len(order) /\ dict["En"] \in Seq(Rows)
          BY <1>1, <1>2, <2>1, <2>3 DEF WordsComplete, Listed
        <5> QED BY <1>1, <2>3, <5>1
      <4> QED BY <1>1, <2>1, <2>3, <4>1 DEF RowsComplete
    <3> QED BY <1>1, <2>1, <3>1, <3>3, <3>4 DEF RowsComplete
  <2>4. CASE lang = "Cn"
    <3>1. WordsComplete'
      BY <1>1, <2>1, <2>2, <2>4 DEF WordsComplete
    <3> QED BY <1>1, <2>1, <2>4, <3>1 DEF RowsComplete
  <2> QED BY <1>2, <2>3, <2>4 DEF Languages
<1> QED BY <1>1, <1>3, <1>4 DEF BestInv

LEMMA BestIndexPiece == DicInv /\ BestInv /\ IndexPiece => BestInv'
<1> SUFFICES ASSUME DicInv, BestInv, IndexPiece PROVE BestInv'
  OBVIOUS
<1>1. UNCHANGED <<dpc, lang, files, texts, count, order, pos, memory, dict, index, failed>>
  BY DEF IndexPiece
<1> QED BY <1>1 DEF BestInv, WordsComplete, RowsComplete

\* English: each letter of the word has its row.
LEMMA BestIndexWord == DicInv /\ BestInv /\ IndexWord => BestInv'
<1> SUFFICES ASSUME DicInv, BestInv, IndexWord PROVE BestInv'
  OBVIOUS
<1> DEFINE w == order[pos + 1]
           rows == {<<Bytes(<<c>>), to_string(Position)>> : c \in ToSet(w)}
<1>1. /\ dpc = "index" /\ lang = "En" /\ pos < Len(order) /\ InsertRows(rows) /\ pos' = pos + 1
      /\ UNCHANGED <<dpc, lang, files, texts, count, order, memory, sql, dict>>
  BY DEF IndexWord
<1>2. DicTypes /\ index \in [Languages -> SUBSET (Seq(Units) \X Seq(Units))]
  BY DEF DicInv, DicTypes
<1>3. pos \in Nat /\ pos + 1 \in 1 .. Len(order) /\ w \in Seq(ToSet(Characters)) /\ Position = pos + 1
  <2>1. order \in Seq(AllWords) /\ pos \in 0 .. Len(order)
    BY <1>2 DEF DicTypes
  <2>2. pos \in Nat /\ Len(order) \in Nat /\ pos + 1 \in 1 .. Len(order)
    BY <1>1, <2>1
  <2>3. w \in AllWords
    BY <2>1, <2>2
  <2> QED BY <2>2, <2>3, AllWordsFacts DEF Position
<1>4. IsFiniteSet(rows)
  <2> HIDE DEF w
  <2>1. IsFiniteSet(ToSet(w))
    BY <1>3, ToSetFinite
  <2> DEFINE f == [c \in ToSet(w) |-> <<Bytes(<<c>>), to_string(Position)>>]
  <2>2. f \in Surjection(ToSet(w), rows)
    BY DEF Surjection
  <2> QED BY <2>1, <2>2, FS_Surjection
<1>5. ASSUME failed' = <<>> PROVE WordsComplete' /\ RowsComplete'
  <2>1. failed = <<>> /\ index' = [index EXCEPT ![lang] = @ \union rows]
    <3> HIDE DEF rows
    <3> QED BY <1>1, <1>2, <1>4, <1>5, AllRowsInserted
  <2>2. WordsComplete /\ RowsComplete
    BY <2>1 DEF BestInv
  <2>3. index'["En"] = index["En"] \union rows /\ index'["Cn"] = index["Cn"]
    <3> HIDE DEF rows
    <3> QED BY <1>1, <1>2, <2>1 DEF Languages
  <2>4. dict["En"][pos + 1].word = w
    <3>1. dict["En"][pos + 1] = RowOf(texts["En"], w)
      BY <1>1, <1>3, <2>2 DEF WordsComplete, Listed
    <3> HIDE DEF w
    <3> QED BY <3>1 DEF RowOf
  <2>5. ASSUME NEW n \in 1 .. pos + 1 PROVE Indexed(dict["En"], index'["En"], n)
    <3>1. CASE n \in 1 .. pos
      <4>1. Indexed(dict["En"], index["En"], n)
        BY <1>1, <2>2, <3>1 DEF RowsComplete
      <4> HIDE DEF rows
      <4> QED BY <2>3, <4>1 DEF Indexed
    <3>2. CASE n = pos + 1
      <4>1. ASSUME NEW c \in ToSet(dict["En"][n].word) PROVE <<Bytes(<<c>>), to_string(n)>> \in index'["En"]
        <5>1. c \in ToSet(w) /\ Position = n
          BY <1>3, <2>4, <3>2
        <5>2. <<Bytes(<<c>>), to_string(n)>> \in rows
          BY <5>1
        <5> HIDE DEF rows
        <5> QED BY <2>3, <5>2
      <4> QED BY <4>1 DEF Indexed
    <3>3. n \in 1 .. pos \/ n = pos + 1
      BY <1>3
    <3> QED BY <3>1, <3>2, <3>3
  <2> HIDE DEF rows, w
  <2>6. WordsComplete'
    BY <1>1, <2>2 DEF WordsComplete
  <2> QED BY <1>1, <2>2, <2>3, <2>5, <2>6 DEF RowsComplete
<1> QED BY <1>1, <1>5 DEF BestInv

\* A word gets its row, and its characters are remembered with its identifier.
LEMMA BestInsertWord == DicInv /\ BestInv /\ InsertWord => BestInv'
<1> SUFFICES ASSUME DicInv, BestInv, InsertWord PROVE BestInv'
  OBVIOUS
<1> DEFINE w == order[pos + 1]
           r == [word |-> w, freq |-> count[w]]
           ts == texts[lang]
<1>1. /\ dpc = "insert" /\ pos < Len(order) /\ pos' = pos + 1
      /\ memory' = (IF lang = "Cn" THEN memory \union (Pieces(w) \X {pos + 1}) ELSE memory)
      /\ UNCHANGED <<dpc, lang, files, texts, count, order, sql, index>>
  BY DEF InsertWord, Position
<1>2. \/ dict' = [dict EXCEPT ![lang] = Append(@, r)] /\ failed' = failed
      \/ dict' = dict /\ Fail("word", 1)
  BY DEF InsertWord
<1>3. DicTypes /\ lang \in Languages /\ dict \in [Languages -> Seq(Rows)] /\ DOMAIN count \subseteq AllWords
  BY DEF DicInv, DicTypes
<1>4. pos \in Nat /\ pos + 1 \in 1 .. Len(order) /\ w \in DOMAIN count /\ w \in Seq(ToSet(Characters)) /\ r \in Rows
  <2>1. order \in Seq(AllWords) /\ order \in Seq(DOMAIN count) /\ pos \in 0 .. Len(order)
    BY <1>1, <1>3 DEF DicTypes
  <2>2. pos \in Nat /\ Len(order) \in Nat /\ pos + 1 \in 1 .. Len(order)
    BY <1>1, <2>1
  <2>3. w \in DOMAIN count /\ w \in AllWords
    BY <2>1, <2>2
  <2> QED BY <1>3, <2>2, <2>3, AllWordsFacts DEF Rows, DicTypes
<1>5. ASSUME failed' = <<>> PROVE WordsComplete' /\ RowsComplete'
  <2>1. failed = <<>> /\ dict' = [dict EXCEPT ![lang] = Append(@, r)]
    BY <1>2, <1>3, <1>5, NoFailure
  <2>2. WordsComplete /\ RowsComplete
    BY <2>1 DEF BestInv
  <2>3. /\ dict'[lang] = Append(dict[lang], r)
        /\ \A l \in Languages : l # lang => dict'[l] = dict[l]
    <3> HIDE DEF r
    <3> QED BY <1>3, <2>1
  <2>4. /\ Tallied(lang, ts, Len(ts), count) /\ Listed(lang, ts, order, dict[lang], pos)
        /\ lang = "Cn" => Finished("En", texts["En"], dict["En"])
    BY <1>1, <2>2 DEF WordsComplete
  <2>5. r = RowOf(ts, w)
    BY <1>4, <2>4 DEF Tallied, RowOf
  <2> DEFINE d == dict[lang]
             e == dict'[lang]
  <2>6. d \in Seq(Rows) /\ Len(d) = pos /\ e = Append(d, r)
    BY <1>3, <2>3, <2>4 DEF Listed
  <2> HIDE DEF d, e, r, w, ts
  <2>7. Len(e) = pos + 1 /\ DOMAIN e = 1 .. pos + 1 /\ DOMAIN d = 1 .. pos /\ e[pos + 1] = r /\ \A i \in 1 .. pos : e[i] = d[i]
    BY <1>4, <2>6
  <2>8. Listed(lang, ts, order, e, pos + 1)
    <3>1. ASSUME NEW i \in 1 .. pos + 1 PROVE e[i] = RowOf(ts, order[i])
      <4>1. CASE i = pos + 1
        BY <2>5, <2>7, <4>1 DEF w
      <4>2. CASE i # pos + 1
        <5>1. i \in 1 .. pos
          BY <1>4, <4>2
        <5> QED BY <2>4, <2>7, <5>1 DEF Listed, d
      <4> QED BY <4>1, <4>2
    <3> QED BY <2>4, <2>7, <3>1 DEF Listed
  <2>9. WordsComplete'
    <3>1. lang = "Cn" => Finished("En", texts["En"], dict'["En"])
      BY <2>3, <2>4 DEF Languages
    <3> QED BY <1>1, <2>4, <2>8, <3>1 DEF WordsComplete, e, ts
  <2>10. r.word = w
    BY <2>5 DEF RowOf
  <2>11. ASSUME NEW n \in DOMAIN dict'["Cn"] PROVE Pending(dict'["Cn"], memory', index["Cn"], n)
    <3>1. CASE lang # "Cn"
      <4>1. dict'["Cn"] = dict["Cn"] /\ memory' = memory
        BY <1>1, <2>3, <3>1 DEF Languages
      <4> QED BY <2>2, <4>1 DEF RowsComplete
    <3>2. CASE lang = "Cn" /\ n # pos + 1
      <4>1. n \in 1 .. pos /\ dict["Cn"] = d /\ dict'["Cn"] = e
        BY <1>4, <2>7, <3>2 DEF d, e
      <4>2. Pending(d, memory, index["Cn"], n) /\ e[n] = d[n]
        BY <2>2, <2>7, <4>1 DEF RowsComplete
      <4>3. memory \subseteq memory'
        BY <1>1
      <4> QED BY <4>1, <4>2, <4>3 DEF Pending
    <3>3. CASE lang = "Cn" /\ n = pos + 1
      <4>1. dict'["Cn"] = e /\ e[n].word = w
        BY <2>7, <2>10, <3>3 DEF e
      <4>2. ASSUME ~HasOneByte(w), NEW c \in ToSet(w) PROVE <<Bytes(<<c>>), n>> \in memory'
        <5>1. Bytes(<<c>>) \in Pieces(w)
          BY <1>4, <4>2, ChinesePieces
        <5> QED BY <1>1, <3>3, <5>1 DEF w
      <4> QED BY <4>1, <4>2 DEF Pending
    <3> QED BY <3>1, <3>2, <3>3
  <2>12. Unspoiled(dict'["Cn"], index["Cn"])
    <3>1. Unspoiled(dict["Cn"], index["Cn"])
      BY <2>2 DEF RowsComplete
    <3>2. CASE lang # "Cn"
      BY <2>3, <3>1, <3>2 DEF Languages
    <3>3. CASE lang = "Cn"
      <4>1. \A n \in DOMAIN d : n \in DOMAIN e /\ e[n] = d[n]
        BY <1>4, <2>7
      <4>2. dict["Cn"] = d /\ dict'["Cn"] = e
        BY <3>3 DEF d, e
      <4> QED BY <3>1, <4>1, <4>2 DEF Unspoiled
    <3> QED BY <3>2, <3>3
  <2>13. lang = "Cn" => \A n \in DOMAIN dict'["En"] : Indexed(dict'["En"], index["En"], n)
    BY <2>2, <2>3 DEF RowsComplete, Languages
  <2> QED BY <1>1, <2>9, <2>11, <2>12, <2>13 DEF RowsComplete
<1> QED BY <1>1, <1>5 DEF BestInv

\* Chinese: a piece without letters and digits leads to the word.
LEMMA BestIndexPosition == DicInv /\ BestInv /\ IndexPosition => BestInv'
<1> SUFFICES ASSUME DicInv, BestInv, IndexPosition PROVE BestInv'
  OBVIOUS
<1>1. /\ dpc = "index" /\ lang = "Cn"
      /\ UNCHANGED <<dpc, lang, files, texts, count, order, pos, dict>>
  BY DEF IndexPosition
<1>2. PICK id \in {m[2] : m \in {e \in memory : e[1] = sql.key}} :
        LET digits == to_string(id)
            whole == [sql EXCEPT !.number = @ \o digits]
        IN /\ InsertRows({<<whole.piece, whole.number>>})
           /\ sql' = TakenOut(whole, digits)
           /\ memory' = memory \ {<<sql.key, id>>}
  BY DEF IndexPosition
<1> DEFINE key == sql.key
           row == <<sql.piece, sql.number \o to_string(id)>>
<1>3. /\ DicTypes /\ sql \in [key : Seq(Units), piece : Seq(Units), number : Seq(Units)]
      /\ memory \subseteq Seq(Units) \X Nat /\ \A m \in memory : Len(m[1]) = 3
      /\ index \in [Languages -> SUBSET (Seq(Units) \X Seq(Units))]
      /\ dict \in [Languages -> Seq(Rows)]
  BY DEF DicInv, DicTypes
<1>4. id \in Nat /\ <<key, id>> \in memory /\ Len(key) = 3
  <2>1. PICK m \in memory : m[1] = sql.key /\ id = m[2]
    OBVIOUS
  <2>2. m \in Seq(Units) \X Nat
    BY <1>3
  <2>3. m = <<sql.key, id>> /\ id \in Nat
    BY <2>1, <2>2
  <2> QED BY <1>3, <2>1, <2>3
<1>5. InsertRows({row}) /\ memory' = memory \ {<<key, id>>}
  <2>1. /\ InsertRows({<<[sql EXCEPT !.number = @ \o to_string(id)].piece, [sql EXCEPT !.number = @ \o to_string(id)].number>>})
        /\ memory' = memory \ {<<sql.key, id>>}
    BY <1>2
  <2>2. /\ [sql EXCEPT !.number = @ \o to_string(id)].piece = sql.piece
        /\ [sql EXCEPT !.number = @ \o to_string(id)].number = sql.number \o to_string(id)
    BY <1>3
  <2> QED BY <2>1, <2>2
<1>6. ~OneByteIn(key) => row = <<key, to_string(id)>>
  <2>1. to_string(id) \in Seq(Units)
    BY <1>4, DigitsFacts
  <2>2. <<>> \o to_string(id) = to_string(id)
    BY <2>1
  <2> QED BY <2>2 DEF DicInv, DicStatement
<1> HIDE DEF key, row
<1>7. ASSUME failed' = <<>> PROVE WordsComplete' /\ RowsComplete'
  <2>1. failed = <<>> /\ index' = [index EXCEPT ![lang] = @ \union {row}]
    <3>1. IsFiniteSet({row})
      BY FS_Singleton
    <3> QED BY <1>3, <1>5, <1>7, <3>1, AllRowsInserted
  <2>2. WordsComplete /\ RowsComplete
    BY <2>1 DEF BestInv
  <2>3. index'["En"] = index["En"] /\ index'["Cn"] = index["Cn"] \union {row}
    BY <1>1, <1>3, <2>1 DEF Languages
  <2> DEFINE d == dict["Cn"]
  <2>4. /\ id \in DOMAIN d /\ key \in Pieces(d[id].word)
        /\ \A n \in DOMAIN d : d[n].word \in Seq(ToSet(Characters))
    <3>1. Complete
      <4>0. DOMAIN <<>> = {}
        OBVIOUS
      <4>1. ToSet(failed) = {}
        BY <2>1, <4>0, Zenon DEF ToSet
      <4> QED BY <4>1 DEF Complete
    <3>2. id \in DOMAIN d /\ key \in Pieces(d[id].word)
      <4>1. <<key, id>>[1] = key /\ <<key, id>>[2] = id
        OBVIOUS
      <4> QED BY <1>4, <3>1, <4>1 DEF DicInv, DicAgrees
    <3>3. d \in Seq(Rows)
      BY <1>3 DEF Languages
    <3>4. ASSUME NEW n \in DOMAIN d PROVE d[n].word \in Seq(ToSet(Characters))
      <4>1. d[n] \in Rows
        BY <3>3
      <4>2. d[n].word \in AllWords
        BY <4>1 DEF Rows
      <4> QED BY <4>2, AllWordsFacts
    <3> QED BY <3>2, <3>4
  <2> HIDE DEF d
  <2>5. ASSUME ~HasOneByte(d[id].word) PROVE ~OneByteIn(key)
    <3>1. Len(key) = 3 /\ \A i \in 1 .. 3 : key[i][1] \in ToSet(d[id].word)
      BY <1>4, <2>4, PieceFacts
    <3>2. \A c \in ToSet(d[id].word) : ~IsOneByte(c)
      BY <2>5 DEF HasOneByte, ToSet
    <3> QED BY <3>1, <3>2 DEF OneByteIn
  <2>6. ASSUME NEW n \in DOMAIN d PROVE Pending(d, memory', index'["Cn"], n)
    <3> SUFFICES ASSUME ~HasOneByte(d[n].word), NEW c \in ToSet(d[n].word)
                 PROVE  <<Bytes(<<c>>), n>> \in memory' \/ <<Bytes(<<c>>), to_string(n)>> \in index'["Cn"]
      BY DEF Pending
    <3>1. <<Bytes(<<c>>), n>> \in memory \/ <<Bytes(<<c>>), to_string(n)>> \in index["Cn"]
      BY <2>2 DEF RowsComplete, Pending, d
    <3>2. CASE <<Bytes(<<c>>), n>> = <<key, id>>
      <4>1. Bytes(<<c>>) = key /\ n = id
        BY <3>2
      <4>2. row = <<key, to_string(id)>>
        BY <1>6, <2>5, <4>1
      <4> QED BY <2>3, <4>1, <4>2
    <3>3. CASE <<Bytes(<<c>>), n>> # <<key, id>>
      BY <1>5, <2>3, <3>1, <3>3
    <3> QED BY <3>2, <3>3
  <2>7. Unspoiled(d, index'["Cn"])
    <3> SUFFICES ASSUME \A n \in DOMAIN d : ~HasOneByte(d[n].word), NEW x \in index'["Cn"] PROVE Len(x[1]) = 3
      BY DEF Unspoiled
    <3>1. row[1] = key
      <4>1. row = <<key, to_string(id)>>
        BY <1>6, <2>4, <2>5
      <4> QED BY <4>1
    <3>2. \A y \in index["Cn"] : Len(y[1]) = 3
      BY <2>2 DEF RowsComplete, Unspoiled, d
    <3> QED BY <1>4, <2>3, <3>1, <3>2
  <2>8. WordsComplete'
    BY <1>1, <2>2 DEF WordsComplete
  <2> QED BY <1>1, <2>2, <2>3, <2>6, <2>7, <2>8 DEF RowsComplete, d
<1> QED BY <1>1, <1>7 DEF BestInv

LEMMA BestStart ==
  ASSUME NEW en \in Articles("En"), NEW cn \in Articles("Cn"), DictStart(en, cn)
  PROVE  BestInv
<1>1. /\ dpc = "read" /\ lang = "En" /\ files = [l \in Languages |-> IF l = "En" THEN en ELSE cn] /\ texts = files
      /\ count = <<>> /\ memory = {} /\ dict = [l \in Languages |-> <<>>] /\ index = [l \in Languages |-> {}]
  BY DEF DictStart
<1>2. DicTypes
  BY DicStart DEF DicInv
<1>3. DOMAIN texts = Languages /\ \A l \in Languages : texts[l] \in Seq(Texts[l])
  BY <1>1, <1>2 DEF DicTypes
<1>4. WordsComplete
  <2> DEFINE ts == texts["En"]
  <2>1. ts \in Seq(Texts["En"]) /\ files["En"] = ts
    BY <1>1, <1>3 DEF Languages
  <2> HIDE DEF ts
  <2>2. Len(ts) \in Nat /\ Len(ts) - Len(ts) = 0 /\ \A i \in 1 .. Len(ts) : Len(ts) - Len(ts) + i = i
    BY <2>1
  <2>3. KeptOf("En", ts, 0) = {} /\ DOMAIN <<>> = {}
    <3>1. 1 .. 0 = {} /\ DOMAIN <<>> = {}
      OBVIOUS
    <3>2. KeptOf("En", ts, 0) = {}
      BY <3>1, Zenon DEF KeptOf
    <3> QED BY <3>1, <3>2
  <2>4. Tallied("En", ts, 0, <<>>)
    BY <2>3 DEF Tallied
  <2>5. Remaining(ts, ts)
    BY <2>2 DEF Remaining
  <2> QED BY <1>1, <2>1, <2>2, <2>4, <2>5 DEF WordsComplete, ts
<1>5. RowsComplete
  <2>1. dict["Cn"] = <<>> /\ index["Cn"] = {} /\ DOMAIN <<>> = {}
    BY <1>1 DEF Languages
  <2> QED BY <1>1, <2>1 DEF RowsComplete, Unspoiled
<1> QED BY <1>1, <1>3, <1>4, <1>5 DEF BestInv

LEMMA BestStep == DicInv /\ BestInv /\ [DictNext]_dictVars => BestInv'
<1> SUFFICES ASSUME DicInv, BestInv, [DictNext]_dictVars PROVE BestInv'
  OBVIOUS
<1>1. CASE UNCHANGED dictVars
  BY <1>1 DEF dictVars, BestInv, WordsComplete, RowsComplete
<1> QED
  BY <1>1, BestReadFile, BestAllRead, BestCannotOpen, BestInsertWord, BestAllInserted,
     BestIndexWord, BestIndexPiece, BestIndexPosition, BestNextLanguage DEF DictNext

\* The position of a row is an int.
LEMMA PositionsBelow == Cardinality(AllWords) <= IntMax
BY PositionsFit, SMT DEF IntMax

\* What the tables hold in the end.
Done ==
  /\ DicInv /\ BestInv /\ dpc = "done" /\ failed = <<>>
  /\ \A w \in WordsIn("Cn") : ~HasOneByte(w)

LEMMA TablesExact ==
  ASSUME Done, NEW l \in Languages
  PROVE  /\ WordsIn(l) \subseteq AllWords
         /\ \A w : Occurrences(l, w) \in Nat
         /\ \A w \in WordsIn(l) : \E n \in DOMAIN dict[l] : dict[l][n].word = w
         /\ \A n \in DOMAIN dict[l] :
              /\ dict[l][n].word \in WordsIn(l)
              /\ dict[l][n] = [word |-> dict[l][n].word, freq |-> Occurrences(l, dict[l][n].word)]
<1> DEFINE ts == texts[l]
           m == Len(ts)
<1>1. ts \in Seq(Seq(AllWords)) /\ ts \in Seq(Texts[l]) /\ \A t \in Texts[l] : ToSet(t) \subseteq AllWords
  <2>1. Texts[l] \subseteq Seq(AllWords) /\ \A t \in Texts[l] : ToSet(t) \subseteq AllWords
    BY AllWordsFacts
  <2>2. ts \in Seq(Texts[l])
    BY DEF Done, BestInv
  <2> DEFINE S == Texts[l]
             R == Seq(AllWords)
  <2>3. S \subseteq R /\ ts \in Seq(S)
    BY <2>1, <2>2
  <2> HIDE DEF S, R, ts
  <2>4. ts \in Seq(R)
    BY <2>3
  <2> QED BY <2>1, <2>2, <2>4 DEF R
<1>2. DOMAIN ts = 1 .. m /\ m \in Nat /\ m \in 0 .. m /\ \A k \in 1 .. m : ts[k] \in Texts[l]
  <2> HIDE DEF ts
  <2> QED BY <1>1
<1>3. WordsIn(l) = KeptOf(l, ts, m)
  <2>1. ToSet(ts) = {ts[k] : k \in 1 .. m}
    BY <1>2 DEF ToSet
  <2>2. ASSUME NEW w PROVE w \in WordsIn(l) <=> w \in KeptOf(l, ts, m)
    <3>1. w \in WordsIn(l) <=> Kept(l, w) /\ \E t \in ToSet(ts) : w \in ToSet(t)
      BY Zenon DEF WordsIn
    <3>2. w \in KeptOf(l, ts, m) <=> Kept(l, w) /\ \E k \in 1 .. m : w \in ToSet(ts[k])
      BY Zenon DEF KeptOf
    <3> QED BY <2>1, <3>1, <3>2, Zenon
  <2> QED BY <2>2, Zenon
<1>4. ASSUME NEW w PROVE Occurrences(l, w) = Cardinality(Places(ts, m, w)) /\ Occurrences(l, w) \in Nat
  <2>1. Occurrences(l, w) = Cardinality(Places(ts, m, w))
    BY <1>2, Zenon DEF Occurrences, Places
  <2> HIDE DEF ts, m
  <2>2. m \in 0 .. Len(ts)
    BY <1>2 DEF m
  <2> QED BY <1>1, <2>1, <2>2, PlacesFacts
<1>5. WordsIn(l) \subseteq AllWords
  <2>1. ASSUME NEW k \in 1 .. m PROVE ToSet(ts[k]) \subseteq AllWords
    BY <1>1, <1>2
  <2> HIDE DEF ts, m
  <2> QED BY <1>3, <2>1 DEF KeptOf
<1>6. Finished(l, ts, dict[l])
  BY DEF Done, BestInv, WordsComplete, Languages
<1> HIDE DEF ts
<1>7. \A w \in WordsIn(l) : \E n \in DOMAIN dict[l] : dict[l][n].word = w
  BY <1>3, <1>6 DEF Finished
<1>8. ASSUME NEW n \in DOMAIN dict[l]
      PROVE  /\ dict[l][n].word \in WordsIn(l)
             /\ dict[l][n] = [word |-> dict[l][n].word, freq |-> Occurrences(l, dict[l][n].word)]
  <2>1. dict[l][n].word \in KeptOf(l, ts, m) /\ dict[l][n] = RowOf(ts, dict[l][n].word)
    BY <1>6 DEF Finished
  <2>2. \A w : RowOf(ts, w) = [word |-> w, freq |-> Occurrences(l, w)]
    BY <1>4 DEF RowOf
  <2> QED BY <1>3, <2>1, <2>2
<1> QED BY <1>4, <1>5, <1>7, <1>8

\* The row of a character and an identifier is there if and only if the word
\* holds the character.
LEMMA RowsExact ==
  ASSUME Done, NEW l \in Languages, NEW n \in DOMAIN dict[l], NEW c \in ToSet(Characters)
  PROVE  <<Bytes(<<c>>), to_string(n)>> \in index[l] <=> c \in ToSet(dict[l][n].word)
<1> DEFINE b == Bytes(<<c>>)
           row == <<b, to_string(n)>>
<1>1. \A k \in DOMAIN dict[l] : k \in Nat /\ k <= IntMax
  <2>1. dict[l] \in Seq(Rows) /\ Len(dict[l]) <= Cardinality(AllWords)
    BY DEF Done, DicInv, DicTypes, DicSizes
  <2>2. Cardinality(AllWords) \in Nat /\ Cardinality(AllWords) <= IntMax /\ IntMax \in Nat
    <3>1. IntMax \in Nat
      BY SMT DEF IntMax
    <3> QED BY <3>1, AllWordsFacts, PositionsBelow
  <2>3. DOMAIN dict[l] = 1 .. Len(dict[l]) /\ Len(dict[l]) \in Nat
    BY <2>1
  <2>4. \A k \in 1 .. Len(dict[l]) : k \in Nat /\ k <= IntMax
    BY <2>1, <2>2, <2>3
  <2> QED BY <2>3, <2>4
<1>2. b \in Seq(Units) /\ Len(b) = Size(c) /\ (\A i \in 1 .. Size(c) : b[i] = <<c, i>>) /\ b[1][1] = c
  BY CharBytes
<1> HIDE DEF b
<1>3. \A r \in index[l] : RowTrue(l, r)
  <2>1. Complete
    <3>1. DOMAIN <<>> = {}
      OBVIOUS
    <3>2. ToSet(failed) = {}
      BY <3>1, Zenon DEF Done, ToSet
    <3> QED BY <3>2 DEF Complete
  <2> QED BY <2>1 DEF Done, DicInv, DicAgrees
<1>4. ASSUME l = "En" \/ ~IsOneByte(c), row \in index[l] PROVE c \in ToSet(dict[l][n].word)
  <2>1. RowTrue(l, row) /\ row[1] = b /\ row[2] = to_string(n)
    BY <1>3, <1>4
  <2>2. l = "En" \/ (Len(row[1]) = 3 /\ ~HasOneByte([i \in 1 .. 3 |-> row[1][i][1]]))
    <3>1. CASE ~IsOneByte(c)
      <4>1. Len(b) = 3 /\ \A i \in 1 .. 3 : b[i] = <<c, i>>
        BY <1>2, <3>1 DEF Size
      <4>2. \A i \in 1 .. 3 : b[i][1] = c
        BY <4>1
      <4>3. ~HasOneByte([i \in 1 .. 3 |-> b[i][1]])
        BY <3>1, <4>2 DEF HasOneByte
      <4> QED BY <2>1, <4>1, <4>3
    <3> QED BY <1>4, <3>1
  <2> HIDE DEF row
  <2>3. PICK k \in DOMAIN dict[l] : row[2] = to_string(k) /\ row[1][1][1] \in ToSet(dict[l][k].word)
    BY <2>1, <2>2 DEF RowTrue
  <2>4. k = n
    BY <1>1, <2>1, <2>3, ToStringInjective
  <2> QED BY <1>2, <2>1, <2>3, <2>4
<1>5. CASE l = "En"
  <2>1. Indexed(dict["En"], index["En"], n)
    BY <1>5 DEF Done, BestInv, WordsComplete, RowsComplete
  <2>2. c \in ToSet(dict["En"][n].word) => row \in index["En"]
    BY <2>1 DEF Indexed, b
  <2> QED BY <1>4, <1>5, <2>2 DEF b
<1>6. CASE l = "Cn"
  <2>1. /\ Pending(dict["Cn"], memory, index["Cn"], n) /\ memory = {}
        /\ Unspoiled(dict["Cn"], index["Cn"])
    BY <1>6 DEF Done, BestInv, RowsComplete
  <2>2. \A k \in DOMAIN dict["Cn"] : ~HasOneByte(dict["Cn"][k].word)
    BY <1>6, TablesExact DEF Done
  <2>3. c \in ToSet(dict["Cn"][n].word) => row \in index["Cn"]
    BY <1>6, <2>1, <2>2 DEF Pending, b
  <2>4. ASSUME row \in index["Cn"] PROVE ~IsOneByte(c)
    <3>1. Len(row[1]) = 3 /\ row[1] = b
      BY <2>1, <2>2, <2>4 DEF Unspoiled
    <3> HIDE DEF row
    <3> QED BY <1>2, <3>1 DEF Size
  <2> QED BY <1>4, <1>6, <2>3, <2>4 DEF b
<1> QED BY <1>5, <1>6 DEF Languages

\* The best of those found, as many as are allowed.
AnswerOf(T) ==
  LET ranked == Ranked(T)
  IN SubSeq([i \in DOMAIN ranked |-> ranked[i].word], 1, Min({TopCount, Len(ranked)}))

\* What is answered has each word found at the place that says how many are
\* better.
LEMMA AnswerFacts ==
  ASSUME NEW T, IsFiniteSet(T), T \subseteq Scores
  PROVE  /\ Len(AnswerOf(T)) = Min({TopCount, Cardinality(T)})
         /\ \A c \in T : \A i \in Nat :
              i = Cardinality({d \in T : Better(d, c)}) + 1 /\ i <= TopCount => AnswerOf(T)[i] = c.word
<1> DEFINE ranked == Ranked(T)
           n == Cardinality(T)
           words == [i \in DOMAIN ranked |-> ranked[i].word]
           k == Min({TopCount, n})
           V == {words[i] : i \in 1 .. n}
<1>1. n \in Nat
  BY FS_CardinalityType
<1>2. DOMAIN ranked = 1 .. n /\ Len(ranked) = n
  <2>1. ranked = [i \in 1 .. n |-> CHOOSE c \in T : Cardinality({d \in T : Better(d, c)}) = i - 1]
    BY DEF Ranked
  <2> HIDE DEF n
  <2>2. DOMAIN ranked = 1 .. n /\ ranked \in [1 .. n -> {ranked[i] : i \in 1 .. n}]
    BY <2>1
  <2> QED BY <1>1, <2>2, SeqDef, LenProperties
<1>3. words \in Seq(V) /\ Len(words) = n /\ \A i \in 1 .. n : words[i] = ranked[i].word
  <2>1. DOMAIN words = 1 .. n /\ words = [i \in 1 .. n |-> words[i]] /\ \A i \in 1 .. n : words[i] = ranked[i].word
    BY <1>2
  <2> HIDE DEF words
  <2>2. words \in [1 .. n -> V]
    BY <2>1
  <2> HIDE DEF V, n
  <2> QED BY <1>1, <2>1, <2>2, SeqDef, LenProperties
<1>4. k \in {TopCount, n} /\ k <= TopCount /\ k <= n /\ k \in Nat
  <2>1. {TopCount, n} \in SUBSET Nat /\ {TopCount, n} # {} /\ TopCount \in {TopCount, n} /\ n \in {TopCount, n}
    BY <1>1, DictionaryAssumption
  <2> DEFINE M == {TopCount, n}
  <2>2. M \in SUBSET Nat /\ M # {} /\ TopCount \in M /\ n \in M
    BY <2>1
  <2>3. Min(M) \in M /\ Min(M) <= TopCount /\ Min(M) <= n
    <3> HIDE DEF M, n
    <3> QED BY <2>2, MinFacts
  <2>4. k = Min(M)
    OBVIOUS
  <2> HIDE DEF k, n
  <2> QED BY <2>1, <2>3, <2>4
<1> DEFINE a == SubSeq(words, 1, k)
<1>5. AnswerOf(T) = a
  BY <1>2 DEF AnswerOf
<1> HIDE DEF ranked, n, words, k, V
<1>6. Len(a) = k /\ \A i \in 1 .. k : a[i] = words[i]
  <2>1. CASE k = 0
    <3>1. a = <<>>
      BY <1>3, <2>1
    <3> HIDE DEF a
    <3> QED BY <2>1, <3>1
  <2>2. CASE k >= 1
    <3>1. 1 \in 1 .. Len(words) /\ k \in 1 .. Len(words) /\ \A i \in 1 .. k : words[i] \in V
      BY <1>1, <1>3, <1>4, <2>2 DEF V
    <3>2. /\ a \in Seq(V) /\ Len(a) = k - 1 + 1
          /\ \A i \in 1 .. k - 1 + 1 : a[i] = words[1 + i - 1]
      BY <1>3, <2>2, <3>1, SubSeqProperties
    <3>3. k - 1 + 1 = k /\ \A i \in 1 .. k : 1 + i - 1 = i
      BY <1>4
    <3> HIDE DEF a
    <3> QED BY <3>2, <3>3
  <2> QED BY <1>4, <2>1, <2>2
<1>7. ASSUME NEW c \in T, NEW i \in Nat, i = Cardinality({d \in T : Better(d, c)}) + 1, i <= TopCount
      PROVE  a[i] = c.word
  <2> DEFINE Ahead == {d \in T : Better(d, c)}
  <2>1. Cardinality(Ahead) \in Nat /\ Cardinality(Ahead) < n
    <3>1. Ahead \in SUBSET (T \ {c})
      <4>1. ~Better(c, c)
        BY BetterOrder
      <4> QED BY <4>1
    <3>2. IsFiniteSet(T \ {c}) /\ Cardinality(T \ {c}) = n - 1
      BY FS_RemoveElement DEF n
    <3> HIDE DEF Ahead
    <3>3. Cardinality(Ahead) <= Cardinality(T \ {c}) /\ IsFiniteSet(Ahead)
      BY <3>1, <3>2, FS_Subset
    <3>4. Cardinality(Ahead) \in Nat
      BY <3>3, FS_CardinalityType
    <3> QED BY <1>1, <3>2, <3>3, <3>4
  <2>2. i = Cardinality(Ahead) + 1
    BY <1>7
  <2>3. ranked[i] = c
    <3>1. i \in 1 .. Cardinality(T) /\ Cardinality(Ahead) = i - 1
      <4> HIDE DEF Ahead
      <4> QED BY <1>1, <2>1, <2>2 DEF n
    <3> QED BY <3>1, RankedFacts DEF ranked
  <2> HIDE DEF Ahead
  <2>4. i \in 1 .. k /\ i \in 1 .. n
    BY <1>1, <1>4, <1>7, <2>1, <2>2
  <2> HIDE DEF a
  <2> QED BY <1>3, <1>6, <2>3, <2>4
<1> HIDE DEF a
<1> QED BY <1>5, <1>6, <1>7 DEF k, n

LEMMA TableForFacts ==
  ASSUME NEW q \in Seq(ToSet(Characters)), NEW c \in ToSet(q)
  PROVE  TableFor(q, c) \in Languages /\ (TableFor(q, c) = "En" => IsOneByte(c))
<1>1. PICK i \in DOMAIN q : c = q[i]
  BY DEF ToSet
<1> QED BY <1>1 DEF TableFor, IsOneByte, Languages

LEMMA CandidateFacts ==
  ASSUME NEW q, NEW r
  PROVE  r \in Candidates(q) <=>
           \E c \in ToSet(q) : \E n \in DOMAIN dict[TableFor(q, c)] :
             <<Bytes(<<c>>), to_string(n)>> \in index[TableFor(q, c)] /\ r = dict[TableFor(q, c)][n]
<1> DEFINE Of(c) == LET l == TableFor(q, c) IN
                      {dict[l][n] : n \in {m \in DOMAIN dict[l] : <<Bytes(<<c>>), to_string(m)>> \in index[l]}}
<1>1. Candidates(q) = UNION {Of(c) : c \in ToSet(q)}
  BY DEF Candidates
<1>2. ASSUME NEW c
      PROVE  r \in Of(c) <=> \E n \in DOMAIN dict[TableFor(q, c)] :
               <<Bytes(<<c>>), to_string(n)>> \in index[TableFor(q, c)] /\ r = dict[TableFor(q, c)][n]
  <2> DEFINE l == TableFor(q, c)
  <2> HIDE DEF l
  <2>1. Of(c) = {dict[l][n] : n \in {m \in DOMAIN dict[l] : <<Bytes(<<c>>), to_string(m)>> \in index[l]}}
    BY DEF l
  <2> HIDE DEF Of
  <2>2. r \in Of(c) <=> \E n \in DOMAIN dict[l] : <<Bytes(<<c>>), to_string(n)>> \in index[l] /\ r = dict[l][n]
    BY <2>1, Zenon
  <2> QED BY <2>2 DEF l
<1> HIDE DEF Of
<1>3. r \in Candidates(q) <=> \E c \in ToSet(q) : r \in Of(c)
  BY <1>1, Zenon
<1> QED BY <1>2, <1>3, Zenon

\* The tables are searched as if the articles were.
LEMMA DoneBest == Done => BestCandidates
<1> SUFFICES ASSUME Done PROVE BestCandidates
  OBVIOUS
<1> SUFFICES ASSUME NEW q \in Queries
    PROVE  /\ Len(recommender(q)) = Min({TopCount, Cardinality(Shared(q))})
           /\ \A e \in Shared(q) :
                Cardinality(Before(q, e)) + 1 <= TopCount => recommender(q)[Cardinality(Before(q, e)) + 1] = e[2]
  BY Zenon DEF BestCandidates
<1> DEFINE shared == Shared(q)
           Cell(e) == [word |-> e[2], freq |-> Occurrences(e[1], e[2]), dist |-> Distance[<<q, e[2]>>]]
           scored == {[word |-> r.word, freq |-> r.freq, dist |-> editDistance(q, r.word)] : r \in Candidates(q)}
<1>1. /\ q \in Seq(ToSet(Characters)) /\ ToSet(q) \subseteq ToSet(Characters)
  <2>1. q \in Seq(ToSet(Characters))
    BY DictionaryAssumption
  <2> QED BY <2>1, ToSetFinite
<1>2. \A l \in Languages : WordsIn(l) \subseteq AllWords /\ \A w : Occurrences(l, w) \in Nat
  BY TablesExact
<1>3. \A e : e \in shared <=> \E l \in Languages : \E w \in WordsIn(l) :
               e = <<l, w>> /\ \E c \in ToSet(q) \intersect ToSet(w) : TableFor(q, c) = l
  BY DEF Languages, Shared
<1> HIDE DEF shared
<1>4. ASSUME NEW e \in shared
      PROVE  /\ e = <<e[1], e[2]>> /\ e[1] \in Languages /\ e[2] \in WordsIn(e[1]) /\ e[2] \in AllWords
             /\ e[2] \in Seq(ToSet(Characters))
             /\ \E c \in ToSet(q) \intersect ToSet(e[2]) : TableFor(q, c) = e[1]
  <2>1. PICK l \in Languages : \E w \in WordsIn(l) :
               e = <<l, w>> /\ \E c \in ToSet(q) \intersect ToSet(w) : TableFor(q, c) = l
    BY <1>3
  <2>2. PICK w \in WordsIn(l) : e = <<l, w>> /\ \E c \in ToSet(q) \intersect ToSet(w) : TableFor(q, c) = l
    BY <2>1
  <2>3. w \in AllWords /\ w \in Seq(ToSet(Characters))
    BY <1>2, AllWordsFacts
  <2> QED BY <2>2, <2>3
<1>5. ASSUME NEW e \in shared PROVE Cell(e) \in Scores /\ Distance[<<q, e[2]>>] = editDistance(q, e[2])
  <2>1. Distance[<<q, e[2]>>] = editDistance(q, e[2]) /\ Distance[<<q, e[2]>>] \in Nat
    BY <1>4, DistanceFacts
  <2>2. Occurrences(e[1], e[2]) \in Nat
    BY <1>2, <1>4
  <2> QED BY <1>4, <2>1, <2>2 DEF Scores
<1>6. ASSUME NEW e \in shared, NEW f \in shared, e[2] = f[2] PROVE e = f
  <2>1. ASSUME NEW x \in shared, NEW y \in shared, x[2] = y[2], x[1] = "En", y[1] = "Cn" PROVE FALSE
    <3>1. PICK c \in ToSet(q) \intersect ToSet(x[2]) : TableFor(q, c) = "En"
      BY <1>4, <2>1
    <3>2. IsOneByte(c)
      BY <1>1, <3>1, TableForFacts
    <3>3. y[2] \in WordsIn("Cn") /\ ~HasOneByte(y[2])
      BY <1>4, <2>1 DEF Done
    <3> QED BY <2>1, <3>2, <3>3 DEF HasOneByte, ToSet
  <2>2. e[1] = f[1]
    BY <1>4, <1>6, <2>1 DEF Languages
  <2> QED BY <1>4, <1>6, <2>2
<1>7. IsFiniteSet(shared)
  <2>1. IsFiniteSet(Languages \X AllWords)
    <3>1. IsFiniteSet(Languages)
      <4>1. IsFiniteSet({"En"} \union {"Cn"})
        BY FS_Singleton, FS_Union
      <4>2. Languages = {"En"} \union {"Cn"}
        BY DEF Languages
      <4> QED BY <4>1, <4>2
    <3> QED BY <3>1, AllWordsFacts, FS_Product
  <2>2. shared \in SUBSET (Languages \X AllWords)
    <3>1. \A e \in shared : e \in Languages \X AllWords
      BY <1>4
    <3> QED BY <3>1
  <2> QED BY <2>1, <2>2, FS_Subset
<1>8. scored = {Cell(e) : e \in shared}
  <2>1. ASSUME NEW r \in Candidates(q)
        PROVE  \E e \in shared : [word |-> r.word, freq |-> r.freq, dist |-> editDistance(q, r.word)] = Cell(e)
    <3>1. PICK c \in ToSet(q) : \E n \in DOMAIN dict[TableFor(q, c)] :
                <<Bytes(<<c>>), to_string(n)>> \in index[TableFor(q, c)] /\ r = dict[TableFor(q, c)][n]
      BY CandidateFacts
    <3> DEFINE l == TableFor(q, c)
    <3>2. PICK n \in DOMAIN dict[l] : <<Bytes(<<c>>), to_string(n)>> \in index[l] /\ r = dict[l][n]
      BY <3>1
    <3>3. l \in Languages /\ c \in ToSet(Characters)
      BY <1>1, TableForFacts
    <3>4. c \in ToSet(r.word)
      BY <3>2, <3>3, RowsExact
    <3>5. r.word \in WordsIn(l) /\ r = [word |-> r.word, freq |-> Occurrences(l, r.word)]
      BY <3>2, <3>3, TablesExact
    <3>6. r.freq = Occurrences(l, r.word)
      BY <3>5
    <3> DEFINE e == <<l, r.word>>
    <3>7. e \in shared /\ e[1] = l /\ e[2] = r.word
      BY <1>3, <3>3, <3>4, <3>5
    <3> HIDE DEF e, l
    <3>8. Cell(e) = [word |-> r.word, freq |-> r.freq, dist |-> editDistance(q, r.word)]
      BY <1>5, <3>6, <3>7
    <3> QED BY <3>7, <3>8
  <2>2. ASSUME NEW e \in shared
        PROVE  \E r \in Candidates(q) : Cell(e) = [word |-> r.word, freq |-> r.freq, dist |-> editDistance(q, r.word)]
    <3>1. PICK c \in ToSet(q) \intersect ToSet(e[2]) : TableFor(q, c) = e[1]
      BY <1>4
    <3>2. PICK n \in DOMAIN dict[e[1]] : dict[e[1]][n].word = e[2]
      BY <1>4, TablesExact
    <3> DEFINE r == dict[e[1]][n]
    <3>3. r = [word |-> e[2], freq |-> Occurrences(e[1], e[2])]
      <4>1. \A m \in DOMAIN dict[e[1]] :
              dict[e[1]][m] = [word |-> dict[e[1]][m].word, freq |-> Occurrences(e[1], dict[e[1]][m].word)]
        BY <1>4, TablesExact
      <4>2. r = [word |-> dict[e[1]][n].word, freq |-> Occurrences(e[1], dict[e[1]][n].word)]
        BY <4>1, Zenon
      <4> QED BY <3>2, <4>2, Zenon
    <3>4. <<Bytes(<<c>>), to_string(n)>> \in index[e[1]]
      BY <1>1, <1>4, <3>1, <3>2, RowsExact
    <3>5. r \in Candidates(q)
      BY <3>1, <3>4, CandidateFacts
    <3> HIDE DEF r
    <3>6. r.word = e[2] /\ r.freq = Occurrences(e[1], e[2])
      BY <3>3
    <3> QED BY <1>5, <3>5, <3>6
  <2> HIDE DEF Cell
  <2> QED BY <2>1, <2>2
<1>9. ASSUME NEW S \in SUBSET shared
      PROVE  IsFiniteSet({Cell(e) : e \in S}) /\ Cardinality({Cell(e) : e \in S}) = Cardinality(S)
  <2> DEFINE T == {Cell(e) : e \in S}
             g == [e \in S |-> Cell(e)]
  <2>1. IsFiniteSet(S)
    BY <1>7, FS_Subset
  <2>2. g \in Surjection(S, T)
    BY DEF Surjection
  <2>3. g \in Injection(S, T)
    <3>1. ASSUME NEW e \in S, NEW f \in S, g[e] = g[f] PROVE e = f
      <4>1. Cell(e) = Cell(f)
        BY <3>1
      <4>2. e[2] = f[2]
        BY <4>1
      <4> QED BY <1>6, <4>2
    <3>2. g \in [S -> T]
      OBVIOUS
    <3> HIDE DEF g, T
    <3> QED BY <3>1, <3>2 DEF Injection, IsInjective
  <2> HIDE DEF g, T
  <2>4. IsFiniteSet(T) /\ Cardinality(T) = Cardinality(S)
    BY <2>1, <2>2, <2>3, FS_Surjection
  <2> QED BY <2>4 DEF T
<1>10. IsFiniteSet(scored) /\ Cardinality(scored) = Cardinality(shared) /\ scored \subseteq Scores
  <2>1. scored \subseteq Scores
    <3> HIDE DEF Cell, scored
    <3> QED BY <1>5, <1>8
  <2> HIDE DEF scored, Cell
  <2>2. shared \in SUBSET shared
    OBVIOUS
  <2> QED BY <1>8, <1>9, <2>1, <2>2
<1>11. ASSUME NEW e \in shared
       PROVE  Cardinality({d \in scored : Better(d, Cell(e))}) = Cardinality(Before(q, e))
  <2>1. \A f \in shared : Better(Cell(f), Cell(e)) <=> Closer(q, f, e)
    BY DEF Better, Closer
  <2>0. Before(q, e) = {f \in shared : Closer(q, f, e)}
    BY DEF Before, shared
  <2> HIDE DEF Cell, scored
  <2>2. {d \in scored : Better(d, Cell(e))} = {Cell(f) : f \in Before(q, e)}
    BY <1>8, <2>0, <2>1
  <2>3. Before(q, e) \in SUBSET shared
    BY <2>0
  <2> QED BY <1>9, <2>2, <2>3
<1>12. recommender(q) = AnswerOf(scored)
  BY DEF recommender, AnswerOf
<1> HIDE DEF scored
<1>13. /\ Len(recommender(q)) = Min({TopCount, Cardinality(scored)})
       /\ \A c \in scored : \A i \in Nat :
            i = Cardinality({d \in scored : Better(d, c)}) + 1 /\ i <= TopCount => recommender(q)[i] = c.word
  <2>1. IsFiniteSet(scored) /\ scored \subseteq Scores
    BY <1>10
  <2> QED BY <1>12, <2>1, AnswerFacts
<1>14. Len(recommender(q)) = Min({TopCount, Cardinality(shared)})
  BY <1>10, <1>13
<1>15. ASSUME NEW e \in shared, Cardinality(Before(q, e)) + 1 <= TopCount
       PROVE  recommender(q)[Cardinality(Before(q, e)) + 1] = e[2]
  <2>1. Cell(e) \in scored /\ Cell(e).word = e[2]
    BY <1>8
  <2>2. Cardinality(Before(q, e)) \in Nat
    <3>1. Before(q, e) \in SUBSET shared
      BY DEF Before, shared
    <3>2. IsFiniteSet(Before(q, e))
      BY <1>7, <3>1, FS_Subset
    <3> QED BY <3>2, FS_CardinalityType
  <2> HIDE DEF Cell
  <2>3. Cardinality(Before(q, e)) + 1 \in Nat
    BY <2>2
  <2> QED BY <1>11, <1>13, <1>15, <2>1, <2>3, Zenon
<1> QED BY <1>14, <1>15, Zenon DEF shared

-----------------------------------------------------------------------------
(***************************************************************************)
(* The page library.                                                        *)
(***************************************************************************)

\* Pages are in the order of their items, without repetition.
ItemOrder == \A i, j \in 1 .. Len(pageLib) : i < j => pageLib[i] < pageLib[j]

\* The pages before the iterator slow, and the one at it once the inner loop
\* has begun, stay in the list.
Settled == IF lpc = "fast" THEN slow ELSE slow - 1

\* Nothing after a settled page is near it, as far as the loops have come.
Apart(i, j) == <<pageLib[j], pageLib[i]>> \notin near
Compared ==
  /\ \A i, j \in 1 .. Len(pageLib) : i < slow /\ i < j => Apart(i, j)
  /\ lpc = "fast" => \A j \in slow + 1 .. fast - 1 : Apart(slow, j)

\* What was read is in the list or near a settled earlier page.
Accounted(p) ==
  \/ \E i \in 1 .. Len(pageLib) : pageLib[i] = p
  \/ \E i \in 1 .. Len(pageLib) : i <= Settled /\ pageLib[i] < p /\ <<pageLib[i], p>> \in near

LibInv ==
  /\ lpc \in {"read", "slow", "fast", "create", "insert", "done", "dead"}
  /\ items \in Seq(Items)
  /\ pageLib \in Seq(Nat)
  /\ slow \in Nat \ {0} /\ fast \in Nat \ {0}
  /\ \A p, q \in Nat : <<p, q>> \in near => <<q, p>> \in near
  /\ ItemOrder
  /\ lpc = "read" =>
       /\ slow = 1
       /\ \A i \in 1 .. Len(pageLib) : pageLib[i] < fast
       /\ \A p \in DOMAIN items : p < fast /\ items[p].kind = "page" => Accounted(p)
  /\ lpc = "fast" => slow <= Len(pageLib) /\ slow < fast /\ fast <= Len(pageLib) + 1
  /\ lpc \in {"slow", "fast"} => Compared
  /\ lpc \in {"create", "insert", "done"} => slow > Len(pageLib) /\ Compared
  /\ lpc \notin {"read", "dead"} =>
       \A p \in DOMAIN items : items[p].kind = "page" => Accounted(p)

LEMMA LibInvInit == LibInit => LibInv
<1> SUFFICES ASSUME LibInit PROVE LibInv
  OBVIOUS
<1>0. PICK n \in 0 .. MaxItems :
        \E rss \in [1 .. n -> Items], pairs \in SUBSET {p \in Pages \X Pages : p[1] < p[2] /\ p[2] <= n} :
          LibStart(rss, pairs)
  BY DEF LibInit
<1>1. PICK rss \in [1 .. n -> Items],
           pairs \in SUBSET {p \in Pages \X Pages : p[1] < p[2] /\ p[2] <= n} : LibStart(rss, pairs)
  BY <1>0
<1>2. /\ lpc = "read" /\ items = rss /\ pageLib = <<>> /\ slow = 1 /\ fast = 1
      /\ near = {p \in Pages \X Pages : p[1] = p[2] \/ p \in pairs \/ <<p[2], p[1]>> \in pairs}
  BY <1>1 DEF LibStart
<1>3. items \in Seq(Items) /\ DOMAIN items = 1 .. n
  BY <1>2, PageLibraryAssumption
<1>4. ASSUME NEW p \in Nat, NEW q \in Nat, <<p, q>> \in near PROVE <<q, p>> \in near
  BY <1>2, <1>4
<1> QED BY <1>2, <1>3, <1>4, EmptySeq DEF LibInv, ItemOrder

\* An item is read.
LEMMA ReadStep == LibInv /\ ReadItem => LibInv'
<1> SUFFICES ASSUME LibInv, ReadItem PROVE LibInv'
  OBVIOUS
<1>1. /\ lpc = "read" /\ fast \in 1 .. Len(items) /\ fast' = fast + 1
      /\ lpc' \in {"read", "dead"}
      /\ pageLib' = IF items[fast].kind = "page" THEN Append(pageLib, fast) ELSE pageLib
      /\ UNCHANGED <<items, near, slow>>
  BY DEF ReadItem, LibInv
<1>2. /\ pageLib \in Seq(Nat) /\ slow = 1 /\ ItemOrder
      /\ \A i \in 1 .. Len(pageLib) : pageLib[i] < fast
      /\ \A p \in DOMAIN items : p < fast /\ items[p].kind = "page" => Accounted(p)
  BY <1>1 DEF LibInv
<1>3. \A p : Accounted(p) <=> \E i \in 1 .. Len(pageLib) : pageLib[i] = p
  <2>1. Settled = 0
    BY <1>1, <1>2 DEF Settled
  <2>2. \A i \in 1 .. Len(pageLib) : ~(i <= Settled)
    BY <1>2, <2>1
  <2> QED BY <2>2 DEF Accounted
<1>4. /\ pageLib' \in Seq(Nat) /\ ItemOrder'
      /\ \A i \in 1 .. Len(pageLib') : pageLib'[i] < fast'
      /\ \A p \in DOMAIN items : p < fast' /\ items[p].kind = "page" =>
           \E i \in 1 .. Len(pageLib') : pageLib'[i] = p
  <2>1. CASE items[fast].kind = "page"
    <3>1. /\ pageLib' \in Seq(Nat) /\ Len(pageLib') = Len(pageLib) + 1
          /\ \A i \in 1 .. Len(pageLib) : pageLib'[i] = pageLib[i]
          /\ pageLib'[Len(pageLib) + 1] = fast
      BY <1>1, <1>2, <2>1, AppendProperties
    <3> HIDE <2>1
    <3>2. ASSUME NEW i \in 1 .. Len(pageLib') PROVE pageLib'[i] < fast'
      BY <1>1, <1>2, <3>1
    <3>3. ASSUME NEW i \in 1 .. Len(pageLib'), NEW j \in 1 .. Len(pageLib'), i < j
          PROVE  pageLib'[i] < pageLib'[j]
      <4>1. i \in 1 .. Len(pageLib)
        BY <1>2, <3>1, <3>3
      <4>2. CASE j \in 1 .. Len(pageLib)
        BY <1>2, <3>1, <3>3, <4>1, <4>2 DEF ItemOrder
      <4>3. CASE j = Len(pageLib) + 1
        BY <1>2, <3>1, <4>1, <4>3
      <4> QED BY <1>2, <3>1, <4>2, <4>3
    <3>4. ASSUME NEW p \in DOMAIN items, p < fast', items[p].kind = "page"
          PROVE  \E i \in 1 .. Len(pageLib') : pageLib'[i] = p
      <4>1. CASE p = fast
        BY <1>2, <3>1, <4>1
      <4>2. CASE p # fast
        <5>1. p < fast
          BY <1>1, <3>4, <4>2 DEF LibInv
        <5>2. PICK i \in 1 .. Len(pageLib) : pageLib[i] = p
          BY <1>2, <1>3, <3>4, <5>1
        <5> QED BY <1>2, <3>1, <5>2
      <4> QED BY <4>1, <4>2
    <3> QED BY <3>1, <3>2, <3>3, <3>4 DEF ItemOrder
  <2>2. CASE items[fast].kind # "page"
    <3>1. \A p \in DOMAIN items : p < fast + 1 => p < fast \/ p = fast
      BY <1>1 DEF LibInv
    <3> QED BY <1>1, <1>2, <1>3, <2>2, <3>1 DEF ItemOrder, LibInv
  <2> QED BY <2>1, <2>2
<1> QED BY <1>1, <1>2, <1>4, SMTT(30) DEF LibInv, Accounted

\* The inner loop keeps or erases a page.
LEMMA FastStep == LibInv /\ Fast => LibInv'
<1> SUFFICES ASSUME LibInv, Fast PROVE LibInv'
  OBVIOUS
<1>1. /\ lpc = "fast" /\ lpc' = "fast" /\ fast <= Len(pageLib)
      /\ UNCHANGED <<items, near, slow>>
      /\ pageLib \in Seq(Nat) /\ Len(pageLib) \in Nat
      /\ slow \in 1 .. Len(pageLib) /\ fast \in 1 .. Len(pageLib) /\ slow < fast
      /\ ItemOrder /\ Compared
      /\ \A p \in DOMAIN items : items[p].kind = "page" => Accounted(p)
  BY DEF Fast, LibInv
<1>2. CASE <<pageLib[fast], pageLib[slow]>> \in near
  <2> DEFINE old(i) == IF i < fast THEN i ELSE i + 1
             n == Len(pageLib)
  <2>1. /\ pageLib' = SubSeq(pageLib, 1, fast - 1) \o SubSeq(pageLib, fast + 1, Len(pageLib))
        /\ fast' = fast
    BY <1>2 DEF Fast
  <2>2. /\ pageLib' \in Seq(Nat) /\ Len(pageLib') = n - 1
        /\ \A i \in 1 .. n - 1 : pageLib'[i] = pageLib[old(i)]
    BY <1>1, <2>1, EraseFacts
  <2>3. \A i \in 1 .. n - 1 : old(i) \in 1 .. n /\ (i < fast => old(i) = i)
    BY <1>1
  <2>4. \A i, j \in 1 .. n - 1 : i < j => old(i) < old(j)
    BY <1>1
  <2> HIDE DEF old, n
  <2>5. ItemOrder'
    BY <2>2, <2>3, <2>4, <1>1 DEF ItemOrder, n
  <2>6. slow \in 1 .. n - 1 /\ old(slow) = slow /\ n \in Nat
    BY <1>1, <2>3 DEF n
  <2>7. ASSUME NEW i \in 1 .. n - 1, NEW j \in 1 .. n - 1, i < slow, i < j
        PROVE  <<pageLib'[j], pageLib'[i]>> \notin near
    <3>1. i < fast /\ old(i) = i /\ old(i) < old(j)
      BY <1>1, <2>3, <2>4, <2>7
    <3> QED BY <1>1, <2>2, <2>3, <2>7, <3>1 DEF Compared, Apart, n
  <2>8. ASSUME NEW j \in slow + 1 .. fast - 1 PROVE <<pageLib'[j], pageLib'[slow]>> \notin near
    <3>1. j \in 1 .. n - 1 /\ j < fast /\ old(j) = j
      BY <1>1, <2>3 DEF n
    <3> QED BY <1>1, <2>2, <2>6, <3>1 DEF Compared, Apart
  <2>9. Compared'
    BY <1>1, <2>1, <2>2, <2>7, <2>8 DEF Compared, Apart
  <2>10. ASSUME NEW p \in DOMAIN items, items[p].kind = "page" PROVE Accounted(p)'
    <3>1. CASE \E i \in 1 .. n : pageLib[i] = p
      <4>1. PICK i \in 1 .. n : pageLib[i] = p
        BY <3>1
      <4>2. CASE i = fast
        <5>1. pageLib'[slow] < p /\ <<pageLib'[slow], p>> \in near
          <6>1. pageLib[slow] < p
            BY <1>1, <4>1, <4>2 DEF ItemOrder
          <6>2. <<p, pageLib[slow]>> \in near /\ p \in Nat /\ pageLib[slow] \in Nat
            BY <1>1, <1>2, <4>1, <4>2, SMTT(30)
          <6> QED BY <2>2, <2>6, <6>1, <6>2 DEF LibInv
        <5>2. Settled' = slow /\ slow \in 1 .. Len(pageLib') /\ near' = near
          BY <1>1, <2>2, <2>6 DEF Settled
        <5>3. slow <= Settled'
          BY <2>6, <5>2
        <5> QED BY <5>1, <5>2, <5>3 DEF Accounted
      <4>3. CASE i # fast
        <5>1. PICK k \in 1 .. n - 1 : old(k) = i
          <6>1. CASE i < fast
            BY <1>1, <6>1 DEF old, n
          <6>2. CASE i > fast
            <7>1. i - 1 \in 1 .. n - 1 /\ ~(i - 1 < fast) /\ i - 1 + 1 = i
              BY <1>1, <6>2 DEF n
            <7>2. old(i - 1) = i
              BY <7>1 DEF old
            <7> QED BY <7>1, <7>2
          <6>3. i < fast \/ i > fast
            BY <1>1, <4>3 DEF n
          <6> QED BY <6>1, <6>2, <6>3
        <5> QED BY <2>2, <4>1, <5>1 DEF Accounted
      <4> QED BY <4>2, <4>3
    <3>2. CASE \E i \in 1 .. n : i <= slow /\ pageLib[i] < p /\ <<pageLib[i], p>> \in near
      <4>1. PICK i \in 1 .. n : i <= slow /\ pageLib[i] < p /\ <<pageLib[i], p>> \in near
        BY <3>2
      <4>2. i \in 1 .. n - 1 /\ i < fast /\ old(i) = i
        BY <1>1, <2>3, <2>6, <4>1
      <4>3. pageLib'[i] = pageLib[i]
        BY <2>2, <4>2
      <4> QED BY <1>1, <2>2, <4>1, <4>2, <4>3 DEF Accounted, Settled
    <3> QED BY <1>1, <2>10, <3>1, <3>2 DEF Accounted, Settled, n
  <2>11. fast' <= Len(pageLib') + 1 /\ slow <= Len(pageLib')
    <3>1. fast <= n - 1 + 1 /\ slow <= n - 1
      BY <1>1 DEF n
    <3> QED BY <2>1, <2>2, <3>1
  <2> QED BY <1>1, <2>1, <2>2, <2>5, <2>9, <2>10, <2>11 DEF LibInv
<1>3. CASE <<pageLib[fast], pageLib[slow]>> \notin near
  <2>1. fast' = fast + 1 /\ UNCHANGED pageLib
    BY <1>3 DEF Fast
  <2>2. \A j \in slow + 1 .. fast : j \in slow + 1 .. fast - 1 \/ j = fast
    BY <1>1
  <2>3. Compared'
    <3>1. fast' - 1 = fast
      BY <1>1, <2>1
    <3>2. \A j \in slow + 1 .. fast : Apart(slow, j)
      BY <1>1, <1>3, <2>2 DEF Compared, Apart
    <3> QED BY <1>1, <2>1, <3>1, <3>2 DEF Compared, Apart
  <2>4. \A p : Accounted(p) => Accounted(p)'
    BY <1>1, <2>1 DEF Accounted, Settled
  <2>5. ItemOrder'
    BY <1>1, <2>1 DEF ItemOrder
  <2> QED BY <1>1, <2>1, <2>3, <2>4, <2>5 DEF LibInv
<1> QED BY <1>2, <1>3

LEMMA LibStep == LibInv /\ [LibNext]_libVars => LibInv'
<1> SUFFICES ASSUME LibInv, [LibNext]_libVars PROVE LibInv'
  OBVIOUS
<1>1. CASE UNCHANGED libVars
  BY <1>1 DEF libVars, LibInv, ItemOrder, Compared, Apart, Accounted, Settled
<1>2. CASE ItemsRead
  <2>1. /\ lpc = "read" /\ fast > Len(items) /\ lpc' = "slow"
        /\ UNCHANGED <<items, near, pageLib, slow, fast>>
    BY <1>2 DEF ItemsRead
  <2>2. slow = 1 /\ (\A p \in DOMAIN items : p < fast)
    BY <2>1 DEF LibInv
  <2>3. \A p \in DOMAIN items : items[p].kind = "page" => Accounted(p)'
    BY <2>1, <2>2 DEF LibInv, Accounted, Settled
  <2>4. Compared'
    BY <2>1, <2>2 DEF Compared, LibInv
  <2> QED BY <2>1, <2>3, <2>4 DEF LibInv, ItemOrder
<1>3. CASE Slow
  <2>1. /\ lpc = "slow" /\ fast' = slow + 1
        /\ lpc' = IF slow <= Len(pageLib) THEN "fast" ELSE "create"
        /\ UNCHANGED <<items, near, pageLib, slow>>
    BY <1>3 DEF Slow
  <2>2. slow \in Nat \ {0} /\ Len(pageLib) \in Nat
    BY DEF LibInv
  <2>3. Compared'
    BY <2>1, <2>2 DEF Compared, Apart, LibInv
  <2>4. \A p : Accounted(p) => Accounted(p)'
    <3>1. \A i \in 1 .. Len(pageLib) : i <= Settled => i <= Settled'
      BY <2>1, <2>2 DEF Settled
    <3> QED BY <2>1, <3>1 DEF Accounted
  <2> QED BY <2>1, <2>2, <2>3, <2>4 DEF LibInv, ItemOrder
<1>4. CASE FastEnd
  <2>1. /\ lpc = "fast" /\ fast > Len(pageLib) /\ slow' = slow + 1 /\ lpc' = "slow"
        /\ UNCHANGED <<items, near, pageLib, fast>>
    BY <1>4 DEF FastEnd
  <2>2. /\ slow \in Nat \ {0} /\ fast \in Nat \ {0} /\ Len(pageLib) \in Nat
        /\ fast = Len(pageLib) + 1
    BY <2>1 DEF LibInv
  <2>3. Compared'
    <3>1. ASSUME NEW i \in 1 .. Len(pageLib), NEW j \in 1 .. Len(pageLib), i < slow + 1, i < j
          PROVE  Apart(i, j)
      <4>1. CASE i < slow
        BY <2>1, <3>1, <4>1 DEF LibInv, Compared
      <4>2. CASE i = slow
        <5>1. j \in slow + 1 .. fast - 1
          BY <2>2, <3>1, <4>2
        <5> QED BY <2>1, <4>2, <5>1 DEF LibInv, Compared
      <4> QED BY <2>2, <3>1, <4>1, <4>2
    <3> QED BY <2>1, <3>1 DEF Compared, Apart
  <2>4. \A p : Accounted(p) => Accounted(p)'
    BY <2>1, <2>2 DEF Accounted, Settled
  <2> QED BY <2>1, <2>2, <2>3, <2>4 DEF LibInv, ItemOrder
<1>5. CASE CreateXml \/ BuildInvertIndex
  <2>1. /\ lpc \in {"create", "insert"} /\ lpc' \in {"insert", "done"}
        /\ UNCHANGED <<items, near, pageLib, slow, fast>>
    BY <1>5 DEF CreateXml, BuildInvertIndex
  <2>2. Compared' /\ \A p : Accounted(p) => Accounted(p)'
    BY <2>1 DEF LibInv, Compared, Apart, Accounted, Settled
  <2> QED BY <2>1, <2>2 DEF LibInv, ItemOrder
<1> QED BY <1>1, <1>2, <1>3, <1>4, <1>5, ReadStep, FastStep DEF LibNext

\* For every relation of nearness, transitive or not, no two pages that are
\* written are near each other, and none was dropped without an earlier one
\* near it that stayed.
LEMMA LibInvDistinct == LibInv => NoNearDuplicates
<1> SUFFICES ASSUME LibInv, lpc \in {"create", "insert", "done"} PROVE NoNearDuplicates
  BY DEF NoNearDuplicates
<1> DEFINE kept == {pageLib[n] : n \in DOMAIN pageLib}
<1>1. /\ pageLib \in Seq(Nat) /\ DOMAIN pageLib = 1 .. Len(pageLib) /\ Len(pageLib) \in Nat
      /\ slow \in Nat /\ slow > Len(pageLib)
  BY DEF LibInv
<1>2. ASSUME NEW p \in kept, NEW q \in kept, p # q PROVE <<p, q>> \notin near
  <2>1. PICK i \in 1 .. Len(pageLib) : pageLib[i] = p
    BY <1>1
  <2>2. PICK j \in 1 .. Len(pageLib) : pageLib[j] = q
    BY <1>1
  <2>3. p \in Nat /\ q \in Nat /\ (<<p, q>> \in near => <<q, p>> \in near)
    BY <1>1, <2>1, <2>2 DEF LibInv
  <2>4. CASE i < j
    BY <1>1, <2>1, <2>2, <2>3, <2>4 DEF LibInv, Compared, Apart
  <2>5. CASE j < i
    BY <1>1, <2>1, <2>2, <2>5 DEF LibInv, Compared, Apart
  <2>6. i < j \/ j < i
    BY <1>2, <2>1, <2>2
  <2> QED BY <2>4, <2>5, <2>6
<1>3. ASSUME NEW p \in DOMAIN items, items[p].kind = "page", p \notin kept
      PROVE  \E q \in kept : q < p /\ <<q, p>> \in near
  BY <1>1, <1>3 DEF LibInv, Accounted
<1> QED BY <1>2, <1>3 DEF NoNearDuplicates

-----------------------------------------------------------------------------
(***************************************************************************)
(* The tables and the search.                                               *)
(***************************************************************************)

PageRows == {<<n, pageLib[n]>> : n \in DOMAIN pageLib}
IndexRows == UNION {WordsOf(n) \X {n} : n \in {m \in DOMAIN pageLib : ~NotANumber(m)}}

\* Each table holds only what its loop wrote, and all of it when no INSERT
\* failed.
TableInv ==
  /\ lost \in Nat
  /\ \A i \in 1 .. Len(pageLib) : pageLib[i] \in DOMAIN items
  /\ lpc \in {"insert", "done"} => webPageLib \subseteq PageRows /\ (lost = 0 => webPageLib = PageRows)
  /\ lpc = "done" => invertLib \subseteq IndexRows /\ (lost = 0 => invertLib = IndexRows)

LEMMA InsertFacts ==
  ASSUME NEW table, NEW rows, IsFiniteSet(rows), lost \in Nat, Insert(table, rows)
  PROVE  /\ table \subseteq rows /\ lost' \in Nat /\ lost' >= lost
         /\ lost' = 0 => table = rows
<1>1. PICK done \in SUBSET rows : lost' = lost + Cardinality(rows \ done) /\ table = done
  BY DEF Insert
<1>2. IsFiniteSet(rows \ done) /\ Cardinality(rows \ done) \in Nat
  BY FS_Difference, FS_CardinalityType
<1>3. lost' = 0 => rows \ done = {}
  <2>1. lost' = 0 => Cardinality(rows \ done) = 0
    BY <1>1, <1>2
  <2> QED BY <1>2, <2>1, FS_EmptySet
<1> QED BY <1>1, <1>2, <1>3

LEMMA RowsFinite ==
  ASSUME LibInv, TableInv
  PROVE  /\ IsFiniteSet(PageRows) /\ IsFiniteSet(IndexRows)
         /\ \A n \in DOMAIN pageLib : WordsOf(n) \subseteq Words
<1>1. /\ DOMAIN pageLib = 1 .. Len(pageLib) /\ Len(pageLib) \in Nat
      /\ DOMAIN items = 1 .. Len(items) /\ Len(items) \in Nat
  BY DEF LibInv
<1>2. IsFiniteSet(DOMAIN pageLib) /\ IsFiniteSet(DOMAIN items)
  <2>1. 1 \in Int /\ Len(pageLib) \in Int /\ Len(items) \in Int
    BY <1>1
  <2> QED BY <1>1, <2>1, FS_Interval
<1>3. PageRows \subseteq (DOMAIN pageLib) \X (DOMAIN items)
  <2> SUFFICES ASSUME NEW n \in DOMAIN pageLib
               PROVE  <<n, pageLib[n]>> \in (DOMAIN pageLib) \X (DOMAIN items)
    BY DEF PageRows
  <2>1. pageLib[n] \in DOMAIN items
    BY <1>1 DEF TableInv
  <2> QED BY <2>1
<1>4. \A n \in DOMAIN pageLib : WordsOf(n) \subseteq Words
  <2> SUFFICES ASSUME NEW n \in DOMAIN pageLib PROVE WordsOf(n) \subseteq Words
    OBVIOUS
  <2>1. items[pageLib[n]] \in Items
    BY <1>1 DEF LibInv, TableInv
  <2>2. items[pageLib[n]].words \subseteq Words
    BY <2>1 DEF Items
  <2> QED BY <2>2 DEF WordsOf
<1>5. IndexRows \subseteq Words \X (DOMAIN pageLib)
  BY <1>4 DEF IndexRows
<1>6. IsFiniteSet((DOMAIN pageLib) \X (DOMAIN items)) /\ IsFiniteSet(Words \X (DOMAIN pageLib))
  <2>1. IsFiniteSet(Words)
    BY PageLibraryAssumption
  <2> QED BY <1>2, <2>1, FS_Product
<1>7. IsFiniteSet(PageRows) /\ IsFiniteSet(IndexRows)
  BY <1>3, <1>5, <1>6, FS_Subset
<1> QED BY <1>4, <1>7

LEMMA TableStep == LibInv /\ TableInv /\ [LibNext]_libVars => TableInv'
<1> SUFFICES ASSUME LibInv, TableInv, [LibNext]_libVars PROVE TableInv'
  OBVIOUS
<1> USE DEF TableInv
<1>1. CASE UNCHANGED libVars
  BY <1>1 DEF libVars, PageRows, IndexRows, WordsOf, NotANumber, PagesWith
<1>2. CASE ReadItem
  <2>1. /\ pageLib \in Seq(Nat) /\ fast \in DOMAIN items /\ UNCHANGED <<items, lost>>
        /\ lpc' \in {"read", "dead"}
        /\ pageLib' = IF items[fast].kind = "page" THEN Append(pageLib, fast) ELSE pageLib
    BY <1>2 DEF ReadItem, LibInv
  <2>2. CASE items[fast].kind = "page"
    <3>1. /\ Len(pageLib') = Len(pageLib) + 1 /\ Len(pageLib) \in Nat
          /\ \A i \in 1 .. Len(pageLib) : pageLib'[i] = pageLib[i]
          /\ pageLib'[Len(pageLib) + 1] = fast
      BY <1>2, <2>1, <2>2, AppendProperties DEF ReadItem, LibInv
    <3>2. \A i \in 1 .. Len(pageLib') : i \in 1 .. Len(pageLib) \/ i = Len(pageLib) + 1
      BY <3>1
    <3> QED BY <2>1, <3>1, <3>2
  <2>3. CASE items[fast].kind # "page"
    BY <2>1, <2>3
  <2> QED BY <2>2, <2>3
<1>3. CASE Fast
  <2>1. /\ pageLib \in Seq(Nat) /\ fast \in 1 .. Len(pageLib) /\ lpc' = "fast"
        /\ UNCHANGED <<items, lost>>
    BY <1>3 DEF Fast, LibInv
  <2>2. \/ pageLib' = SubSeq(pageLib, 1, fast - 1) \o SubSeq(pageLib, fast + 1, Len(pageLib))
        \/ UNCHANGED pageLib
    BY <1>3 DEF Fast
  <2>3. CASE pageLib' = SubSeq(pageLib, 1, fast - 1) \o SubSeq(pageLib, fast + 1, Len(pageLib))
    <3>0. Len(pageLib) \in Nat
      BY <2>1
    <3>1. /\ Len(pageLib') = Len(pageLib) - 1
          /\ \A i \in 1 .. Len(pageLib) - 1 :
               pageLib'[i] = IF i < fast THEN pageLib[i] ELSE pageLib[i + 1]
      BY <2>1, <2>3, EraseFacts
    <3>2. \A i \in 1 .. Len(pageLib) - 1 : i \in 1 .. Len(pageLib) /\ i + 1 \in 1 .. Len(pageLib)
      BY <3>0
    <3> QED BY <2>1, <3>1, <3>2
  <2>4. CASE UNCHANGED pageLib
    BY <2>1, <2>4
  <2> QED BY <2>2, <2>3, <2>4
<1>4. CASE ItemsRead \/ Slow \/ FastEnd
  BY <1>4 DEF ItemsRead, Slow, FastEnd
<1>5. CASE CreateXml
  <2>1. /\ Insert(webPageLib', PageRows) /\ lpc' = "insert"
        /\ UNCHANGED <<items, pageLib>>
    BY <1>5 DEF CreateXml, PageRows
  <2>2. /\ webPageLib' \subseteq PageRows /\ lost' \in Nat
        /\ lost' = 0 => webPageLib' = PageRows
    BY <2>1, RowsFinite, InsertFacts
  <2>3. PageRows' = PageRows
    BY <2>1 DEF PageRows
  <2> QED BY <2>1, <2>2, <2>3
<1>6. CASE BuildInvertIndex
  <2>1. /\ lpc = "insert" /\ lpc' = "done" /\ UNCHANGED <<items, pageLib, webPageLib>>
        /\ Insert(invertLib', IndexRows) \/ (invertLib' = {} /\ lost' = MaxLost + 1)
    BY <1>6 DEF BuildInvertIndex, IndexRows
  <2>2. /\ invertLib' \subseteq IndexRows /\ lost' \in Nat
        /\ lost' = 0 => invertLib' = IndexRows /\ lost = 0
    <3>1. CASE Insert(invertLib', IndexRows)
      BY <3>1, RowsFinite, InsertFacts
    <3>2. CASE invertLib' = {} /\ lost' = MaxLost + 1
      BY <3>2, PageLibraryAssumption
    <3> QED BY <2>1, <3>1, <3>2
  <2>3. PageRows' = PageRows /\ IndexRows' = IndexRows
    BY <2>1 DEF PageRows, IndexRows, WordsOf, NotANumber, PagesWith
  <2> QED BY <2>1, <2>2, <2>3
<1> QED BY <1>1, <1>2, <1>3, <1>4, <1>5, <1>6 DEF LibNext

\* Counting a page's rows is as good as looking for each word.
LEMMA HitsAll ==
  ASSUME NEW id, NEW words \in SUBSET Words
  PROVE  Hits(id, words) > 0 /\ Hits(id, words) = Cardinality(words)
           <=> words # {} /\ \A w \in words : <<w, id>> \in invertLib
<1> DEFINE hit == {w \in words : <<w, id>> \in invertLib}
<1>1. IsFiniteSet(words) /\ IsFiniteSet(hit)
  BY PageLibraryAssumption, FS_Subset
<1>2. Hits(id, words) = Cardinality(hit)
  BY DEF Hits
<1>3. Cardinality(hit) \in Nat /\ (Cardinality(hit) = 0 <=> hit = {})
  BY <1>1, FS_CardinalityType, FS_EmptySet
<1>4. Cardinality(words) = Cardinality(hit) => words = hit
  BY <1>1, FS_Subset
<1>5. words = hit <=> \A w \in words : <<w, id>> \in invertLib
  OBVIOUS
<1> HIDE DEF hit
<1> QED BY <1>2, <1>3, <1>4, <1>5

\* Whatever INSERTs failed, a search finds no page without one of its words;
\* when none failed it finds all pages that hold them, except those whose
\* weights are not numbers.
LEMMA TableInvExact == LibInv /\ TableInv => FoundExactly
<1> SUFFICES ASSUME LibInv, TableInv, lpc = "done", NEW sentence \in SUBSET Words
             PROVE  LET words == QueryWords(sentence)
                        holding == {n \in DOMAIN pageLib : words \subseteq items[pageLib[n]].words}
                    IN /\ doQuery(sentence) \subseteq {pageLib[n] : n \in holding}
                       /\ lost = 0 /\ words # {} /\ words \intersect BuilderStops = {} =>
                            doQuery(sentence) = {pageLib[n] : n \in {m \in holding : ~NotANumber(m)}}
  BY DEF FoundExactly
<1> DEFINE words == QueryWords(sentence)
           holding == {n \in DOMAIN pageLib : words \subseteq items[pageLib[n]].words}
           All(n) == words # {} /\ \A w \in words : <<w, n>> \in invertLib
<1>0. words \in SUBSET Words
  BY DEF QueryWords
<1>1. \A p : p \in doQuery(sentence) <=> \E n : <<n, p>> \in webPageLib /\ All(n)
  <2>1. \A n : All(n) <=> Hits(n, words) > 0 /\ Hits(n, words) = Cardinality(words)
    BY <1>0, HitsAll
  <2>2. ASSUME NEW n, All(n) PROVE n \in {row[2] : row \in invertLib}
    <3>1. PICK w \in words : <<w, n>> \in invertLib
      BY <2>2
    <3>2. <<w, n>>[2] = n
      OBVIOUS
    <3> QED BY <3>1, <3>2
  <2>3. webPageLib \subseteq PageRows
    BY DEF TableInv
  <2> HIDE DEF All, words
  <2>4. doQuery(sentence) =
          {page[2] : page \in {row \in webPageLib :
             row[1] \in {id \in {r[2] : r \in invertLib} :
                            Hits(id, words) > 0 /\ Hits(id, words) = Cardinality(words)}}}
    BY DEF doQuery, words
  <2>5. doQuery(sentence) = {page[2] : page \in {row \in webPageLib : All(row[1])}}
    BY <2>1, <2>2, <2>4
  <2>6. \A row \in webPageLib : row = <<row[1], row[2]>>
    BY <2>3 DEF PageRows
  <2> QED BY <2>5, <2>6
<1>2. \A n, p : <<n, p>> \in webPageLib => n \in DOMAIN pageLib /\ p = pageLib[n]
  BY DEF TableInv, PageRows
<1>3. \A w, n : <<w, n>> \in invertLib =>
        n \in DOMAIN pageLib /\ ~NotANumber(n) /\ w \in WordsOf(n)
  BY DEF TableInv, IndexRows
<1>4. \A n : WordsOf(n) = items[pageLib[n]].words \ BuilderStops
  BY DEF WordsOf
<1>5. doQuery(sentence) \subseteq {pageLib[n] : n \in holding}
  <2> SUFFICES ASSUME NEW p \in doQuery(sentence) PROVE p \in {pageLib[n] : n \in holding}
    OBVIOUS
  <2>1. PICK n : <<n, p>> \in webPageLib /\ All(n)
    BY <1>1
  <2>2. n \in holding /\ p = pageLib[n]
    BY <1>2, <1>3, <1>4, <2>1
  <2> QED BY <2>2
<1>6. ASSUME lost = 0, words # {}, words \intersect BuilderStops = {}
      PROVE  doQuery(sentence) = {pageLib[n] : n \in {m \in holding : ~NotANumber(m)}}
  <2>1. ASSUME NEW p \in doQuery(sentence)
        PROVE  \E n \in holding : ~NotANumber(n) /\ p = pageLib[n]
    <3>1. PICK n : <<n, p>> \in webPageLib /\ All(n)
      BY <1>1, <2>1
    <3>2. n \in holding /\ p = pageLib[n]
      BY <1>2, <1>3, <1>4, <3>1
    <3>3. ~NotANumber(n)
      BY <1>3, <3>1
    <3> QED BY <3>2, <3>3
  <2>2. ASSUME NEW n \in holding, ~NotANumber(n) PROVE pageLib[n] \in doQuery(sentence)
    <3>1. <<n, pageLib[n]>> \in webPageLib
      BY <1>6 DEF TableInv, PageRows
    <3>2. \A w \in words : <<w, n>> \in invertLib
      <4>1. invertLib = IndexRows
        BY <1>6 DEF TableInv
      <4>2. \A w \in words : w \in WordsOf(n)
        BY <1>4, <1>6
      <4> QED BY <2>2, <4>1, <4>2 DEF IndexRows
    <3> QED BY <1>1, <1>6, <3>1, <3>2
  <2> QED BY <2>1, <2>2
<1> QED BY <1>5, <1>6

LEMMA TableStart == LibInit => TableInv
<1> SUFFICES ASSUME LibInit PROVE TableInv
  OBVIOUS
<1>1. lpc = "read" /\ pageLib = <<>> /\ lost = 0
  BY DEF LibInit, LibStart
<1> QED BY <1>1, EmptySeq DEF TableInv

-----------------------------------------------------------------------------
(***************************************************************************)
(* The excerpts.                                                            *)
(***************************************************************************)

\* A text of whole characters.
Whole(t) ==
  /\ t \in Seq({"letter", "lead", "rest"}) /\ Len(t) >= 1
  /\ t[1] # "rest"
  /\ \A i \in 1 .. Len(t) : t[i] = "lead" =>
       /\ i + 2 <= Len(t) /\ t[i + 1] = "rest" /\ t[i + 2] = "rest"
       /\ i + 3 <= Len(t) => t[i + 3] # "rest"
  /\ \A i \in 1 .. Len(t) : t[i] = "letter" /\ i + 1 <= Len(t) => t[i + 1] # "rest"
  /\ \A i \in 1 .. Len(t) : t[i] = "rest" =>
       \/ i >= 2 /\ t[i - 1] = "lead"
       \/ i >= 3 /\ t[i - 1] = "rest" /\ t[i - 2] = "lead"
  /\ (\A i \in 1 .. Len(t) : t[i] # "letter") =>
       Len(t) % 3 = 0 /\ \A i \in 1 .. Len(t) : t[i] = "lead" => i % 3 = 1

LEMMA WholeLetter == Whole(Letter) /\ Len(Letter) = 1
BY DEF Whole, Letter

LEMMA WholeChinese == Whole(Chinese) /\ Len(Chinese) = 3
BY DEF Whole, Chinese

LEMMA WholeAndLetter ==
  ASSUME NEW t, Whole(t)
  PROVE  Whole(t \o Letter)
<1> DEFINE n == Len(t)
           u == t \o Letter
<1>1. /\ n \in Nat /\ n >= 1 /\ u \in Seq({"letter", "lead", "rest"}) /\ Len(u) = n + 1
      /\ \A i \in 1 .. n : u[i] = t[i]
      /\ u[n + 1] = "letter"
  BY DEF Whole, Letter
<1>2. /\ t[1] # "rest"
      /\ \A i \in 1 .. n : t[i] = "lead" =>
           /\ i + 2 <= n /\ t[i + 1] = "rest" /\ t[i + 2] = "rest"
           /\ i + 3 <= n => t[i + 3] # "rest"
      /\ \A i \in 1 .. n : t[i] = "letter" /\ i + 1 <= n => t[i + 1] # "rest"
      /\ \A i \in 1 .. n : t[i] = "rest" =>
           \/ i >= 2 /\ t[i - 1] = "lead"
           \/ i >= 3 /\ t[i - 1] = "rest" /\ t[i - 2] = "lead"
  BY DEF Whole
<1> HIDE DEF u, n
<1>3. \A i \in 1 .. n + 1 : i \in 1 .. n \/ i = n + 1
  BY <1>1
<1>4. Len(u) >= 1 /\ u[1] # "rest"
  BY <1>1, <1>2
<1>5. ASSUME NEW i \in 1 .. n + 1, u[i] = "lead"
      PROVE  /\ i + 2 <= n + 1 /\ u[i + 1] = "rest" /\ u[i + 2] = "rest"
             /\ i + 3 <= n + 1 => u[i + 3] # "rest"
  <2>1. i \in 1 .. n /\ t[i] = "lead"
    BY <1>1, <1>3, <1>5
  <2>2. i + 2 <= n /\ t[i + 1] = "rest" /\ t[i + 2] = "rest" /\ (i + 3 <= n => t[i + 3] # "rest")
    BY <1>2, <2>1
  <2>3. i + 1 \in 1 .. n /\ i + 2 \in 1 .. n /\ (i + 3 <= n + 1 => i + 3 \in 1 .. n \/ i + 3 = n + 1)
    BY <1>1, <2>1, <2>2
  <2> QED BY <1>1, <2>1, <2>2, <2>3
<1>6. ASSUME NEW i \in 1 .. n + 1, u[i] = "letter", i + 1 <= n + 1 PROVE u[i + 1] # "rest"
  <2>1. i \in 1 .. n /\ t[i] = "letter"
    BY <1>1, <1>6
  <2>2. i + 1 \in 1 .. n \/ i + 1 = n + 1
    BY <1>1, <2>1
  <2> QED BY <1>1, <1>2, <2>1, <2>2
<1>7. ASSUME NEW i \in 1 .. n + 1, u[i] = "rest"
      PROVE  \/ i >= 2 /\ u[i - 1] = "lead"
             \/ i >= 3 /\ u[i - 1] = "rest" /\ u[i - 2] = "lead"
  <2>1. i \in 1 .. n /\ t[i] = "rest"
    BY <1>1, <1>3, <1>7
  <2>2. (i >= 2 => i - 1 \in 1 .. n) /\ (i >= 3 => i - 2 \in 1 .. n)
    BY <1>1, <2>1
  <2> QED BY <1>1, <1>2, <2>1, <2>2
<1>8. \E i \in 1 .. n + 1 : u[i] = "letter"
  BY <1>1
<1> HIDE DEF u
<1>9. Whole(u)
  BY <1>1, <1>4, <1>5, <1>6, <1>7, <1>8 DEF Whole
<1> QED BY <1>9 DEF u

LEMMA WholeAndChinese ==
  ASSUME NEW t, Whole(t)
  PROVE  Whole(t \o Chinese)
<1> DEFINE n == Len(t)
           u == t \o Chinese
<1>1. /\ n \in Nat /\ n >= 1 /\ u \in Seq({"letter", "lead", "rest"}) /\ Len(u) = n + 3
      /\ \A i \in 1 .. n : u[i] = t[i]
      /\ u[n + 1] = "lead" /\ u[n + 2] = "rest" /\ u[n + 3] = "rest"
  BY DEF Whole, Chinese
<1>2. /\ t[1] # "rest"
      /\ \A i \in 1 .. n : t[i] = "lead" =>
           /\ i + 2 <= n /\ t[i + 1] = "rest" /\ t[i + 2] = "rest"
           /\ i + 3 <= n => t[i + 3] # "rest"
      /\ \A i \in 1 .. n : t[i] = "letter" /\ i + 1 <= n => t[i + 1] # "rest"
      /\ \A i \in 1 .. n : t[i] = "rest" =>
           \/ i >= 2 /\ t[i - 1] = "lead"
           \/ i >= 3 /\ t[i - 1] = "rest" /\ t[i - 2] = "lead"
      /\ (\A i \in 1 .. n : t[i] # "letter") =>
           n % 3 = 0 /\ \A i \in 1 .. n : t[i] = "lead" => i % 3 = 1
  BY DEF Whole
<1> HIDE DEF u, n
<1>3. \A i \in 1 .. n + 3 : i \in 1 .. n \/ i = n + 1 \/ i = n + 2 \/ i = n + 3
  BY <1>1
<1>4. Len(u) >= 1 /\ u[1] # "rest"
  BY <1>1, <1>2
<1>5. ASSUME NEW i \in 1 .. n + 3, u[i] = "lead"
      PROVE  /\ i + 2 <= n + 3 /\ u[i + 1] = "rest" /\ u[i + 2] = "rest"
             /\ i + 3 <= n + 3 => u[i + 3] # "rest"
  <2>1. CASE i \in 1 .. n
    <3>1. t[i] = "lead"
      BY <1>1, <1>5, <2>1
    <3>2. i + 2 <= n /\ t[i + 1] = "rest" /\ t[i + 2] = "rest" /\ (i + 3 <= n => t[i + 3] # "rest")
      BY <1>2, <2>1, <3>1
    <3>3. i + 1 \in 1 .. n /\ i + 2 \in 1 .. n /\ (i + 3 \in 1 .. n \/ i + 3 = n + 1)
      BY <1>1, <2>1, <3>2
    <3> QED BY <1>1, <2>1, <3>2, <3>3
  <2>2. CASE i = n + 1
    <3>1. i + 1 = n + 2 /\ i + 2 = n + 3 /\ ~(i + 3 <= n + 3) /\ i + 2 <= n + 3
      BY <1>1, <2>2
    <3> QED BY <1>1, <2>2, <3>1
  <2> QED BY <1>1, <1>3, <1>5, <2>1, <2>2
<1>6. ASSUME NEW i \in 1 .. n + 3, u[i] = "letter", i + 1 <= n + 3 PROVE u[i + 1] # "rest"
  <2>1. i \in 1 .. n /\ t[i] = "letter"
    BY <1>1, <1>3, <1>6
  <2>2. i + 1 \in 1 .. n \/ i + 1 = n + 1
    BY <1>1, <2>1
  <2> QED BY <1>1, <1>2, <2>1, <2>2
<1>7. ASSUME NEW i \in 1 .. n + 3, u[i] = "rest"
      PROVE  \/ i >= 2 /\ u[i - 1] = "lead"
             \/ i >= 3 /\ u[i - 1] = "rest" /\ u[i - 2] = "lead"
  <2>1. CASE i \in 1 .. n
    <3>1. t[i] = "rest" /\ (i >= 2 => i - 1 \in 1 .. n) /\ (i >= 3 => i - 2 \in 1 .. n)
      BY <1>1, <1>7, <2>1
    <3> QED BY <1>1, <1>2, <2>1, <3>1
  <2>2. CASE i = n + 2
    <3>1. i - 1 = n + 1 /\ i >= 2
      BY <1>1, <2>2
    <3> QED BY <1>1, <3>1
  <2>3. CASE i = n + 3
    <3>1. i - 1 = n + 2 /\ i - 2 = n + 1 /\ i >= 3
      BY <1>1, <2>3
    <3> QED BY <1>1, <3>1
  <2> QED BY <1>1, <1>3, <1>7, <2>1, <2>2, <2>3
<1>8. ASSUME \A i \in 1 .. n + 3 : u[i] # "letter"
      PROVE  (n + 3) % 3 = 0 /\ \A i \in 1 .. n + 3 : u[i] = "lead" => i % 3 = 1
  <2>1. \A i \in 1 .. n : t[i] # "letter" /\ i \in 1 .. n + 3
    BY <1>1, <1>8
  <2>2. n % 3 = 0 /\ \A i \in 1 .. n : t[i] = "lead" => i % 3 = 1
    BY <1>2, <2>1
  <2>3. (n + 3) % 3 = 0 /\ (n + 1) % 3 = 1
    BY <1>1, <2>2
  <2> QED BY <1>1, <1>3, <2>2, <2>3
<1> HIDE DEF u
<1>9. Whole(u)
  BY <1>1, <1>4, <1>5, <1>6, <1>7, <1>8 DEF Whole
<1> QED BY <1>9 DEF u

\* A text of characters of any length: of the shortest ones and of Chinese ones
\* it is as above.
ByteKinds == {"letter", "lead2", "lead", "lead4", "rest"}
AllCharacters == {Letter, TwoBytes, Chinese, FourBytes}
Plain(t) == \A i \in 1 .. Len(t) : t[i] \in {"letter", "lead", "rest"}
Sound(t) ==
  /\ t \in Seq(ByteKinds)
  /\ Len(t) >= 1 /\ Plain(t) => Whole(t)
  /\ Len(t) = 1 => t[1] = "letter"

LEMMA SoundCharacters == \A c \in AllCharacters : Sound(c) /\ Len(c) >= 1
<1>1. Sound(Letter) /\ Len(Letter) >= 1
  <2>1. Letter \in Seq(ByteKinds) /\ Len(Letter) = 1 /\ Letter[1] = "letter"
    BY DEF Letter, ByteKinds
  <2> QED BY <2>1, WholeLetter DEF Sound
<1>2. Sound(Chinese) /\ Len(Chinese) >= 1
  <2>1. Chinese \in Seq(ByteKinds) /\ Len(Chinese) = 3
    BY DEF Chinese, ByteKinds
  <2> QED BY <2>1, WholeChinese DEF Sound
<1>3. Sound(TwoBytes) /\ Len(TwoBytes) >= 1
  BY DEF TwoBytes, Sound, Plain, ByteKinds
<1>4. Sound(FourBytes) /\ Len(FourBytes) >= 1
  BY DEF FourBytes, Sound, Plain, ByteKinds
<1> QED BY <1>1, <1>2, <1>3, <1>4 DEF AllCharacters

LEMMA SoundAnd ==
  ASSUME NEW t, Sound(t), Len(t) >= 1, NEW c \in AllCharacters
  PROVE  Sound(t \o c) /\ Len(t \o c) >= 1
<1> DEFINE n == Len(t)
           u == t \o c
<1>1. /\ t \in Seq(ByteKinds) /\ n \in Nat /\ n >= 1
      /\ c \in Seq(ByteKinds) /\ Len(c) \in Nat /\ Len(c) >= 1
  BY SoundCharacters DEF Sound
<1>2. /\ u \in Seq(ByteKinds) /\ Len(u) = n + Len(c)
      /\ \A i \in 1 .. n : u[i] = t[i]
      /\ u[n + 1] = c[1]
  BY <1>1
<1> HIDE DEF n, u
<1>3. ASSUME Plain(u) PROVE Whole(u)
  <2>1. (\A i \in 1 .. n : i \in 1 .. Len(u)) /\ n + 1 \in 1 .. Len(u)
    BY <1>1, <1>2
  <2>2. Plain(t)
    BY <1>2, <1>3, <2>1 DEF Plain, n
  <2>3. Whole(t)
    BY <1>1, <2>2 DEF Sound, n
  <2>4. c[1] \in {"letter", "lead", "rest"}
    BY <1>2, <1>3, <2>1 DEF Plain
  <2>5. c # TwoBytes /\ c # FourBytes
    BY <2>4 DEF TwoBytes, FourBytes
  <2>6. c = Letter \/ c = Chinese
    BY <2>5 DEF AllCharacters
  <2> QED BY <2>3, <2>6, WholeAndLetter, WholeAndChinese DEF u
<1>4. Len(u) >= 2
  BY <1>1, <1>2
<1>5. Sound(u) /\ Len(u) >= 1
  BY <1>2, <1>3, <1>4 DEF Sound
<1> QED BY <1>5 DEF u

LEMMA SoundTexts ==
  ASSUME NEW n \in Nat, NEW chars \in [1 .. n -> AllCharacters]
  PROVE  Sound(FlattenSeq(chars))
<1> DEFINE P == AllCharacters
           G == {t \in Seq(ByteKinds) : Sound(t) /\ Len(t) >= 1}
<1>0. \A t : Sound(t) => t \in Seq(ByteKinds)
  BY DEF Sound
<1>1. P \subseteq G
  BY <1>0, SoundCharacters
<1>2. ASSUME NEW u \in G, NEW v \in P PROVE u \o v \in G
  <2>1. Sound(u \o v) /\ Len(u \o v) >= 1
    BY <1>2, SoundAnd
  <2> QED BY <1>0, <2>1
<1>3. chars \in Seq(P) /\ Len(chars) = n
  OBVIOUS
<1>4. CASE n >= 1
  <2> HIDE DEF P, G
  <2>1. FlattenSeq(chars) \in G
    BY <1>1, <1>2, <1>3, <1>4, FlattenIn
  <2> QED BY <2>1 DEF G
<1>5. CASE n = 0
  <2>1. FlattenSeq(chars) = chars /\ Len(chars) = 0
    BY <1>3, <1>5 DEF FlattenSeq
  <2>2. chars \in Seq(ByteKinds)
    <3>1. chars \in [1 .. 0 -> ByteKinds]
      BY <1>5
    <3> QED BY <3>1
  <2> QED BY <2>1, <2>2 DEF Sound
<1> QED BY <1>4, <1>5

\* The positions in their order: all of them, each once.
LEMMA AscendingFacts ==
  ASSUME NEW ps \in SUBSET Int, IsFiniteSet(ps)
  PROVE  LET s == Ascending(ps) IN
           /\ Cardinality(ps) \in Nat
           /\ s \in Seq(ps) /\ Len(s) = Cardinality(ps)
           /\ \A i, j \in 1 .. Cardinality(ps) : i < j => s[i] < s[j]
           /\ \A p \in ps : \E i \in 1 .. Cardinality(ps) : s[i] = p
<1> DEFINE n == Cardinality(ps)
           Below(p) == {q \in ps : q < p}
           rank == [p \in ps |-> Cardinality(Below(p)) + 1]
           s == Ascending(ps)
<1>1. n \in Nat
  BY FS_CardinalityType
<1>2. ASSUME NEW p \in ps
      PROVE  IsFiniteSet(Below(p)) /\ Cardinality(Below(p)) \in Nat /\ Cardinality(Below(p)) + 1 <= n
  <2>1. Below(p) \in SUBSET ps /\ p \in ps /\ p \notin Below(p)
    OBVIOUS
  <2> HIDE DEF Below
  <2>2. IsFiniteSet(Below(p)) /\ Cardinality(Below(p)) <= n /\ (n = Cardinality(Below(p)) => ps = Below(p))
    BY <2>1, FS_Subset
  <2>3. Cardinality(Below(p)) \in Nat
    BY <2>2, FS_CardinalityType
  <2>4. Cardinality(Below(p)) # n
    BY <2>1, <2>2
  <2> QED BY <1>1, <2>2, <2>3, <2>4
<1>3. ASSUME NEW p \in ps, NEW q \in ps, p < q PROVE rank[p] < rank[q]
  <2>1. Below(p) \in SUBSET Below(q) /\ p \in Below(q) /\ p \notin Below(p)
    <3>1. \A x \in ps : x \in Int
      OBVIOUS
    <3>2. \A x \in ps : x < p => x < q
      BY <1>3, <3>1
    <3>3. ~(p < p)
      BY <3>1
    <3> QED BY <1>3, <3>2, <3>3
  <2>2. IsFiniteSet(Below(q)) /\ Cardinality(Below(p)) \in Nat /\ Cardinality(Below(q)) \in Nat
    BY <1>2
  <2>3. Cardinality(Below(p)) <= Cardinality(Below(q)) /\ Cardinality(Below(p)) # Cardinality(Below(q))
    <3> HIDE DEF Below
    <3> QED BY <2>1, <2>2, FS_Subset
  <2>4. rank[p] = Cardinality(Below(p)) + 1 /\ rank[q] = Cardinality(Below(q)) + 1
    OBVIOUS
  <2> HIDE DEF rank, Below
  <2> QED BY <2>2, <2>3, <2>4
<1>4. rank \in [ps -> 1 .. n]
  <2>1. ASSUME NEW p \in ps PROVE Cardinality(Below(p)) + 1 \in 1 .. n
    <3> HIDE DEF Below
    <3> QED BY <1>1, <1>2
  <2> HIDE DEF Below
  <2> QED BY <2>1
<1>5. \A p, q \in ps : p # q => rank[p] # rank[q]
  <2> HIDE DEF rank
  <2>1. \A p, q \in ps : p < q => rank[p] < rank[q]
    BY <1>3
  <2>2. \A p \in ps : rank[p] \in Nat /\ p \in Int
    BY <1>1, <1>4
  <2> QED BY <2>1, <2>2
<1>6. \A i \in 1 .. n : \E p \in ps : rank[p] = i
  <2>1. rank \in Injection(ps, 1 .. n)
    <3> HIDE DEF rank
    <3> QED BY <1>4, <1>5 DEF Injection, IsInjective
  <2>2. IsFiniteSet(1 .. n) /\ Cardinality(1 .. n) = n
    <3>1. IsFiniteSet(1 .. n) /\ Cardinality(1 .. n) = IF 1 > n THEN 0 ELSE n - 1 + 1
      BY <1>1, FS_Interval
    <3>2. (IF 1 > n THEN 0 ELSE n - 1 + 1) = n
      BY <1>1
    <3> QED BY <3>1, <3>2
  <2>3. rank \in Surjection(ps, 1 .. n)
    <3> HIDE DEF rank
    <3> QED BY <2>1, <2>2, FS_Injection
  <2> HIDE DEF rank
  <2> QED BY <2>3 DEF Surjection
<1>7. ASSUME NEW i \in 1 .. n PROVE s[i] \in ps /\ rank[s[i]] = i
  <2>1. s[i] = CHOOSE p \in ps : Cardinality(Below(p)) = i - 1
    BY DEF Ascending
  <2>2. \A p \in ps : Cardinality(Below(p)) = i - 1 <=> rank[p] = i
    <3>1. \A p \in ps : Cardinality(Below(p)) \in Nat /\ rank[p] = Cardinality(Below(p)) + 1
      BY <1>2
    <3> HIDE DEF rank, Below
    <3> QED BY <1>1, <3>1
  <2> HIDE DEF rank, Below, s
  <2>3. \E p \in ps : Cardinality(Below(p)) = i - 1
    BY <1>6, <2>2
  <2>4. s[i] \in ps /\ Cardinality(Below(s[i])) = i - 1
    BY <2>1, <2>3
  <2> QED BY <2>2, <2>4
<1>8. DOMAIN s = 1 .. n /\ s = [i \in 1 .. n |-> s[i]]
  <2> DEFINE At(i) == CHOOSE p \in ps : Cardinality({q \in ps : q < p}) = i - 1
  <2>1. s = [i \in 1 .. n |-> At(i)]
    BY DEF Ascending
  <2> HIDE DEF At, s, n
  <2> QED BY <2>1
<1> HIDE DEF rank, s, n
<1>9. s \in Seq(ps) /\ Len(s) = n
  <2>1. s \in [1 .. n -> ps]
    BY <1>7, <1>8
  <2> QED BY <1>1, <2>1
<1>10. ASSUME NEW i \in 1 .. n, NEW j \in 1 .. n, i < j PROVE s[i] < s[j]
  <2>0. \A x \in ps : x \in Int
    OBVIOUS
  <2>1. s[i] \in Int /\ s[j] \in Int /\ i \in Nat /\ j \in Nat
    <3>1. s[i] \in ps /\ s[j] \in ps
      BY <1>7
    <3>2. i \in Nat /\ j \in Nat
      BY <1>1
    <3> QED BY <2>0, <3>1, <3>2
  <2>2. ~(s[j] < s[i]) /\ s[i] # s[j]
    BY <1>1, <1>3, <1>7, <1>10, <2>1
  <2> QED BY <2>1, <2>2
<1>11. ASSUME NEW p \in ps PROVE \E i \in 1 .. n : s[i] = p
  <2>1. rank[p] \in 1 .. n
    BY <1>4
  <2>2. s[rank[p]] \in ps /\ rank[s[rank[p]]] = rank[p]
    BY <1>7, <2>1
  <2> QED BY <1>5, <2>1, <2>2
<1> QED BY <1>1, <1>9, <1>10, <1>11 DEF s, n

-----------------------------------------------------------------------------
\* Where the window of q reaches, and what of it is shown.
Covers(q, p) == q <= p /\ p < q + Window
Clean(e) ==
  Only({"letter", "lead", "rest"}) =>
    \A end \in {e[1], e[2] + 1} : end \in Starts(desc) \union {Len(desc)}
Shown(e, p) ==
  p # NotFound /\ IsLead(p) =>
    /\ e[1] <= p /\ p <= e[2] + 1
    /\ Only({"lead", "rest"}) => p + 2 <= e[2]

\* What is looked for in a text: where a character begins, or nowhere.
Sought == Starts(desc) \union {NotFound}

\* Where Chinese characters begin.
LeadAt == {p \in 0 .. Len(desc) - 1 : desc[p + 1] = "lead"}

LEMMA LeadFacts ==
  ASSUME Whole(desc)
  PROVE  \A p \in Nat : IsLead(p) <=> p \in LeadAt
<1>1. Len(desc) \in Nat /\ \A i \in 1 .. Len(desc) : desc[i] \in {"letter", "lead", "rest"}
  BY DEF Whole
<1>2. ASSUME NEW p \in Nat, p < Len(desc) PROVE p + 1 \in 1 .. Len(desc)
  BY <1>1, <1>2
<1> QED BY <1>1, <1>2 DEF IsLead, LeadAt

\* The text, with positions that count from zero.
LEMMA TextFacts ==
  ASSUME Whole(desc), NEW L, L = Len(desc), NEW M, M = LeadAt
  PROVE  /\ L \in Nat /\ L >= 1 /\ DOMAIN desc = 1 .. L
         /\ Starts(desc) = {p \in 0 .. L - 1 : desc[p + 1] # "rest"}
         /\ 0 \in Starts(desc)
         /\ \A p \in Nat : p \in M =>
              /\ p \in Starts(desc) /\ p + 3 <= L
              /\ p + 1 \notin Starts(desc) /\ p + 2 \notin Starts(desc)
              /\ p + 3 \in Starts(desc) \union {L}
              /\ p + 1 \notin M /\ p + 2 \notin M
         /\ \A p \in Nat : p < L /\ p \notin M /\ p \in Starts(desc) =>
              p + 1 \in Starts(desc) \union {L}
         /\ \A p \in Nat : p < L /\ p \notin Starts(desc) =>
              \/ p >= 1 /\ p - 1 \in M
              \/ p >= 2 /\ p - 2 \in M
         /\ (\A i \in DOMAIN desc : desc[i] # "letter") =>
              L % 3 = 0 /\ \A p \in Nat : p \in M => p % 3 = 0
<1>1. L \in Nat /\ L >= 1 /\ DOMAIN desc = 1 .. L
  BY DEF Whole
<1>2. /\ desc[1] # "rest"
      /\ \A i \in 1 .. L : desc[i] = "lead" =>
           /\ i + 2 <= L /\ desc[i + 1] = "rest" /\ desc[i + 2] = "rest"
           /\ i + 3 <= L => desc[i + 3] # "rest"
      /\ \A i \in 1 .. L : desc[i] = "letter" /\ i + 1 <= L => desc[i + 1] # "rest"
      /\ \A i \in 1 .. L : desc[i] = "rest" =>
           \/ i >= 2 /\ desc[i - 1] = "lead"
           \/ i >= 3 /\ desc[i - 1] = "rest" /\ desc[i - 2] = "lead"
      /\ (\A i \in 1 .. L : desc[i] # "letter") =>
           L % 3 = 0 /\ \A i \in 1 .. L : desc[i] = "lead" => i % 3 = 1
      /\ \A i \in 1 .. L : desc[i] \in {"letter", "lead", "rest"}
  BY <1>1 DEF Whole
<1>3. \A p \in Nat : p \in M <=> p < L /\ desc[p + 1] = "lead"
  BY <1>1 DEF LeadAt
<1>4. \A p : p \in Starts(desc) <=> p \in 0 .. L - 1 /\ desc[p + 1] # "rest"
  BY DEF Starts
<1>5. ASSUME NEW p \in Nat, p \in M
      PROVE  /\ p \in Starts(desc) /\ p + 3 <= L
             /\ p + 1 \notin Starts(desc) /\ p + 2 \notin Starts(desc)
             /\ p + 3 \in Starts(desc) \union {L}
             /\ p + 1 \notin M /\ p + 2 \notin M
  <2>1. p < L /\ p + 1 \in 1 .. L /\ desc[p + 1] = "lead"
    BY <1>1, <1>3, <1>5
  <2>2. /\ (p + 1) + 2 <= L /\ desc[(p + 1) + 1] = "rest" /\ desc[(p + 1) + 2] = "rest"
        /\ (p + 1) + 3 <= L => desc[(p + 1) + 3] # "rest"
    BY <1>2, <2>1
  <2>3. (p + 1) + 1 \in Nat /\ (p + 2) + 1 = (p + 1) + 2 /\ (p + 3) + 1 = (p + 1) + 3
    OBVIOUS
  <2>4. p + 1 \in Nat /\ p + 2 \in Nat /\ p \in 0 .. L - 1
    BY <1>1, <2>1
  <2>5. p + 3 <= L /\ (p + 3 \in 0 .. L - 1 \/ p + 3 = L)
    BY <1>1, <2>2
  <2>6. desc[(p + 1) + 1] = "rest" /\ desc[(p + 2) + 1] = "rest"
    BY <2>2, <2>3
  <2>7. p \in Starts(desc) /\ p + 1 \notin Starts(desc) /\ p + 2 \notin Starts(desc)
    BY <1>4, <2>1, <2>4, <2>6
  <2>8. p + 1 \notin M /\ p + 2 \notin M
    BY <1>3, <2>4, <2>6
  <2>9. p + 3 \in Starts(desc) \union {L}
    <3>1. CASE p + 3 = L
      BY <3>1
    <3>2. CASE p + 3 \in 0 .. L - 1
      <4>1. (p + 1) + 3 <= L
        BY <1>1, <3>2
      <4>2. desc[(p + 3) + 1] # "rest"
        BY <2>2, <2>3, <4>1
      <4> QED BY <1>4, <3>2, <4>2
    <3> QED BY <2>5, <3>1, <3>2
  <2> QED BY <2>5, <2>7, <2>8, <2>9
<1>6. ASSUME NEW p \in Nat, p < L, p \notin M, p \in Starts(desc)
      PROVE  p + 1 \in Starts(desc) \union {L}
  <2>1. p + 1 \in 1 .. L /\ desc[p + 1] = "letter"
    BY <1>1, <1>2, <1>3, <1>4, <1>6
  <2>2. (p + 1) + 1 <= L => desc[(p + 1) + 1] # "rest"
    BY <1>2, <2>1
  <2>3. (p + 1 \in 0 .. L - 1 /\ (p + 1) + 1 <= L) \/ p + 1 = L
    BY <1>1, <2>1
  <2> QED BY <1>4, <2>2, <2>3
<1>7. ASSUME NEW p \in Nat, p < L, p \notin Starts(desc)
      PROVE  (p >= 1 /\ p - 1 \in M) \/ (p >= 2 /\ p - 2 \in M)
  <2>1. p + 1 \in 1 .. L /\ desc[p + 1] = "rest"
    BY <1>1, <1>4, <1>7
  <2>2. \/ p + 1 >= 2 /\ desc[(p + 1) - 1] = "lead"
        \/ p + 1 >= 3 /\ desc[(p + 1) - 2] = "lead"
    BY <1>2, <2>1
  <2>3. (p + 1 >= 2 => p >= 1 /\ p - 1 \in Nat /\ p - 1 < L /\ (p - 1) + 1 = (p + 1) - 1)
        /\ (p + 1 >= 3 => p >= 2 /\ p - 2 \in Nat /\ p - 2 < L /\ (p - 2) + 1 = (p + 1) - 2)
    BY <1>1, <1>7
  <2>4. ASSUME p + 1 >= 2, desc[(p + 1) - 1] = "lead" PROVE p >= 1 /\ p - 1 \in M
    <3>1. p >= 1 /\ p - 1 \in Nat /\ p - 1 < L /\ desc[(p - 1) + 1] = "lead"
      BY <2>3, <2>4
    <3> QED BY <1>3, <3>1
  <2>5. ASSUME p + 1 >= 3, desc[(p + 1) - 2] = "lead" PROVE p >= 2 /\ p - 2 \in M
    <3>1. p >= 2 /\ p - 2 \in Nat /\ p - 2 < L /\ desc[(p - 2) + 1] = "lead"
      BY <2>3, <2>5
    <3> QED BY <1>3, <3>1
  <2> QED BY <2>2, <2>4, <2>5
<1>8. ASSUME \A i \in 1 .. L : desc[i] # "letter", NEW p \in Nat, p \in M PROVE p % 3 = 0
  <2>1. p + 1 \in 1 .. L /\ desc[p + 1] = "lead"
    BY <1>1, <1>3, <1>8
  <2>2. (p + 1) % 3 = 1
    BY <1>2, <1>8, <2>1
  <2> QED BY <2>2
<1>9. Starts(desc) = {p \in 0 .. L - 1 : desc[p + 1] # "rest"}
  BY DEF Starts
<1>10. 0 \in Starts(desc)
  BY <1>1, <1>2, <1>4
<1> QED BY <1>1, <1>2, <1>5, <1>6, <1>7, <1>8, <1>9, <1>10

\* In a Chinese text all characters are.
LEMMA Leads ==
  ASSUME Whole(desc), \A i \in DOMAIN desc : desc[i] # "letter"
  PROVE  \A x \in Starts(desc) : x \in LeadAt
<1>1. Len(desc) \in Nat /\ \A i \in 1 .. Len(desc) : i \in DOMAIN desc /\ desc[i] \in {"letter", "lead", "rest"}
  BY DEF Whole
<1>2. ASSUME NEW x \in Starts(desc) PROVE x \in LeadAt
  <2>1. x \in Nat /\ x < Len(desc) /\ x + 1 \in 1 .. Len(desc) /\ desc[x + 1] # "rest"
    BY <1>1 DEF Starts
  <2>2. desc[x + 1] = "lead"
    BY <1>1, <2>1
  <2> QED BY <1>1, <2>1, <2>2 DEF LeadAt
<1> QED BY <1>2

\* Whatever the text, an excerpt holds the place of every word that its window
\* covers and that begins with three bytes or four; only what is shorter than
\* two bytes cannot be cut.
LEMMA WindowFacts ==
  ASSUME Len(desc) \in Nat, Len(desc) = 1 => ~IsLead(0), NEW q \in Sought,
         NEW from, from = From(q) + CutFront(From(q)), NEW to, to = To(q)
  PROVE  /\ from \in Nat /\ to \in Nat /\ CutBack(from, to) \in {0, 1, 2}
         /\ from > to <=> Len(desc) < 2
         /\ \A p \in Starts(desc) : Covers(q, p) /\ IsLead(p) =>
              from <= p /\ p < to /\ p <= to - CutBack(from, to)
<1> DEFINE f == From(q)
           L == Len(desc)
           back == CutBack(from, to)
<1>1. Window \in Nat /\ Window >= 3
  BY SummaryAssumption
<1>2. L \in Nat /\ (q = -1 \/ (q \in Nat /\ q < L))
  BY DEF Sought, Starts, NotFound
<1>3. /\ f = (IF q >= Window THEN q - Window ELSE 0)
      /\ to = (IF f + 2 * Window < L THEN f + 2 * Window ELSE L)
      /\ from = f + (IF IsLead(f) THEN 0 ELSE IF IsLead(f + 1) THEN 1 ELSE 2)
      /\ back = (IF to - 1 >= from /\ IsLead(to - 1) THEN 1
                 ELSE IF to - 2 >= from /\ IsLead(to - 2) THEN 2 ELSE 0)
  BY DEF From, To, CutFront, CutBack
<1>4. \A p \in Starts(desc) : p \in Nat /\ p < L
  BY DEF Starts
<1>5. IsLead(0) => L > 0
  BY DEF IsLead
<1>6. IsLead(1) => L > 1
  BY DEF IsLead
<1>12. L = 1 => ~IsLead(0)
  OBVIOUS
<1> HIDE DEF f, L, back
<1>7. f \in Nat /\ (f = 0 \/ f + Window = q) /\ (f = 0 => q <= Window) /\ from \in Nat
  <2>1. f \in Nat /\ (f = 0 \/ f + Window = q) /\ (f = 0 => q <= Window)
    <3>1. CASE q = -1
      <4>1. f = 0
        BY <1>1, <1>3, <3>1
      <4> QED BY <1>1, <3>1, <4>1
    <3>2. CASE q \in Nat
      BY <1>1, <1>3, <3>2
    <3> QED BY <1>2, <3>1, <3>2
  <2>2. from = f \/ from = f + 1 \/ from = f + 2
    BY <1>3, <2>1
  <2> QED BY <2>1, <2>2
<1>8. back \in {0, 1, 2} /\ from >= f /\ from <= f + 2
  <2>1. from = f \/ from = f + 1 \/ from = f + 2
    BY <1>3, <1>7
  <2>2. back \in {0, 1, 2}
    BY <1>3
  <2> QED BY <1>7, <2>1, <2>2
<1>9. (f + 2 * Window = to /\ to < L) \/ to = L
  BY <1>1, <1>3, <1>7
<1>10. from > to <=> L < 2
  <2>1. ASSUME L >= 2 PROVE ~(from > to)
    <3>1. CASE f = 0
      BY <1>1, <1>3, <1>8, <1>9, <2>1, <3>1
    <3>2. CASE f # 0
      <4>1. f + 2 <= L
        BY <1>1, <1>2, <1>7, <3>2
      <4> QED BY <1>1, <1>2, <1>7, <1>8, <1>9, <4>1
    <3> QED BY <3>1, <3>2
  <2>2. ASSUME L < 2 PROVE from > to
    <3>1. f = 0 /\ to = L
      <4>1. ~(q >= Window)
        BY <1>1, <1>2, <2>2
      <4>2. f = 0
        BY <1>3, <4>1
      <4> QED BY <1>1, <1>2, <1>9, <2>2, <4>2
    <3>2. ~IsLead(0) /\ ~IsLead(1)
      BY <1>2, <1>5, <1>6, <1>12, <2>2
    <3>3. from = 2
      <4>1. f + 1 = 1 /\ 0 + 2 = 2
        BY <3>1
      <4> QED BY <1>3, <3>1, <3>2, <4>1
    <3> QED BY <2>2, <3>1, <3>3
  <2>3. L >= 2 \/ L < 2
    BY <1>2
  <2> QED BY <1>2, <2>1, <2>2, <2>3
<1>11. ASSUME NEW p \in Starts(desc), Covers(q, p), IsLead(p)
       PROVE  from <= p /\ p < to /\ p <= to - back
  <2>1. p \in Nat /\ p < L /\ q <= p /\ p < q + Window
    BY <1>4, <1>11 DEF Covers
  <2>2. from <= p
    <3>1. CASE f # 0
      BY <1>1, <1>7, <1>8, <2>1, <3>1
    <3>2. CASE f = 0 /\ IsLead(0)
      BY <1>3, <2>1, <3>2
    <3>3. CASE f = 0 /\ ~IsLead(0) /\ IsLead(1)
      <4>1. p # 0
        BY <1>11, <3>3
      <4>2. from = 1
        <5>1. f + 1 = 1 /\ 0 + 1 = 1
          BY <3>3
        <5> QED BY <1>3, <3>3, <5>1
      <4> QED BY <2>1, <4>1, <4>2
    <3>4. CASE f = 0 /\ ~IsLead(0) /\ ~IsLead(1)
      <4>1. p # 0 /\ p # 1
        BY <1>11, <3>4
      <4>2. from = 2
        <5>1. f + 1 = 1 /\ 0 + 2 = 2
          BY <3>4
        <5> QED BY <1>3, <3>4, <5>1
      <4> QED BY <2>1, <4>1, <4>2
    <3> QED BY <3>1, <3>2, <3>3, <3>4
  <2>3. p < to
    <3>1. q <= f + Window
      BY <1>1, <1>2, <1>7
    <3>2. q \in Int
      BY <1>2
    <3> QED BY <1>1, <1>7, <1>9, <2>1, <3>1, <3>2
  <2>4. to \in Nat
    BY <1>1, <1>2, <1>7, <1>9
  <2>5. CASE back = 2
    <3>1. to - 1 >= from
      BY <1>7, <2>2, <2>3, <2>4, <2>1
    <3>2. ~IsLead(to - 1)
      BY <1>3, <2>5, <3>1
    <3>3. p # to - 1
      BY <1>11, <3>2
    <3> QED BY <2>1, <2>2, <2>3, <2>4, <2>5, <3>3
  <2>6. CASE back \in {0, 1}
    BY <2>1, <2>2, <2>3, <2>4, <2>6
  <2> QED BY <1>8, <2>2, <2>3, <2>5, <2>6
<1>13. to \in Nat
  BY <1>1, <1>2, <1>7, <1>9
<1> QED BY <1>7, <1>8, <1>10, <1>11, <1>13 DEF L, back

\* An excerpt of letters and Chinese characters is cut at whole ones, and shows
\* what its window covers.
LEMMA ExcerptFacts ==
  ASSUME Whole(desc), NEW q \in Sought,
         NEW from, from = From(q) + CutFront(From(q)), NEW to, to = To(q)
  PROVE  ~(from > to) =>
           LET e == <<from, to - 1 - CutBack(from, to)>> IN
             Clean(e) /\ \A p \in Starts(desc) : Covers(q, p) => Shown(e, p)
<1> DEFINE L == Len(desc)
           f == From(q)
           back == CutBack(from, to)
           S == Starts(desc)
           M == LeadAt
<1>1. /\ L \in Nat /\ L >= 1 /\ DOMAIN desc = 1 .. L
      /\ 0 \in S
      /\ \A p \in Nat : p \in M =>
           /\ p \in S /\ p + 3 <= L
           /\ p + 1 \notin S /\ p + 2 \notin S
           /\ p + 3 \in S \union {L}
           /\ p + 1 \notin M /\ p + 2 \notin M
      /\ \A p \in Nat : p < L /\ p \notin M /\ p \in S => p + 1 \in S \union {L}
      /\ \A p \in Nat : p < L /\ p \notin S =>
           \/ p >= 1 /\ p - 1 \in M
           \/ p >= 2 /\ p - 2 \in M
      /\ (\A i \in DOMAIN desc : desc[i] # "letter") =>
           L % 3 = 0 /\ \A p \in Nat : p \in M => p % 3 = 0
  BY TextFacts
<1>2. /\ Window \in Nat /\ Window >= 3 /\ Window % 3 = 0
  BY SummaryAssumption
<1>3. \A p \in S : p \in Nat /\ p < L
  BY DEF Starts
<1>4. /\ f = (IF q >= Window THEN q - Window ELSE 0)
      /\ to = (IF f + 2 * Window < L THEN f + 2 * Window ELSE L)
      /\ from = f + (IF f \in M THEN 0 ELSE IF f + 1 \in M THEN 1 ELSE 2)
      /\ back = (IF to - 1 >= from /\ to - 1 \in M THEN 1
                 ELSE IF to - 2 >= from /\ to - 2 \in M THEN 2 ELSE 0)
  <2>1. \A p \in Nat : IsLead(p) <=> p \in M
    BY LeadFacts
  <2>2. q \in Int /\ f \in Nat /\ f + 1 \in Nat
    <3>1. q \in Int
      BY <1>3 DEF Sought, NotFound
    <3>2. f = IF q >= Window THEN q - Window ELSE 0
      BY DEF From
    <3> HIDE DEF f
    <3> QED BY <1>2, <3>1, <3>2
  <2>3. /\ f = (IF q >= Window THEN q - Window ELSE 0)
        /\ to = (IF f + 2 * Window < L THEN f + 2 * Window ELSE L)
    BY DEF From, To
  <2>4. from = f + (IF f \in M THEN 0 ELSE IF f + 1 \in M THEN 1 ELSE 2)
    <3> HIDE DEF f, M
    <3> QED BY <2>1, <2>2 DEF CutFront, f
  <2>5. to \in Nat /\ from \in Nat
    <3>1. Window \in Nat /\ f \in Nat /\ L \in Nat
      BY <1>1, <1>2, <2>2
    <3> HIDE DEF f, M, L
    <3>2. to \in Nat
      BY <2>3, <3>1
    <3> QED BY <2>4, <3>1, <3>2
  <2>6. /\ to - 1 >= from => (IsLead(to - 1) <=> to - 1 \in M)
        /\ to - 2 >= from => (IsLead(to - 2) <=> to - 2 \in M)
    <3>1. to - 1 >= from => to - 1 \in Nat
      BY <2>5
    <3>2. to - 2 >= from => to - 2 \in Nat
      BY <2>5
    <3> QED BY <2>1, <3>1, <3>2
  <2> HIDE DEF M, f
  <2> QED BY <2>3, <2>4, <2>6 DEF CutBack
<1> HIDE DEF L, f, back, S, M
<1>6. f \in Nat /\ q \in Int /\ q < L /\ f < L /\ to \in Nat /\ to >= 1 /\ to <= L
  <2>1. q \in Int /\ q >= -1 /\ q < L /\ L \in Nat /\ L >= 1
    BY <1>1, <1>3 DEF S, Sought, NotFound
  <2>2. f \in Nat /\ f < L
    BY <1>2, <1>4, <2>1
  <2>3. to \in Nat /\ to >= 1 /\ to <= L
    BY <1>2, <1>4, <2>1, <2>2
  <2> QED BY <2>1, <2>2, <2>3
<1>7. (f + 2 * Window = to /\ to < L) \/ to = L
  BY <1>1, <1>2, <1>4, <1>6
<1>8. from \in S \union {L} \/ (from = L + 1 /\ f + 1 = L /\ f \notin M)
  <2>1. CASE f \in M
    <3>1. from = f
      BY <1>4, <1>6, <2>1
    <3>2. f \in S
      BY <1>1, <1>6, <2>1
    <3> QED BY <3>1, <3>2
  <2>2. CASE f \notin M /\ f + 1 \in M
    <3>1. from = f + 1
      BY <1>4, <1>6, <2>2
    <3>2. f + 1 \in Nat
      BY <1>6
    <3>3. f + 1 \in S
      BY <1>1, <2>2, <3>2
    <3> QED BY <3>1, <3>3
  <2>3. CASE f \notin M /\ f + 1 \notin M
    <3>1. from = f + 2 /\ f + 2 = (f + 1) + 1 /\ f + 1 \in Nat
      BY <1>4, <1>6, <2>3
    <3>2. CASE f + 1 = L
      BY <1>1, <2>3, <3>1, <3>2
    <3>3. CASE f + 1 # L /\ f + 1 \in S
      <4>1. f + 1 < L
        BY <1>1, <1>6, <3>3
      <4>2. (f + 1) + 1 \in S \union {L}
        <5>1. \A p \in Nat : p < L /\ p \notin M /\ p \in S => p + 1 \in S \union {L}
          BY <1>1
        <5> QED BY <2>3, <3>1, <3>3, <4>1, <5>1
      <4> QED BY <3>1, <4>2
    <3>4. CASE f + 1 # L /\ f + 1 \notin S
      <4>1. f + 1 < L
        BY <1>1, <1>6, <3>4
      <4>2. f \notin S
        BY <1>1, <1>6, <2>3, <3>4
      <4>3. \/ f + 1 >= 1 /\ (f + 1) - 1 \in M
            \/ f + 1 >= 2 /\ (f + 1) - 2 \in M
        BY <1>1, <3>1, <3>4, <4>1
      <4>4. (f + 1) - 1 = f
        BY <1>6
      <4>5. f >= 1 /\ f - 1 \in M
        <5>1. f + 1 >= 2 /\ (f + 1) - 2 \in M
          BY <2>3, <4>3, <4>4
        <5>2. (f + 1) - 2 = f - 1 /\ f >= 1
          BY <1>6, <5>1
        <5> QED BY <5>1, <5>2
      <4>6. f - 1 \in Nat /\ (f - 1) + 3 = f + 2
        BY <1>6, <4>5
      <4>7. (f - 1) + 3 \in S \union {L}
        <5>1. \A p \in Nat : p \in M => p + 3 \in S \union {L}
          BY <1>1
        <5> QED BY <4>5, <4>6, <5>1
      <4> QED BY <3>1, <4>6, <4>7
    <3> QED BY <3>2, <3>3, <3>4
  <2> QED BY <2>1, <2>2, <2>3
<1>9. f <= from /\ from <= f + 2 /\ from \in Nat
  BY <1>4, <1>6
<1>11. ASSUME ~(from > to)
       PROVE  LET e == <<from, to - 1 - back>> IN
                Clean(e) /\ \A p \in S : Covers(q, p) => Shown(e, p)
  <2> DEFINE e == <<from, to - 1 - back>>
  <2>1. from <= to /\ from \in S \union {L}
    BY <1>6, <1>8, <1>9, <1>11
  <2>2. ASSUME to \in S \union {L} PROVE back = 0
    <3>1. to - 1 \notin M
      <4>1. ASSUME to - 1 \in M PROVE FALSE
        <5>1. to - 1 \in Nat /\ (to - 1) + 1 = to /\ ~((to - 1) + 3 <= to)
          BY <1>6
        <5>2. (to - 1) + 1 \notin S /\ (to - 1) + 3 <= L
          BY <1>1, <4>1, <5>1
        <5> QED BY <2>2, <5>1, <5>2
      <4> QED BY <4>1
    <3>2. ~(to - 2 >= from /\ to - 2 \in M)
      <4>1. ASSUME to - 2 >= from, to - 2 \in M PROVE FALSE
        <5>1. to - 2 \in Nat /\ (to - 2) + 2 = to /\ ~((to - 2) + 3 <= to)
          BY <1>6, <1>9, <4>1
        <5>2. (to - 2) + 2 \notin S /\ (to - 2) + 3 <= L
          BY <1>1, <4>1, <5>1
        <5> QED BY <2>2, <5>1, <5>2
      <4> QED BY <4>1
    <3> QED BY <1>4, <3>1, <3>2
  <2>3. ASSUME to \notin S \union {L}
        PROVE  \/ back = 1 /\ to - 1 \in S
               \/ back = 2 /\ to - 2 \in S /\ to - 1 \notin S
    <3>1. to < L
      BY <1>1, <1>6, <2>3
    <3>2. from # to
      BY <2>1, <2>3
    <3>3. CASE to - 1 \in M
      <4>1. to - 1 >= from /\ to - 1 \in Nat
        BY <1>6, <1>9, <2>1, <3>2
      <4>2. to - 1 \in S
        BY <1>1, <3>3, <4>1
      <4> QED BY <1>4, <3>3, <4>1, <4>2
    <3>4. CASE to >= 2 /\ to - 2 \in M
      <4>1. to - 2 \in Nat /\ (to - 2) + 1 = to - 1
        BY <1>6, <3>4
      <4>2. to - 2 \in S /\ to - 1 \notin S /\ to - 1 \notin M
        <5>1. to - 2 \in S /\ (to - 2) + 1 \notin S /\ (to - 2) + 1 \notin M
          BY <1>1, <3>4, <4>1
        <5> QED BY <4>1, <5>1
      <4>3. from # to - 1
        BY <1>1, <1>6, <2>1, <3>1, <4>2
      <4>4. to - 2 >= from
        BY <1>6, <1>9, <2>1, <3>2, <4>3
      <4> QED BY <1>4, <3>4, <4>2, <4>4
    <3>5. to - 1 \in M \/ (to >= 2 /\ to - 2 \in M)
      <4>1. \A p \in Nat : p < L /\ p \notin S => (p >= 1 /\ p - 1 \in M) \/ (p >= 2 /\ p - 2 \in M)
        BY <1>1
      <4>2. (to >= 1 /\ to - 1 \in M) \/ (to >= 2 /\ to - 2 \in M)
        BY <1>6, <2>3, <3>1, <4>1
      <4> QED BY <4>2
    <3> QED BY <3>3, <3>4, <3>5
  <2>4. back \in {0, 1, 2} /\ to - back \in S \union {L} /\ (back = 2 => to - 1 \notin S)
    <3>1. CASE to \in S \union {L}
      <4>1. back = 0 /\ to - 0 = to
        BY <1>6, <2>2, <3>1
      <4> QED BY <3>1, <4>1
    <3>2. CASE to \notin S \union {L}
      BY <2>3, <3>2
    <3> QED BY <3>1, <3>2
  <2>5. e[1] = from /\ e[2] = to - 1 - back /\ e[2] + 1 = to - back
    BY <1>6, <2>4
  <2> HIDE DEF e
  <2>6. Clean(e)
    BY <2>1, <2>4, <2>5 DEF Clean, L, S
  <2>7. ASSUME NEW p \in S, Covers(q, p), p \in M PROVE Shown(e, p)
    <3>1. p \in Nat /\ p < L /\ q <= p /\ p < q + Window
      BY <1>3, <2>7 DEF Covers
    <3>2. from <= p /\ p < to /\ p <= to - back
      <4>1. L = 1 => ~IsLead(0)
        <5>1. 0 \in M => 0 + 3 <= L
          BY <1>1
        <5>2. ASSUME L = 1 PROVE 0 \notin M
          BY <5>1, <5>2
        <5> QED BY <5>2, LeadFacts DEF M
      <4>2. IsLead(p)
        BY <2>7, <3>1, LeadFacts DEF M
      <4>3. Len(desc) \in Nat /\ (Len(desc) = 1 => ~IsLead(0)) /\ p \in Starts(desc)
        <5>1. Len(desc) \in Nat
          BY DEF Whole
        <5>2. Len(desc) = 1 => ~IsLead(0)
          BY <4>1 DEF L
        <5> QED BY <2>7, <5>1, <5>2 DEF S
      <4> QED BY <2>7, <4>2, <4>3, WindowFacts DEF back
    <3>5. ASSUME Only({"lead", "rest"}) PROVE p + 2 <= e[2]
      <4>0. \A i \in DOMAIN desc : desc[i] # "letter"
        BY <3>5 DEF Only
      <4>1. L % 3 = 0 /\ \A x \in Nat : x \in M => x % 3 = 0
        BY <1>1, <4>0
      <4>2. \A x \in S : x \in M
        BY <4>0, Leads DEF S, M
      <4>3. f % 3 = 0 /\ p % 3 = 0
        <5>1. p % 3 = 0
          BY <2>7, <3>1, <4>1
        <5>2. q >= Window => (q - Window) % 3 = 0
          <6>1. q = -1 \/ q \in S
            BY DEF Sought, NotFound, S
          <6>2. q \in S => q \in Nat /\ q % 3 = 0
            BY <1>3, <4>1, <4>2 DEF S
          <6> QED BY <1>2, <6>1, <6>2
        <5> QED BY <1>4, <5>1, <5>2
      <4>4. to % 3 = 0
        <5>1. (f + 2 * Window) % 3 = 0
          BY <1>2, <1>6, <4>3
        <5> QED BY <1>7, <4>1, <5>1
      <4>5. ASSUME NEW x \in Nat, x % 3 = 0, x < L PROVE x \in S
        <5>1. ASSUME x \notin S PROVE FALSE
          <6>1. \/ x >= 1 /\ x - 1 \in M
                \/ x >= 2 /\ x - 2 \in M
            BY <1>1, <4>5, <5>1
          <6>2. \/ x >= 1 /\ x - 1 \in Nat /\ (x - 1) % 3 = 0
                \/ x >= 2 /\ x - 2 \in Nat /\ (x - 2) % 3 = 0
            BY <4>1, <6>1
          <6> QED BY <4>5, <6>2
        <5> QED BY <5>1
      <4>6. to \in S \union {L}
        <5>1. to < L => to \in S
          BY <1>6, <4>4, <4>5
        <5> QED BY <1>1, <1>6, <5>1
      <4>7. back = 0 /\ e[2] = to - 1
        BY <1>6, <2>2, <2>5, <4>6
      <4>8. p + 3 <= to
        BY <1>6, <3>1, <3>2, <4>3, <4>4
      <4> QED BY <1>6, <3>1, <4>7, <4>8
    <3> QED BY <2>5, <3>2, <3>5 DEF Shown
  <2>8. ASSUME NEW p \in S, Covers(q, p) PROVE Shown(e, p)
    <3>1. CASE p \in M
      BY <2>7, <2>8, <3>1
    <3>2. CASE p \notin M
      <4>1. ~IsLead(p)
        BY <1>3, <2>8, <3>2, LeadFacts DEF M
      <4> QED BY <4>1 DEF Shown
    <3> QED BY <3>1, <3>2
  <2> QED BY <2>6, <2>8 DEF e
<1> QED BY <1>11 DEF L, S, back

-----------------------------------------------------------------------------
\* While close positions are merged: what is left is in order, and a position
\* that is gone lies in the window of one the loop has passed.
MergingInv ==
  /\ slowIt <= Len(indices) /\ Len(indices) <= Cardinality(positions)
  /\ \A i, j \in 1 .. Len(indices) : i < j => indices[i] < indices[j]
  /\ \A p \in positions :
       \/ \E i \in 1 .. Len(indices) : indices[i] = p
       \/ \E i \in 1 .. slowIt : Covers(indices[i], p)

\* While excerpts are cut: every position is in one, or in the window of a
\* position that is still to come.
CutInv ==
  \A p \in positions :
    \/ \E i \in 1 .. Len(indices) : Covers(indices[i], p)
    \/ \E e \in excerpts : Shown(e, p)

SumInv ==
  /\ spc \in {"merge", "cut", "done", "dead"}
  /\ Sound(desc)
  /\ positions \subseteq Sought /\ positions # {}
  /\ IsFiniteSet(positions) /\ Cardinality(positions) \in Nat
  /\ slowIt \in 1 .. Cardinality(positions) /\ fastIt = slowIt + 1
  /\ indices \in Seq(positions)
  /\ \A e \in excerpts : Clean(e)
  /\ spc = "merge" => MergingInv
  /\ spc \in {"cut", "done"} => CutInv
  /\ spc = "done" => indices = <<>>
  /\ excerpts # {} => Len(desc) >= 2
  /\ spc = "dead" => Len(desc) < 2

LEMMA SoughtFacts ==
  ASSUME Sound(desc)
  PROVE  IsFiniteSet(Sought) /\ Sought \in SUBSET Int
<1>1. Len(desc) \in Nat
  BY DEF Sound
<1>2. Starts(desc) \in SUBSET (0 .. Len(desc) - 1)
  BY DEF Starts
<1>3. IsFiniteSet(0 .. Len(desc) - 1)
  BY <1>1, FS_Interval
<1>4. IsFiniteSet(Starts(desc))
  BY <1>2, <1>3, FS_Subset
<1>5. \A x \in 0 .. Len(desc) - 1 : x \in Int
  BY <1>1
<1>6. IsFiniteSet(Sought)
  BY <1>4, FS_AddElement DEF Sought
<1>7. NotFound \in Int
  BY DEF NotFound
<1> QED BY <1>2, <1>5, <1>6, <1>7 DEF Sought

LEMMA SumStartInv ==
  ASSUME NEW text, NEW ps, SumStart(text, ps), Sound(text),
         ps \subseteq Starts(text) \union {NotFound}, ps # {}
  PROVE  SumInv
<1> DEFINE n == Cardinality(ps)
<1>1. /\ spc = "merge" /\ desc = text /\ positions = ps /\ indices = Ascending(ps)
      /\ slowIt = 1 /\ fastIt = 2 /\ excerpts = {}
  BY DEF SumStart
<1>2. IsFiniteSet(Sought) /\ Sought \in SUBSET Int /\ ps \in SUBSET Sought
  BY <1>1, SoughtFacts DEF Sought
<1>3. IsFiniteSet(ps) /\ ps \in SUBSET Int
  BY <1>2, FS_Subset
<1>4. /\ n \in Nat
      /\ indices \in Seq(ps) /\ Len(indices) = n
      /\ \A i, j \in 1 .. n : i < j => indices[i] < indices[j]
      /\ \A p \in ps : \E i \in 1 .. n : indices[i] = p
  BY <1>1, <1>3, AscendingFacts
<1>5. n >= 1
  <2>1. n # 0
    BY <1>3, FS_EmptySet
  <2> QED BY <1>4, <2>1
<1>6. MergingInv
  BY <1>1, <1>4, <1>5 DEF MergingInv
<1>7. slowIt \in 1 .. n /\ fastIt = slowIt + 1
  BY <1>1, <1>4, <1>5
<1> QED BY <1>1, <1>2, <1>3, <1>4, <1>6, <1>7 DEF SumInv

LEMMA SumInitInv == SumInit => SumInv
<1> SUFFICES ASSUME SumInit PROVE SumInv
  OBVIOUS
<1> DEFINE T(chars) == FlattenSeq(chars)
           Ps(chars) == (SUBSET (Starts(T(chars)) \union {NotFound})) \ {{}}
<1>0. PICK n \in 0 .. MaxChars : \E chars \in [1 .. n -> AllCharacters] :
        \E ps \in Ps(chars) : SumStart(T(chars), ps)
  BY DEF SumInit, AllCharacters
<1>1. PICK chars \in [1 .. n -> AllCharacters] : \E ps \in Ps(chars) : SumStart(T(chars), ps)
  BY <1>0
<1>2. PICK ps \in Ps(chars) : SumStart(T(chars), ps)
  BY <1>1
<1>3. n \in Nat
  BY SummaryAssumption
<1>4. Sound(T(chars))
  BY <1>3, SoundTexts
<1> QED BY <1>2, <1>4, SumStartInv

LEMMA MergeStep == SumInv /\ Merge => SumInv'
<1> SUFFICES ASSUME SumInv, Merge PROVE SumInv'
  OBVIOUS
<1> DEFINE n == Len(indices)
<1>1. /\ spc = "merge" /\ fastIt <= n /\ fastIt = slowIt + 1
      /\ UNCHANGED <<spc, desc, positions, excerpts>>
      /\ indices \in Seq(positions) /\ positions \in SUBSET Int /\ indices \in Seq(Int)
      /\ n \in Nat /\ slowIt \in Nat /\ slowIt >= 1 /\ slowIt <= n /\ n <= Cardinality(positions)
      /\ Cardinality(positions) \in Nat
      /\ \A i \in 1 .. n : indices[i] \in positions /\ indices[i] \in Int
  <2>1. Sought \in SUBSET Int
    BY SoughtFacts DEF SumInv
  <2>2. positions \in SUBSET Int /\ indices \in Seq(positions)
    BY <2>1 DEF SumInv
  <2>3. indices \in Seq(Int) /\ \A i \in 1 .. n : indices[i] \in positions /\ indices[i] \in Int
    <3>1. \A i \in 1 .. n : indices[i] \in positions
      BY <2>2
    <3>2. \A x \in positions : x \in Int
      BY <2>2
    <3>3. \A i \in 1 .. n : indices[i] \in Int
      BY <3>1, <3>2
    <3>4. n \in Nat /\ indices \in [1 .. n -> Int]
      <4>1. n \in Nat /\ DOMAIN indices = 1 .. n /\ indices = [i \in 1 .. n |-> indices[i]]
        BY <2>2
      <4> QED BY <3>3, <4>1
    <3>5. indices \in Seq(Int)
      BY <3>4
    <3> QED BY <3>1, <3>3, <3>5
  <2> QED BY <2>2, <2>3 DEF SumInv, MergingInv, Merge
<1>2. /\ \A i, j \in 1 .. n : i < j => indices[i] < indices[j]
      /\ \A p \in positions :
           \/ \E i \in 1 .. n : indices[i] = p
           \/ \E i \in 1 .. slowIt : Covers(indices[i], p)
  BY <1>1 DEF SumInv, MergingInv
<1>3. /\ Sound(desc) /\ positions \subseteq Sought /\ positions # {} /\ IsFiniteSet(positions)
      /\ \A e \in excerpts : Clean(e)
      /\ excerpts # {} => Len(desc) >= 2
  BY DEF SumInv
<1>4. Sound(desc)' /\ (positions \subseteq Sought)' /\ (positions # {})' /\ IsFiniteSet(positions)'
  BY <1>1, <1>3 DEF Sought, Starts
<1>5. (\A e \in excerpts : Clean(e))' /\ (excerpts # {} => Len(desc) >= 2)'
  BY <1>1, <1>3 DEF Clean, Only, Starts
<1>6. CASE Close(indices[slowIt], indices[fastIt])
  <2> DEFINE t == RemoveAt(indices, fastIt)
             m == n - 1
  <2>1. indices' = t /\ slowIt' = slowIt /\ fastIt' = fastIt
    BY <1>6 DEF Merge
  <2>2. fastIt \in 1 .. n
    BY <1>1
  <2>3. /\ t \in Seq(Int) /\ Len(t) = m
        /\ \A i \in 1 .. m : t[i] = IF i < fastIt THEN indices[i] ELSE indices[i + 1]
    BY <1>1, <2>2, EraseFacts DEF RemoveAt
  <2> HIDE DEF t, n
  <2>4. m \in Nat /\ \A i \in 1 .. m : i \in 1 .. n /\ i + 1 \in 1 .. n
    BY <1>1
  <2> HIDE DEF m
  <2>5. slowIt <= m /\ m <= Cardinality(positions) /\ m + 1 = n
    BY <1>1, <2>4 DEF m
  <2>6. \A i \in 1 .. m : t[i] \in positions
    BY <1>1, <2>3, <2>4
  <2>7. t \in Seq(positions)
    <3>1. t \in [1 .. m -> positions]
      BY <2>3, <2>6
    <3> QED BY <2>4, <3>1
  <2>8. ASSUME NEW i \in 1 .. m, NEW j \in 1 .. m, i < j PROVE t[i] < t[j]
    <3>1. i + 1 \in 1 .. n /\ j + 1 \in 1 .. n /\ i \in 1 .. n /\ j \in 1 .. n /\ i \in Nat /\ j \in Nat
      BY <2>4
    <3>2. i + 1 < j + 1 /\ i < j + 1
      BY <2>8, <3>1
    <3>3. CASE i < fastIt /\ j < fastIt
      BY <1>2, <2>3, <2>8, <3>1, <3>3
    <3>4. CASE i < fastIt /\ ~(j < fastIt)
      BY <1>2, <2>3, <3>1, <3>2, <3>4
    <3>5. CASE ~(i < fastIt)
      <4>1. ~(j < fastIt)
        BY <1>1, <2>8, <3>1, <3>5
      <4> QED BY <1>2, <2>3, <3>1, <3>2, <3>5, <4>1
    <3> QED BY <3>3, <3>4, <3>5
  <2>9. \A i \in 1 .. slowIt : i \in 1 .. m /\ i < fastIt /\ t[i] = indices[i]
    BY <1>1, <2>3, <2>4, <2>5
  <2>10. ASSUME NEW p \in positions
         PROVE  \/ \E i \in 1 .. m : t[i] = p
                \/ \E i \in 1 .. slowIt : Covers(t[i], p)
    <3>1. CASE \E i \in 1 .. slowIt : Covers(indices[i], p)
      BY <2>9, <3>1
    <3>2. ASSUME NEW i \in 1 .. n, indices[i] = p, i < fastIt PROVE \E a \in 1 .. m : t[a] = p
      <4>1. i \in 1 .. m
        BY <1>1, <2>2, <2>4, <2>5, <3>2
      <4> QED BY <2>3, <3>2, <4>1
    <3>3. ASSUME NEW i \in 1 .. n, indices[i] = p, i > fastIt PROVE \E a \in 1 .. m : t[a] = p
      <4>1. i - 1 \in 1 .. m /\ ~(i - 1 < fastIt) /\ (i - 1) + 1 = i
        BY <1>1, <2>4, <2>5, <3>3
      <4> QED BY <2>3, <3>3, <4>1
    <3>4. ASSUME indices[fastIt] = p PROVE \E a \in 1 .. slowIt : Covers(t[a], p)
      <4>1. slowIt \in 1 .. n /\ slowIt < fastIt /\ slowIt \in 1 .. slowIt
        BY <1>1
      <4>2. indices[slowIt] < p /\ indices[slowIt] \in Int /\ p \in Int
        BY <1>1, <1>2, <2>2, <3>4, <4>1
      <4>3. p < indices[slowIt] + Window
        BY <1>6, <3>4 DEF Close
      <4>4. Covers(indices[slowIt], p)
        BY <4>2, <4>3 DEF Covers
      <4> QED BY <2>9, <4>1, <4>4
    <3>5. \A i \in 1 .. n : i < fastIt \/ i > fastIt \/ i = fastIt
      BY <1>1
    <3>6. CASE \E i \in 1 .. n : indices[i] = p
      <4>1. PICK i \in 1 .. n : indices[i] = p
        BY <3>6
      <4> QED BY <3>2, <3>3, <3>4, <3>5, <4>1
    <3> QED BY <1>2, <3>1, <3>6
  <2>11. MergingInv'
    <3>1. Len(indices') = m /\ positions' = positions
      BY <1>1, <2>1, <2>3
    <3> QED BY <2>1, <2>5, <2>8, <2>10, <3>1 DEF MergingInv, Covers
  <2>12. (slowIt \in 1 .. Cardinality(positions) /\ fastIt = slowIt + 1 /\ indices \in Seq(positions))'
    BY <1>1, <2>1, <2>7
  <2> QED BY <1>1, <1>4, <1>5, <2>11, <2>12 DEF SumInv
<1>7. CASE ~Close(indices[slowIt], indices[fastIt])
  <2>1. indices' = indices /\ slowIt' = slowIt + 1 /\ fastIt' = fastIt + 1
    BY <1>7 DEF Merge
  <2>2. \A i \in 1 .. slowIt : i \in 1 .. slowIt + 1
    BY <1>1
  <2>3. MergingInv'
    <3>1. slowIt + 1 <= n
      BY <1>1
    <3>2. \A p \in positions :
           \/ \E i \in 1 .. n : indices[i] = p
           \/ \E i \in 1 .. slowIt + 1 : Covers(indices[i], p)
      BY <1>2, <2>2
    <3> QED BY <1>1, <1>2, <2>1, <3>1, <3>2 DEF MergingInv, Covers
  <2>4. (slowIt \in 1 .. Cardinality(positions) /\ fastIt = slowIt + 1 /\ indices \in Seq(positions))'
    BY <1>1, <2>1
  <2> QED BY <1>1, <1>4, <1>5, <2>3, <2>4 DEF SumInv
<1> QED BY <1>6, <1>7

LEMMA MergedStep == SumInv /\ Merged => SumInv'
<1> SUFFICES ASSUME SumInv, Merged PROVE SumInv'
  OBVIOUS
<1>1. /\ spc = "merge" /\ spc' = "cut"
      /\ UNCHANGED <<desc, positions, indices, slowIt, fastIt, excerpts>>
  BY DEF Merged
<1>2. positions \in SUBSET Int
  BY SoughtFacts DEF SumInv
<1>3. \A p \in positions :
        \/ \E i \in 1 .. Len(indices) : indices[i] = p
        \/ \E i \in 1 .. slowIt : Covers(indices[i], p)
  BY <1>1 DEF SumInv, MergingInv
<1>4. slowIt \in Nat /\ Len(indices) \in Nat /\ slowIt <= Len(indices)
  BY <1>1 DEF SumInv, MergingInv
<1>5. \A p \in positions : Covers(p, p)
  BY <1>2, SummaryAssumption DEF Covers
<1>6. \A i \in 1 .. slowIt : i \in 1 .. Len(indices)
  BY <1>4
<1>7. \A p \in positions : \E i \in 1 .. Len(indices) : Covers(indices[i], p)
  BY <1>3, <1>5, <1>6
<1>8. CutInv'
  BY <1>1, <1>7 DEF CutInv, Covers
<1>9. /\ Sound(desc)' /\ (positions \subseteq Sought)' /\ (positions # {})' /\ IsFiniteSet(positions)'
      /\ Cardinality(positions)' \in Nat
      /\ (slowIt \in 1 .. Cardinality(positions) /\ fastIt = slowIt + 1 /\ indices \in Seq(positions))'
      /\ (\A e \in excerpts : Clean(e))' /\ (excerpts # {} => Len(desc) >= 2)'
  BY <1>1 DEF SumInv, Sought, Starts, Clean, Only
<1> QED BY <1>1, <1>8, <1>9 DEF SumInv

LEMMA CutStep == SumInv /\ Cut => SumInv'
<1> SUFFICES ASSUME SumInv, Cut PROVE SumInv'
  OBVIOUS
<1> DEFINE q == Head(indices)
           from == From(q) + CutFront(From(q))
           to == To(q)
           e == <<from, to - 1 - CutBack(from, to)>>
<1>1. /\ spc = "cut" /\ indices # <<>> /\ indices' = Tail(indices)
      /\ UNCHANGED <<desc, positions, slowIt, fastIt>>
      /\ IF from > to THEN spc' = "dead" /\ excerpts' = excerpts
         ELSE excerpts' = excerpts \union {e} /\ spc' = spc
  BY DEF Cut
<1>2. /\ Sound(desc) /\ positions \subseteq Sought /\ positions # {} /\ IsFiniteSet(positions)
      /\ Cardinality(positions) \in Nat
      /\ slowIt \in 1 .. Cardinality(positions) /\ fastIt = slowIt + 1
      /\ indices \in Seq(positions)
      /\ (\A x \in excerpts : Clean(x))
      /\ (excerpts # {} => Len(desc) >= 2)
      /\ CutInv
  BY <1>1 DEF SumInv
<1>3. /\ q \in positions /\ Tail(indices) \in Seq(positions)
      /\ Len(indices) \in Nat /\ Len(indices) >= 1 /\ q = indices[1]
      /\ Len(Tail(indices)) = Len(indices) - 1
      /\ \A i \in 1 .. Len(indices) - 1 : Tail(indices)[i] = indices[i + 1]
  BY <1>1, <1>2
<1>4. /\ from > to <=> Len(desc) < 2
      /\ ~(from > to) => Clean(e) /\ \A p \in positions : Covers(q, p) => Shown(e, p)
  <2>1. q \in Sought
    BY <1>2, <1>3
  <2>2. Len(desc) \in Nat /\ (Len(desc) = 1 => ~IsLead(0))
    BY <1>2 DEF Sound, IsLead
  <2>3. /\ from > to <=> Len(desc) < 2
        /\ from \in Nat /\ to \in Nat /\ CutBack(from, to) \in {0, 1, 2}
        /\ \A p \in Starts(desc) : Covers(q, p) /\ IsLead(p) =>
             from <= p /\ p < to /\ p <= to - CutBack(from, to)
    <3> HIDE DEF q, from, to
    <3>1. from = From(q) + CutFront(From(q)) /\ to = To(q)
      BY DEF from, to
    <3> QED BY <2>1, <2>2, <3>1, WindowFacts
  <2>4. CASE Only({"letter", "lead", "rest"}) /\ Len(desc) >= 1
    <3>1. Whole(desc)
      BY <1>2, <2>4 DEF Sound, Plain, Only
    <3>2. ASSUME ~(from > to) PROVE Clean(e) /\ \A p \in Starts(desc) : Covers(q, p) => Shown(e, p)
      <4> HIDE DEF q, from, to
      <4>1. from = From(q) + CutFront(From(q)) /\ to = To(q)
        BY DEF from, to
      <4> QED BY <2>1, <3>1, <3>2, <4>1, ExcerptFacts
    <3>3. \A p \in positions : p \in Starts(desc) \/ Shown(e, p)
      BY <1>2 DEF Sought, Shown
    <3> QED BY <2>3, <3>2, <3>3
  <2>5. CASE ~(Only({"letter", "lead", "rest"}) /\ Len(desc) >= 1)
    <3>1. ASSUME ~(from > to)
          PROVE  /\ ~Only({"letter", "lead", "rest"})
                 /\ ~Only({"lead", "rest"})
      <4>1. Len(desc) >= 1
        BY <2>2, <2>3, <3>1
      <4> QED BY <2>5, <4>1 DEF Only
    <3>2. \A p \in positions : p = NotFound \/ p \in Starts(desc)
      BY <1>2 DEF Sought
    <3>3. e[1] = from /\ e[2] + 1 = to - CutBack(from, to)
      BY <2>3
    <3> HIDE DEF q, from, to, e
    <3>4. ~(from > to) => Clean(e)
      BY <3>1 DEF Clean
    <3>5. ASSUME ~(from > to), NEW p \in positions, Covers(q, p) PROVE Shown(e, p)
      BY <2>3, <3>1, <3>2, <3>3, <3>5 DEF Shown
    <3> QED BY <2>3, <3>4, <3>5
  <2> QED BY <2>4, <2>5
<1> HIDE DEF q, from, to, e
<1>5. /\ Sound(desc)' /\ (positions \subseteq Sought)' /\ (positions # {})' /\ IsFiniteSet(positions)'
      /\ Cardinality(positions)' \in Nat
      /\ (slowIt \in 1 .. Cardinality(positions) /\ fastIt = slowIt + 1 /\ indices \in Seq(positions))'
  BY <1>1, <1>2, <1>3 DEF Sought, Starts
<1>6. CASE from > to
  <2>1. spc' = "dead" /\ excerpts' = excerpts
    BY <1>1, <1>6
  <2>2. (\A x \in excerpts : Clean(x))' /\ Len(desc)' < 2 /\ (excerpts # {} => Len(desc) >= 2)'
    BY <1>1, <1>2, <1>4, <1>6, <2>1 DEF Clean, Only, Starts
  <2> QED BY <1>5, <2>1, <2>2 DEF SumInv
<1>7. CASE ~(from > to)
  <2>1. spc' = "cut" /\ excerpts' = excerpts \union {e}
    BY <1>1, <1>7
  <2>2. (\A x \in excerpts : Clean(x))' /\ (excerpts # {} => Len(desc) >= 2)'
    <3>1. \A x \in excerpts \union {e} : Clean(x)
      BY <1>2, <1>4, <1>7
    <3>2. Len(desc) >= 2
      <4>1. Len(desc) \in Nat
        BY <1>2 DEF Sound
      <4> QED BY <1>4, <1>7, <4>1
    <3> QED BY <1>1, <2>1, <3>1, <3>2 DEF Clean, Only, Starts
  <2>3. ASSUME NEW p \in positions
        PROVE  \/ \E i \in 1 .. Len(Tail(indices)) : Covers(Tail(indices)[i], p)
               \/ \E x \in excerpts \union {e} : Shown(x, p)
    <3>1. CASE \E x \in excerpts : Shown(x, p)
      BY <3>1
    <3>2. CASE Covers(q, p)
      <4>1. Shown(e, p)
        BY <1>4, <1>7, <3>2
      <4> QED BY <4>1
    <3>3. ASSUME NEW i \in 1 .. Len(indices), i # 1, Covers(indices[i], p)
          PROVE  \E a \in 1 .. Len(Tail(indices)) : Covers(Tail(indices)[a], p)
      <4>1. i - 1 \in 1 .. Len(indices) - 1 /\ (i - 1) + 1 = i
        BY <1>3, <3>3
      <4>2. Tail(indices)[i - 1] = indices[i]
        BY <1>3, <4>1
      <4> QED BY <1>3, <3>3, <4>1, <4>2
    <3> QED BY <1>2, <1>3, <3>1, <3>2, <3>3 DEF CutInv
  <2>4. CutInv'
    BY <1>1, <2>1, <2>3 DEF CutInv, Covers, Shown, Only, IsLead
  <2> QED BY <1>5, <2>1, <2>2, <2>4 DEF SumInv
<1> QED BY <1>6, <1>7

LEMMA SumStep == SumInv /\ [SumNext]_sumVars => SumInv'
<1> SUFFICES ASSUME SumInv, [SumNext]_sumVars PROVE SumInv'
  OBVIOUS
<1>1. CASE Merge
  BY <1>1, MergeStep
<1>2. CASE Merged
  BY <1>2, MergedStep
<1>3. CASE Cut
  BY <1>3, CutStep
<1>4. CASE AllCut
  <2>1. /\ spc = "cut" /\ indices = <<>> /\ spc' = "done"
        /\ UNCHANGED <<desc, positions, indices, slowIt, fastIt, excerpts>>
    BY <1>4 DEF AllCut
  <2> QED BY <2>1 DEF SumInv, CutInv, Clean, Sought, Starts, Covers, Shown, Only, IsLead
<1>5. CASE UNCHANGED sumVars
  BY <1>5 DEF sumVars, SumInv, MergingInv, CutInv, Clean, Sought, Starts, Covers, Shown, Only, IsLead
<1> QED BY <1>1, <1>2, <1>3, <1>4, <1>5 DEF SumNext

LEMMA SumInvShows == SumInv => WordsShown
<1> SUFFICES ASSUME SumInv PROVE WordsShown
  OBVIOUS
<1>1. ASSUME spc = "done"
      PROVE  Len(desc) >= 2 /\ \A p \in positions : \E e \in excerpts : Shown(e, p)
  <2>1. \A p \in positions : \E e \in excerpts : Shown(e, p)
    BY <1>1 DEF SumInv, CutInv
  <2>2. positions # {}
    BY DEF SumInv
  <2>3. excerpts # {}
    BY <2>1, <2>2
  <2> QED BY <2>1, <2>3 DEF SumInv
<1>2. \A e \in excerpts : Clean(e)
  BY DEF SumInv
<1>3. spc = "dead" => Len(desc) < 2
  BY DEF SumInv
<1> QED BY <1>1, <1>2, <1>3 DEF WordsShown, Shown, Clean

-----------------------------------------------------------------------------
(***************************************************************************)
(* The three programs together.                                             *)
(***************************************************************************)

\* The list of pages is no longer than that of the items, and the iterators
\* stay within it.
LibBounds ==
  /\ Len(items) <= MaxItems /\ Len(pageLib) <= Len(items)
  /\ lpc = "read" => Len(pageLib) < fast /\ fast <= Len(items) + 1
  /\ slow <= Len(items) + 1 /\ fast <= Len(items) + 2

LEMMA BoundsStart == LibInit => LibBounds
<1> SUFFICES ASSUME LibInit PROVE LibBounds
  OBVIOUS
<1>1. PICK n \in 0 .. MaxItems : \E rss \in [1 .. n -> Items] :
        items = rss /\ pageLib = <<>> /\ slow = 1 /\ fast = 1
  BY DEF LibInit, LibStart
<1>2. items \in Seq(Items) /\ n \in Nat /\ n <= MaxItems
  BY <1>1, PageLibraryAssumption
<1>3. Len(items) = n
  BY <1>1, <1>2
<1> QED BY <1>1, <1>2, <1>3 DEF LibBounds

LEMMA BoundsStep == LibInv /\ LibBounds /\ [LibNext]_libVars => LibBounds'
<1> SUFFICES ASSUME LibInv, LibBounds, [LibNext]_libVars PROVE LibBounds'
  OBVIOUS
<1>0. /\ items \in Seq(Items) /\ pageLib \in Seq(Nat) /\ slow \in Nat /\ fast \in Nat
      /\ Len(items) \in Nat /\ Len(pageLib) \in Nat /\ MaxItems \in Nat
      /\ lpc = "fast" => slow <= Len(pageLib) /\ slow < fast /\ fast <= Len(pageLib) + 1
  BY PageLibraryAssumption DEF LibInv
<1>1. CASE ReadItem
  <2>1. Len(pageLib') = Len(pageLib) \/ Len(pageLib') = Len(pageLib) + 1
    <3>1. Len(Append(pageLib, fast)) = Len(pageLib) + 1
      BY <1>0, AppendProperties
    <3> QED BY <1>1, <3>1 DEF ReadItem
  <2> QED BY <1>0, <1>1, <2>1 DEF ReadItem, LibBounds
<1>2. CASE ItemsRead \/ Slow \/ FastEnd
  BY <1>0, <1>2 DEF ItemsRead, Slow, FastEnd, LibBounds
<1>3. CASE Fast
  <2>1. fast \in 1 .. Len(pageLib)
    BY <1>0, <1>3 DEF Fast, LibInv
  <2>2. Len(SubSeq(pageLib, 1, fast - 1) \o SubSeq(pageLib, fast + 1, Len(pageLib))) = Len(pageLib) - 1
    BY <1>0, <2>1, EraseFacts
  <2>3. Len(pageLib') = Len(pageLib) - 1 \/ Len(pageLib') = Len(pageLib)
    BY <1>3, <2>2 DEF Fast
  <2>4. (fast' = fast \/ fast' = fast + 1) /\ UNCHANGED <<lpc, items, slow>> /\ lpc = "fast"
    BY <1>3 DEF Fast
  <2> QED BY <1>0, <2>1, <2>3, <2>4 DEF LibBounds
<1>4. CASE CreateXml \/ BuildInvertIndex \/ UNCHANGED libVars
  <2>1. UNCHANGED <<items, pageLib, slow, fast>> /\ (lpc' = "read" => lpc = "read")
    BY <1>4 DEF CreateXml, BuildInvertIndex, libVars
  <2> QED BY <2>1 DEF LibBounds
<1> QED BY <1>1, <1>2, <1>3, <1>4 DEF LibNext

SearchInv == DicInv /\ BestInv /\ LibInv /\ TableInv /\ LibBounds /\ SumInv

LEMMA SearchInvInit == Init => SearchInv
<1> SUFFICES ASSUME Init PROVE SearchInv
  OBVIOUS
<1>1. DictInit
  <2> SUFFICES ASSUME DictStart(<<>>, <<>>) PROVE DictInit
    BY DEF Init
  <2>1. ASSUME NEW l PROVE <<>> \in Articles(l)
    <3>1. 0 \in 0 .. MaxFiles
      BY DictionaryAssumption
    <3>2. <<>> \in [1 .. 0 -> Texts[l]]
      OBVIOUS
    <3> QED BY <3>1, <3>2 DEF Articles
  <2> QED BY <2>1 DEF DictInit
<1>2. LibInit
  <2> SUFFICES ASSUME LibStart(<<>>, {}) PROVE LibInit
    BY DEF Init
  <2>1. 0 \in 0 .. MaxItems
    BY PageLibraryAssumption
  <2>2. <<>> \in [1 .. 0 -> Items] /\ {} \in SUBSET {p \in Pages \X Pages : p[1] < p[2] /\ p[2] <= 0}
    OBVIOUS
  <2> QED BY <2>1, <2>2 DEF LibInit
<1>3. DicInv /\ BestInv
  <2>1. PICK en \in Articles("En"), cn \in Articles("Cn") : DictStart(en, cn)
    BY <1>1 DEF DictInit
  <2> QED BY <2>1, DicStart, BestStart
<1>4. SumInv
  <2>1. CASE SumInit
    BY <2>1, SumInitInv
  <2>2. CASE SumStart(Letter, {0})
    <3>1. {0} \subseteq Starts(Letter)
      BY WholeLetter DEF Starts, Letter
    <3>2. Sound(Letter) /\ {0} \subseteq Starts(Letter) \union {NotFound}
      BY <3>1, SoundCharacters DEF AllCharacters
    <3> QED BY <2>2, <3>2, SumStartInv
  <2> QED BY <2>1, <2>2 DEF Init
<1> QED BY <1>2, <1>3, <1>4, LibInvInit, TableStart, BoundsStart DEF SearchInv

LEMMA SearchInvStep == SearchInv /\ [Next]_vars => SearchInv'
<1> SUFFICES ASSUME SearchInv, [Next]_vars PROVE SearchInv'
  OBVIOUS
<1>1. [DictNext]_dictVars /\ [LibNext]_libVars /\ [SumNext]_sumVars
  BY DEF Next, vars
<1> QED BY <1>1, DicStep, BestStep, LibStep, TableStep, BoundsStep, SumStep DEF SearchInv

LEMMA SearchInvType == SearchInv => TypeOK
<1> SUFFICES ASSUME SearchInv PROVE TypeOK
  OBVIOUS
<1>1. /\ dpc \in {"read", "insert", "index", "done"} /\ lang \in Languages
      /\ pos \in 0 .. Len(order) /\ Len(order) <= Cardinality(AllWords)
      /\ \A l \in Languages : Len(dict[l]) <= Cardinality(AllWords)
      /\ Len(failed) <= MaxFailures
  BY DEF SearchInv, DicInv, DicTypes, DicSizes
<1>2. /\ items \in Seq(Items) /\ pageLib \in Seq(Nat) /\ slow \in Nat \ {0} /\ fast \in Nat \ {0}
      /\ Len(items) \in Nat /\ Len(pageLib) \in Nat /\ MaxItems \in Nat
      /\ Len(items) <= MaxItems /\ Len(pageLib) <= Len(items)
      /\ slow <= Len(items) + 1 /\ fast <= Len(items) + 2
      /\ \A i \in 1 .. Len(pageLib) : pageLib[i] \in DOMAIN items
  BY PageLibraryAssumption DEF SearchInv, LibInv, LibBounds, TableInv
<1>3. slow \in 1 .. MaxItems + 1 /\ fast \in 1 .. MaxItems + 2
  BY <1>2
<1>4. pageLib \in UNION {[1 .. n -> Pages] : n \in 0 .. MaxItems}
  <2>1. DOMAIN items \subseteq Pages
    BY <1>2 DEF Pages
  <2>2. pageLib \in [1 .. Len(pageLib) -> Pages] /\ Len(pageLib) \in 0 .. MaxItems
    BY <1>2, <2>1
  <2> QED BY <2>2
<1>5. lpc \in {"read", "slow", "fast", "create", "insert", "done", "dead"}
  BY DEF SearchInv, LibInv
<1>6. /\ spc \in {"merge", "cut", "done", "dead"}
      /\ slowIt \in 1 .. Cardinality(positions) /\ fastIt = slowIt + 1
  BY DEF SearchInv, SumInv
<1> QED BY <1>1, <1>3, <1>4, <1>5, <1>6 DEF TypeOK

LEMMA SearchInvAlways == Spec => []SearchInv
BY SearchInvInit, SearchInvStep, PTL DEF Spec

\* The loops over words, items and positions stay within what they walk, for
\* any number of each.
THEOREM TypesCorrect == Spec => []TypeOK
BY SearchInvAlways, SearchInvType, PTL

\* For every alphabet and all articles: while nothing but rows of an index
\* fails, a row names a word that holds its character, although the database
\* gives the identifiers and the builder counts positions twice.
THEOREM IndexIsTrue == Spec => []IndexTrue
<1>1. SearchInv => IndexTrue
  BY DicInvIndexTrue DEF SearchInv
<1> QED BY <1>1, SearchInvAlways, PTL

\* For all articles and queries over any alphabet: when the builder is done and
\* nothing failed, and no Chinese word holds a letter or a digit, recommender
\* answers as many words as are allowed of those that share a character with
\* the query, each at the place its distance, its number and the alphabet give,
\* although it finds them through bytes, digits and tables filled row by row.
THEOREM BestAnswers == Spec => []BestCandidates
<1>1. SearchInv => BestCandidates
  <2> SUFFICES ASSUME SearchInv PROVE BestCandidates
    OBVIOUS
  <2>1. CASE dpc = "done" /\ failed = <<>> /\ \A w \in WordsIn("Cn") : ~HasOneByte(w)
    BY <2>1, DoneBest DEF SearchInv, Done
  <2>2. CASE ~(dpc = "done" /\ failed = <<>> /\ \A w \in WordsIn("Cn") : ~HasOneByte(w))
    BY <2>2 DEF BestCandidates
  <2> QED BY <2>1, <2>2
<1> QED BY <1>1, SearchInvAlways, PTL

\* For every relation of nearness, transitive or not, no two pages that are
\* written are near each other, and none was dropped without an earlier one
\* near it that stayed.
THEOREM PagesAreDistinct == Spec => []NoNearDuplicates
<1>1. SearchInv => NoNearDuplicates
  BY LibInvDistinct DEF SearchInv
<1> QED BY <1>1, SearchInvAlways, PTL

\* Whatever INSERTs failed, a search finds no page without one of its words;
\* when none failed it finds all pages that hold them, except those whose
\* weights are not numbers.
THEOREM SearchIsExact == Spec => []FoundExactly
<1>1. SearchInv => FoundExactly
  BY TableInvExact DEF SearchInv
<1> QED BY <1>1, SearchInvAlways, PTL

\* For texts of any length, of characters of one to four bytes, and every set of
\* positions, npos among them: what begins with three bytes or four has its place
\* in an excerpt, although close positions share one and its ends are cut, and
\* nothing but a text of fewer than two bytes ends the process.  Where all
\* characters are letters and Chinese ones excerpts end at whole ones, and in a
\* Chinese text they hold the words' first characters whole.
THEOREM ExcerptsShowWords == Spec => []WordsShown
<1>1. SearchInv => WordsShown
  BY SumInvShows DEF SearchInv
<1> QED BY <1>1, SearchInvAlways, PTL
=============================================================================
