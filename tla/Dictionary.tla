----------------------------- MODULE Dictionary -----------------------------
(***************************************************************************)
(* The dictionary: dictionary.exe, which counts the words of the articles     *)
(* and writes the tables dictEn, indexEn, dictCn and indexCn one INSERT at a  *)
(* time (DicProducer), and the recommenders that rank what a join of the       *)
(* tables finds (EnRecommender, ChRecommender, MixedRecommender).             *)
(*                                                                          *)
(* dictEn and dictCn number their rows themselves; the indices hold the       *)
(* positions that DicProducer counts.  A character is a letter, a digit or    *)
(* Chinese, a word a sequence of characters; only indexCn is built from bytes.*)
(***************************************************************************)
EXTENDS Naturals, FiniteSets, Sequences, SequencesExt, FiniteSetsExt

CONSTANTS
  Characters,      \* all characters, in the order of their codes
  Letters, Digits, \* those of one byte; Digits gives 0 to 9 in turn
  Texts,           \* per language: the contents an article may have
  Stops,           \* per language: the stop words
  Queries,         \* what the recommenders are asked for
  MaxFiles,        \* bound: articles of a language
  MaxFailures,     \* bound: calls that fail
  TopCount         \* 5, the keywords of an answer

Languages == {"En", "Cn"}

ASSUME DictionaryAssumption ==
  /\ Characters \in Seq(ToSet(Characters)) /\ IsInjective(Characters)
  /\ Letters \subseteq ToSet(Characters)
  /\ Digits \in [1 .. 10 -> ToSet(Characters)] /\ IsInjective(Digits)
  /\ Queries \subseteq Seq(ToSet(Characters))
  /\ \A l \in Languages : IsFiniteSet(Texts[l]) /\ Texts[l] \subseteq Seq(Seq(ToSet(Characters)))
  /\ {MaxFiles, MaxFailures} \subseteq Nat /\ TopCount \in Nat \ {0}

VARIABLES
  dpc,         \* what main does: read, insert, index, done
  lang,        \* and for which language
  files,       \* per language: the contents of the articles not yet read
  texts,       \* history: all of them
  count,       \* _dicten, _dictcn: the words with their numbers
  order,       \* the words of the map of this language, as it is iterated
  pos,         \* how many of them the loop has passed
  memory,      \* _indexcn: pieces with positions, those without their rows yet
  sql,         \* buildIndexcn: the piece at hand, and the statement made for it
  dict,        \* per language: the table of words, a row per identifier
  index,       \* per language: the table of characters with identifiers
  failed       \* history: the calls that failed, "read", "word" or "row"

dictVars == <<dpc, lang, files, texts, count, order, pos, memory, sql, dict, index, failed>>

-----------------------------------------------------------------------------
(* Faulty variants, each a bug this code could have; used by no definition. *)

\* idx is not advanced for the first word.
PositionFromZero == pos

-----------------------------------------------------------------------------
(* Text. *)

Rank(c) == CHOOSE i \in DOMAIN Characters : Characters[i] = c

\* operator< of std::string.
WordLess(u, v) ==
  \E n \in 0 .. Len(u) :
    /\ n < Len(v)
    /\ SubSeq(u, 1, n) = SubSeq(v, 1, n)
    /\ n = Len(u) \/ Rank(u[n + 1]) < Rank(v[n + 1])

IsOneByte(c) == c \in Letters \union ToSet(Digits)

\* UTF-8: a Chinese character is three bytes; byte i of c is <<c, i>>.
Bytes(w) ==
  FlattenSeq([k \in DOMAIN w |-> [i \in 1 .. (IF IsOneByte(w[k]) THEN 1 ELSE 3) |-> <<w[k], i>>]])

\* buildCnDict cuts a word into pieces of three bytes, whatever they are.
Pieces(w) == {SubSeq(Bytes(w), 3 * k - 2, 3 * k) : k \in 1 .. Len(Bytes(w)) \div 3}

\* std::to_string of an int.
Powers == <<1000000000, 100000000, 10000000, 1000000, 100000, 10000, 1000, 100, 10, 1>>
to_string(n) ==
  LET first == CHOOSE i \in 1 .. 10 : (i = 10 \/ Powers[i] <= n) /\ \A j \in 1 .. i - 1 : n < Powers[j]
  IN Bytes([i \in 1 .. 11 - first |-> Digits[((n \div Powers[first + i - 1]) % 10) + 1]])

\* What the loops that count words leave out.
Kept(l, w) ==
  /\ w \notin Stops[l]
  /\ IF l = "En" THEN \A i \in DOMAIN w : w[i] \notin ToSet(Digits)
                 ELSE ~(Len(w) = 1 /\ IsOneByte(w[1]))

\* The words of a text with the numbers of their occurrences.
Counted(l, text) ==
  [w \in {v \in ToSet(text) : Kept(l, v)} |-> Cardinality({i \in DOMAIN text : text[i] = w})]

Added(f, g) ==
  [w \in DOMAIN f \union DOMAIN g |->
    (IF w \in DOMAIN f THEN f[w] ELSE 0) + (IF w \in DOMAIN g THEN g[w] ELSE 0)]

-----------------------------------------------------------------------------
(* DicProducer. *)

Articles(l) == UNION {[1 .. n -> Texts[l]] : n \in 0 .. MaxFiles}

DictStart(en, cn) ==
  /\ dpc = "read" /\ lang = "En"
  /\ files = [l \in Languages |-> IF l = "En" THEN en ELSE cn]
  /\ texts = files
  /\ count = <<>> /\ order = <<>> /\ pos = 0 /\ memory = {}
  /\ sql = [key |-> <<>>, piece |-> <<>>, number |-> <<>>]
  /\ dict = [l \in Languages |-> <<>>]
  /\ index = [l \in Languages |-> {}]
  /\ failed = <<>>

DictInit == \E en \in Articles("En"), cn \in Articles("Cn") : DictStart(en, cn)

\* The n calls of this kind fail, none or at most MaxFailures in all.
Fail(kind, n) ==
  /\ Len(failed) + n <= MaxFailures
  /\ failed' = failed \o [i \in 1 .. n |-> kind]

\* unordered_map for English, map for Chinese.
Iterations(l, words) ==
  {s \in SetToSeqs(words) : l = "Cn" => \A i, j \in DOMAIN s : i < j => WordLess(s[i], s[j])}

ReadFile ==
  /\ dpc = "read" /\ files[lang] # <<>>
  /\ files' = [files EXCEPT ![lang] = Tail(@)]
  /\ count' = Added(count, Counted(lang, Head(files[lang])))
  /\ UNCHANGED <<dpc, lang, texts, order, pos, memory, sql, dict, index, failed>>

AllRead ==
  /\ dpc = "read" /\ files[lang] = <<>>
  /\ order' \in Iterations(lang, DOMAIN count)
  /\ pos' = 0
  /\ dpc' = "insert"
  /\ UNCHANGED <<lang, files, texts, count, memory, sql, dict, index, failed>>

\* build*Dict returns at a file it cannot open; main goes on with the index.
CannotOpen ==
  /\ dpc = "read" /\ files[lang] # <<>>
  /\ Fail("read", 1)
  /\ files' = [files EXCEPT ![lang] = <<>>]
  /\ order' \in Iterations(lang, DOMAIN count)
  /\ pos' = 0
  /\ dpc' = "index"
  /\ UNCHANGED <<lang, texts, count, memory, sql, dict, index>>

\* The position of the word at hand, counted from one.
Position == pos + 1

\* An INSERT that fails is ignored, and takes no identifier.
InsertWord ==
  /\ dpc = "insert" /\ pos < Len(order)
  /\ LET w == order[pos + 1] IN
       /\ \/ /\ dict' = [dict EXCEPT ![lang] = Append(@, [word |-> w, freq |-> count[w]])]
             /\ UNCHANGED failed
          \/ /\ Fail("word", 1)
             /\ UNCHANGED dict
       /\ memory' = IF lang = "Cn" THEN memory \union (Pieces(w) \X {Position}) ELSE memory
  /\ pos' = pos + 1
  /\ UNCHANGED <<dpc, lang, files, texts, count, order, sql, index>>

AllInserted ==
  /\ dpc = "insert" /\ pos = Len(order)
  /\ pos' = 0
  /\ dpc' = "index"
  /\ UNCHANGED <<lang, files, texts, count, order, memory, sql, dict, index, failed>>

\* Each row is an INSERT of its own.
InsertRows(rows) ==
  \E done \in SUBSET rows :
    /\ index' = [index EXCEPT ![lang] = @ \union done]
    /\ Fail("row", Cardinality(rows \ done))

\* buildIndexen: the letters of a word with its position.
IndexWord ==
  /\ dpc = "index" /\ lang = "En" /\ pos < Len(order)
  /\ LET w == order[pos + 1] IN InsertRows({<<Bytes(<<c>>), to_string(Position)>> : c \in ToSet(w)})
  /\ pos' = pos + 1
  /\ UNCHANGED <<dpc, lang, files, texts, count, order, memory, sql, dict>>

\* buildIndexcn begins the statement with the piece.
IndexPiece ==
  /\ dpc = "index" /\ lang = "Cn" /\ memory # {}
  /\ \A m \in memory : m[1] # sql.key
  /\ \E m \in memory : sql' = [key |-> m[1], piece |-> m[1], number |-> <<>>]
  /\ UNCHANGED <<dpc, lang, files, texts, count, order, pos, memory, dict, index, failed>>

\* The statement with these digits taken out again: their first occurrence is
\* removed, which is in the piece when that holds them.
TakenOut(s, digits) ==
  IF digits \in SubSeqs(s.piece)
  THEN [s EXCEPT !.piece = ReplaceFirstSubSeq(<<>>, digits, s.piece)]
  ELSE [s EXCEPT !.number = ReplaceFirstSubSeq(<<>>, digits, s.number)]

\* The next position of the piece: its digits are appended and removed again.
IndexPosition ==
  /\ dpc = "index" /\ lang = "Cn"
  /\ \E id \in {m[2] : m \in {e \in memory : e[1] = sql.key}} :
       /\ \A m \in memory : m[1] = sql.key => id <= m[2]
       /\ LET digits == to_string(id)
              whole == [sql EXCEPT !.number = @ \o digits]
          IN /\ InsertRows({<<whole.piece, whole.number>>})
             /\ sql' = TakenOut(whole, digits)
       /\ memory' = memory \ {<<sql.key, id>>}
  /\ UNCHANGED <<dpc, lang, files, texts, count, order, pos, dict>>

NextLanguage ==
  /\ dpc = "index"
  /\ IF lang = "En" THEN pos = Len(order) ELSE memory = {}
  /\ dpc' = IF lang = "En" THEN "read" ELSE "done"
  /\ lang' = "Cn"
  /\ count' = <<>> /\ order' = <<>> /\ pos' = 0
  /\ UNCHANGED <<files, texts, memory, sql, dict, index, failed>>

DictNext ==
  \/ ReadFile \/ AllRead \/ CannotOpen \/ InsertWord \/ AllInserted
  \/ IndexWord \/ IndexPiece \/ IndexPosition \/ NextLanguage

-----------------------------------------------------------------------------
(* The recommenders. *)

\* editDistance: the table of distances between the beginnings of two words.
editDistance(lhs, rhs) ==
  LET editDist[p \in (0 .. Len(lhs)) \X (0 .. Len(rhs))] ==
        LET i == p[1]
            j == p[2]
        IN IF i = 0 THEN j
           ELSE IF j = 0 THEN i
           ELSE IF lhs[i] = rhs[j] THEN editDist[<<i - 1, j - 1>>]
           ELSE 1 + Min({editDist[<<i, j - 1>>], editDist[<<i - 1, j>>], editDist[<<i - 1, j - 1>>]})
  IN editDist[<<Len(lhs), Len(rhs)>>]

\* A faulty variant of the order: the frequency decides before the distance.
BetterByFrequency(a, b) ==
  \/ a.freq > b.freq
  \/ a.freq = b.freq /\ a.dist < b.dist
  \/ a.freq = b.freq /\ a.dist = b.dist /\ WordLess(a.word, b.word)

\* BetterCandidate, the order of the priority queue.
Better(a, b) ==
  \/ a.dist < b.dist
  \/ a.dist = b.dist /\ a.freq > b.freq
  \/ a.dist = b.dist /\ a.freq = b.freq /\ WordLess(a.word, b.word)

\* doParse chooses the recommender, and the mixed one goes by the size of a
\* character.
TableFor(query, c) ==
  IF \A i \in DOMAIN query : query[i] \in Letters THEN "En"
  ELSE IF \A i \in DOMAIN query : query[i] \notin Letters THEN "Cn"
  ELSE IF IsOneByte(c) THEN "En" ELSE "Cn"

\* The join of both tables on the identifier, for each character; queryRes is
\* a set.
Candidates(query) ==
  UNION {LET l == TableFor(query, c) IN
           {dict[l][n] : n \in {m \in DOMAIN dict[l] : <<Bytes(<<c>>), to_string(m)>> \in index[l]}} :
         c \in ToSet(query)}

\* What the queue gives one after another: each has as many before it as are
\* better.
Ranked(scored) ==
  [i \in 1 .. Cardinality(scored) |->
    CHOOSE c \in scored : Cardinality({d \in scored : Better(d, c)}) = i - 1]

recommender(query) ==
  LET scored == {[word |-> r.word, freq |-> r.freq, dist |-> editDistance(query, r.word)] : r \in Candidates(query)}
      ranked == Ranked(scored)
  IN SubSeq([i \in DOMAIN ranked |-> ranked[i].word], 1, Min({TopCount, Len(ranked)}))

-----------------------------------------------------------------------------
HasOneByte(w) == \E i \in DOMAIN w : IsOneByte(w[i])
WordsIn(l) == {w \in UNION {ToSet(t) : t \in ToSet(texts[l])} : Kept(l, w)}

\* As long as every article could be read and no INSERT into a dictionary
\* failed, a row of an index names, by the identifier that the database gave,
\* a word that holds the row's character; rows of indexCn whose piece holds a
\* letter or a digit, or has lost its digits, are left out, since buildIndexcn
\* spoils those.
IndexTrue ==
  ToSet(failed) \subseteq {"row"} /\ dpc \in {"index", "done"} =>
    \A l \in Languages : \A row \in index[l] :
      l = "En" \/ (Len(row[1]) = 3 /\ ~HasOneByte([i \in 1 .. 3 |-> row[1][i][1]])) =>
        \E n \in DOMAIN dict[l] :
          row[2] = to_string(n) /\ row[1][1][1] \in ToSet(dict[l][n].word)

\* The number of single changes that turn one word into another: characters
\* are matched in order, and what is left on either side is put in or out.
InOrder(m) == \A p, q \in m : (p[1] < q[1] <=> p[2] < q[2]) /\ (p[1] = q[1] <=> p[2] = q[2])
Changes(u, v, m) ==
  Cardinality({p \in m : u[p[1]] # v[p[2]]}) + (Len(u) - Cardinality(m)) + (Len(v) - Cardinality(m))
AllWords == UNION {ToSet(t) : t \in UNION {Texts[l] : l \in Languages}}

\* The positions are counted by an int.
ASSUME PositionsFit == Cardinality(AllWords) <= 2147483647

Distance ==
  [p \in Queries \X AllWords |->
     Min({Changes(p[1], p[2], m) : m \in {s \in SUBSET ((DOMAIN p[1]) \X (DOMAIN p[2])) : InOrder(s)}})]

\* The occurrences of a word in the articles.
Occurrences(l, w) ==
  Cardinality(UNION {{<<k, i>> : i \in {j \in DOMAIN texts[l][k] : texts[l][k][j] = w}} : k \in DOMAIN texts[l]})

\* The words, each with its language, that share a character with the query.
Shared(q) ==
  {e \in {<<l, w>> : l \in Languages, w \in WordsIn("En") \union WordsIn("Cn")} :
     e[2] \in WordsIn(e[1]) /\ \E c \in ToSet(q) \intersect ToSet(e[2]) : TableFor(q, c) = e[1]}

\* Those that come before this one: the nearest first, of those the most
\* frequent, then by the alphabet.
Closer(q, f, e) ==
  \/ Distance[<<q, f[2]>>] < Distance[<<q, e[2]>>]
  \/ /\ Distance[<<q, f[2]>>] = Distance[<<q, e[2]>>]
     /\ \/ Occurrences(f[1], f[2]) > Occurrences(e[1], e[2])
        \/ Occurrences(f[1], f[2]) = Occurrences(e[1], e[2]) /\ WordLess(f[2], e[2])
Before(q, e) == {f \in Shared(q) : Closer(q, f, e)}

\* When nothing failed and the Chinese dictionary holds Chinese words only, an
\* answer has the words that share a character with the query, as many as five
\* allow, each at the place that its distance, its number and the alphabet give.
BestCandidates ==
  dpc = "done" /\ failed = <<>> /\ (\A w \in WordsIn("Cn") : ~HasOneByte(w)) =>
    \A q \in Queries :
      LET answer == recommender(q)
      IN /\ Len(answer) = Min({TopCount, Cardinality(Shared(q))})
         /\ \A e \in Shared(q) :
              LET place == Cardinality(Before(q, e)) + 1 IN place <= TopCount => answer[place] = e[2]
=============================================================================
