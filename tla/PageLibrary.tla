---------------------------- MODULE PageLibrary ----------------------------
(***************************************************************************)
(* The page library: PageLib.exe, which reads RSS items, drops pages that      *)
(* are near another, and writes webPageLib and invertLib one INSERT at a time *)
(* (RssReader, PageLibPreprocessor), and the search for the pages that hold    *)
(* all words of a query (WebPageQuery up to its ranking).                     *)
(*                                                                          *)
(* A page is the number of its item.  Which pages simhash calls equal is a    *)
(* relation chosen at the start, symmetric and not transitive.  The weights   *)
(* are left out but for the one case in which they are not numbers.           *)
(***************************************************************************)
EXTENDS Integers, FiniteSets, Sequences

CONSTANTS
  Words,           \* the words of the items
  BuilderStops,    \* those in STOP_WORD_PATH
  QueryStops,      \* those in WEB_STOP_WORD_PATH
  MaxItems,        \* bound: items of all files
  MaxLost          \* bound: INSERTs that fail

ASSUME PageLibraryAssumption ==
  /\ IsFiniteSet(Words) /\ BuilderStops \union QueryStops \subseteq Words
  /\ {MaxItems, MaxLost} \subseteq Nat

VARIABLES
  lpc,          \* what main does: read, slow, fast, create, insert, done, dead
  items,        \* the RSS items
  near,         \* the pairs of items whose simhash values are equal
  pageLib,      \* _pageLib: the list of pages
  slow, fast,   \* the iterators of cutRedundantPages; slow counts the others' loops
  webPageLib,   \* table: pages by identifier
  invertLib,    \* table: words with identifiers
  lost          \* history: how many INSERTs failed

libVars == <<lpc, items, near, pageLib, slow, fast, webPageLib, invertLib, lost>>

-----------------------------------------------------------------------------
(* Faulty variants, each a bug this code could have; used by no definition. *)

\* The iterator is moved on after erase as well.
FastSkips ==
  /\ lpc = "fast" /\ fast <= Len(pageLib)
  /\ pageLib' = IF <<pageLib[fast], pageLib[slow]>> \in near
                THEN SubSeq(pageLib, 1, fast - 1) \o SubSeq(pageLib, fast + 1, Len(pageLib))
                ELSE pageLib
  /\ fast' = fast + 1
  /\ UNCHANGED <<lpc, items, near, slow, webPageLib, invertLib, lost>>

\* Any of the query's words is enough.
HitsOfAnyWord(id, words) == 1

-----------------------------------------------------------------------------
Pages == 1 .. MaxItems

\* An item has a body, or neither description nor content, or one of them
\* without text, for which GetText returns a null pointer.
Items == [kind : {"page"}, words : SUBSET Words] \union [kind : {"bare", "empty"}, words : {{}}]

LibStart(rss, pairs) ==
  /\ lpc = "read"
  /\ items = rss
  /\ near = {p \in Pages \X Pages : p[1] = p[2] \/ p \in pairs \/ <<p[2], p[1]>> \in pairs}
  /\ pageLib = <<>>
  /\ slow = 1 /\ fast = 1
  /\ webPageLib = {} /\ invertLib = {}
  /\ lost = 0

LibInit ==
  \E n \in 0 .. MaxItems :
    \E rss \in [1 .. n -> Items], pairs \in SUBSET {p \in Pages \X Pages : p[1] < p[2] /\ p[2] <= n} :
      LibStart(rss, pairs)

\* traversingXML; fast counts the items.
ReadItem ==
  /\ lpc = "read" /\ fast <= Len(items)
  /\ pageLib' = IF items[fast].kind = "page" THEN Append(pageLib, fast) ELSE pageLib
  /\ lpc' = IF items[fast].kind = "empty" THEN "dead" ELSE lpc
  /\ fast' = fast + 1
  /\ UNCHANGED <<items, near, slow, webPageLib, invertLib, lost>>

ItemsRead ==
  /\ lpc = "read" /\ fast > Len(items)
  /\ lpc' = "slow"
  /\ UNCHANGED <<items, near, pageLib, slow, fast, webPageLib, invertLib, lost>>

\* cutRedundantPages, the outer loop.
Slow ==
  /\ lpc = "slow"
  /\ fast' = slow + 1
  /\ lpc' = IF slow <= Len(pageLib) THEN "fast" ELSE "create"
  /\ UNCHANGED <<items, near, pageLib, slow, webPageLib, invertLib, lost>>

\* The inner loop: erase returns the iterator after the page it erased.
Fast ==
  /\ lpc = "fast" /\ fast <= Len(pageLib)
  /\ IF <<pageLib[fast], pageLib[slow]>> \in near
     THEN /\ pageLib' = SubSeq(pageLib, 1, fast - 1) \o SubSeq(pageLib, fast + 1, Len(pageLib))
          /\ UNCHANGED fast
     ELSE /\ fast' = fast + 1
          /\ UNCHANGED pageLib
  /\ UNCHANGED <<lpc, items, near, slow, webPageLib, invertLib, lost>>

FastEnd ==
  /\ lpc = "fast" /\ fast > Len(pageLib)
  /\ slow' = slow + 1
  /\ lpc' = "slow"
  /\ UNCHANGED <<items, near, pageLib, fast, webPageLib, invertLib, lost>>

\* Some INSERTs of a loop fail and are ignored.
Insert(table, rows) ==
  \E done \in SUBSET rows :
    /\ lost' = lost + Cardinality(rows \ done)
    /\ lost' <= MaxLost
    /\ table = done

\* createXml: the identifiers are positions, given in the INSERT itself.
CreateXml ==
  /\ lpc = "create"
  /\ Insert(webPageLib', {<<n, pageLib[n]>> : n \in DOMAIN pageLib})
  /\ lpc' = "insert"
  /\ UNCHANGED <<items, near, pageLib, slow, fast, invertLib>>

\* The words buildInvertIndex counts for page n, and the pages that hold one.
WordsOf(n) == items[pageLib[n]].words \ BuilderStops
PagesWith(w) == {n \in DOMAIN pageLib : w \in WordsOf(n)}

\* IDF is the logarithm of N/(DF+1): a page of which every word is in all
\* pages but one has weights 0/0, and nan is no number for the database.
NotANumber(n) == \A w \in WordsOf(n) : Cardinality(PagesWith(w)) + 1 = Len(pageLib)

\* Without its stop word file the function returns.
BuildInvertIndex ==
  /\ lpc = "insert"
  /\ \/ Insert(invertLib', UNION {WordsOf(n) \X {n} : n \in {m \in DOMAIN pageLib : ~NotANumber(m)}})
     \/ /\ invertLib' = {}
        /\ lost' = MaxLost + 1
  /\ lpc' = "done"
  /\ UNCHANGED <<items, near, pageLib, slow, fast, webPageLib>>

LibNext ==
  \/ ReadItem \/ ItemsRead \/ Slow \/ Fast \/ FastEnd
  \/ CreateXml \/ BuildInvertIndex

-----------------------------------------------------------------------------
(* WebPageQuery. *)

QueryWords(sentence) == sentence \ QueryStops

\* How many words of the query the index has for a page.
Hits(id, words) == Cardinality({w \in words : <<w, id>> \in invertLib})

\* getIntersectionId, and the lookup of each page in getQueryResult.
doQuery(sentence) ==
  LET words == QueryWords(sentence)
      ids == {id \in {row[2] : row \in invertLib} : Hits(id, words) > 0 /\ Hits(id, words) = Cardinality(words)}
  IN {page[2] : page \in {row \in webPageLib : row[1] \in ids}}

-----------------------------------------------------------------------------
\* When the pages are written no two of them are near each other, and a page
\* that was dropped is near an earlier one that was kept, although nearness is
\* not transitive and pages are erased while both iterators move.
NoNearDuplicates ==
  lpc \in {"create", "insert", "done"} =>
    LET kept == {pageLib[n] : n \in DOMAIN pageLib} IN
      /\ \A p, q \in kept : p # q => <<p, q>> \notin near
      /\ \A p \in DOMAIN items : items[p].kind = "page" /\ p \notin kept =>
           \E q \in kept : q < p /\ <<q, p>> \in near

\* A search finds only pages that hold every word of the query, whichever
\* INSERTs failed.  When none failed it finds all of those that were kept,
\* except where the two programs have different stop words and except pages
\* whose weights are not numbers.
FoundExactly ==
  lpc = "done" =>
    \A sentence \in SUBSET Words :
      LET words == QueryWords(sentence)
          holding == {n \in DOMAIN pageLib : words \subseteq items[pageLib[n]].words}
      IN /\ doQuery(sentence) \subseteq {pageLib[n] : n \in holding}
         /\ lost = 0 /\ words # {} /\ words \intersect BuilderStops = {} =>
              doQuery(sentence) = {pageLib[n] : n \in {m \in holding : ~NotANumber(m)}}
=============================================================================
