------------------------------ MODULE Summary ------------------------------
(***************************************************************************)
(* The excerpts of a page that WebPageQuery::getQueryResult shows: windows     *)
(* around the first occurrences of the query's words, one for those that are  *)
(* close, cut at both ends.  A text is its bytes: letters, and the first byte  *)
(* and the others of characters of two to four bytes, Chinese ones having      *)
(* three.  Positions count from zero as in the code.                           *)
(***************************************************************************)
EXTENDS Integers, FiniteSets, Sequences, SequencesExt

CONSTANTS
  Window,         \* 60, the bytes before a word that are shown
  MaxChars        \* bound: characters of a text

ASSUME SummaryAssumption ==
  /\ Window \in Nat \ {0} /\ Window % 3 = 0      \* as 60 is
  /\ MaxChars \in Nat

VARIABLES
  spc,            \* merge, cut, done, dead
  desc,           \* the text
  positions,      \* history: where the words of the query begin
  indices,        \* index: the positions still to be shown, in order
  slowIt, fastIt, \* the iterators of the merging loop
  excerpts        \* the first and the last position of each excerpt

sumVars == <<spc, desc, positions, indices, slowIt, fastIt, excerpts>>

-----------------------------------------------------------------------------
(* Faulty variants, each a bug this code could have; used by no definition. *)

\* A window takes in what begins within its whole length after the word.
CloseTwice(slowPos, fastPos) == fastPos < slowPos + 2 * Window

\* The iterator that erase returns is moved on once more.
MergeAdvances ==
  /\ spc = "merge" /\ fastIt <= Len(indices)
  /\ IF indices[fastIt] < indices[slowIt] + Window
     THEN indices' = RemoveAt(indices, fastIt) /\ UNCHANGED slowIt
     ELSE slowIt' = slowIt + 1 /\ UNCHANGED indices
  /\ fastIt' = fastIt + 1
  /\ UNCHANGED <<spc, desc, positions, excerpts>>

-----------------------------------------------------------------------------
Letter == <<"letter">>
TwoBytes == <<"lead2", "rest">>
Chinese == <<"lead", "rest", "rest">>
FourBytes == <<"lead4", "rest", "rest", "rest">>

NotFound == -1    \* string::npos as an int

\* Where characters begin.
Starts(text) == {p \in 0 .. Len(text) - 1 : text[p + 1] # "rest"}

\* The positions in their order.
Ascending(ps) ==
  [i \in 1 .. Cardinality(ps) |-> CHOOSE p \in ps : Cardinality({q \in ps : q < p}) = i - 1]

SumStart(text, ps) ==
  /\ spc = "merge"
  /\ desc = text
  /\ positions = ps
  /\ indices = Ascending(ps)
  /\ slowIt = 1 /\ fastIt = 2
  /\ excerpts = {}

\* What is left of a description may be empty, and where a word is not in it
\* find's npos is a position like the others.
SumInit ==
  \E n \in 0 .. MaxChars : \E chars \in [1 .. n -> {Letter, TwoBytes, Chinese, FourBytes}] :
    LET text == FlattenSeq(chars)
    IN  \E ps \in (SUBSET (Starts(text) \union {NotFound})) \ {{}} : SumStart(text, ps)

Close(slowPos, fastPos) == fastPos < slowPos + Window

\* One round of the merging loop: a position close to the last one kept is
\* erased, and both iterators stay.
Merge ==
  /\ spc = "merge" /\ fastIt <= Len(indices)
  /\ IF Close(indices[slowIt], indices[fastIt])
     THEN /\ indices' = RemoveAt(indices, fastIt)
          /\ UNCHANGED <<slowIt, fastIt>>
     ELSE /\ slowIt' = slowIt + 1
          /\ fastIt' = fastIt + 1
          /\ UNCHANGED indices
  /\ UNCHANGED <<spc, desc, positions, excerpts>>

Merged ==
  /\ spc = "merge" /\ fastIt > Len(indices)
  /\ spc' = "cut"
  /\ UNCHANGED <<desc, positions, indices, slowIt, fastIt, excerpts>>

\* (c & 0xe0) == 0xe0: the first byte of three or of four, not of two.
IsLead(p) == p < Len(desc) /\ desc[p + 1] \in {"lead", "lead4"}

\* The window of a position, from its first to before its last byte.
From(p) == IF p >= Window THEN p - Window ELSE 0
To(p) == IF From(p) + 2 * Window < Len(desc) THEN From(p) + 2 * Window ELSE Len(desc)

\* The bytes cut at either end when the character there is not whole.  At the
\* front two are cut also where two letters stand.  What lies before the text
\* that is left is read too, but then there is nothing to cut.
CutFront(from) == IF IsLead(from) THEN 0 ELSE IF IsLead(from + 1) THEN 1 ELSE 2
CutBack(from, to) ==
  IF to - 1 >= from /\ IsLead(to - 1) THEN 1 ELSE IF to - 2 >= from /\ IsLead(to - 2) THEN 2 ELSE 0

\* substr of what is shorter throws, which ends the process: the index read in
\* front of it may lie behind an empty text, but either answer leads there.
Cut ==
  /\ spc = "cut" /\ indices # <<>>
  /\ LET p == Head(indices)
         from == From(p) + CutFront(From(p))
     IN IF from > To(p)
        THEN spc' = "dead" /\ UNCHANGED excerpts
        ELSE /\ excerpts' = excerpts \union {<<from, To(p) - 1 - CutBack(from, To(p))>>}
             /\ UNCHANGED spc
  /\ indices' = Tail(indices)
  /\ UNCHANGED <<desc, positions, slowIt, fastIt>>

AllCut ==
  /\ spc = "cut" /\ indices = <<>>
  /\ spc' = "done"
  /\ UNCHANGED <<desc, positions, indices, slowIt, fastIt, excerpts>>

SumNext == Merge \/ Merged \/ Cut \/ AllCut

-----------------------------------------------------------------------------
Only(bytes) == \A i \in DOMAIN desc : desc[i] \in bytes

\* Of a text of letters and Chinese characters an excerpt begins and ends with
\* whole ones.  The first character of every word of the query that begins
\* with three bytes or four is in an excerpt when the text has Chinese
\* characters only; others before it can move it to where an excerpt is cut,
\* but not further.  Words that are not found take no excerpt from the others.
\* A text that has fewer than two bytes, and no other, ends the process.
WordsShown ==
  /\ spc = "done" =>
       /\ Len(desc) >= 2
       /\ Only({"letter", "lead", "rest"}) =>
            \A e \in excerpts : \A end \in {e[1], e[2] + 1} : end \in Starts(desc) \union {Len(desc)}
       /\ \A p \in positions \ {NotFound} : IsLead(p) =>
            \E e \in excerpts :
              /\ e[1] <= p /\ p <= e[2] + 1
              /\ Only({"lead", "rest"}) => p + 2 <= e[2]
  /\ spc = "dead" => Len(desc) < 2
=============================================================================
