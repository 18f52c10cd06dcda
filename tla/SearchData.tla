----------------------------- MODULE SearchData -----------------------------
(***************************************************************************)
(* The data the server searches, and how it is searched: the two offline      *)
(* programs with the queries on their tables, and the excerpts of a web       *)
(* answer.  They share no state while they run, so a behaviour is one of any  *)
(* of them.                                                                  *)
(***************************************************************************)
EXTENDS Dictionary, PageLibrary, Summary

VARIABLE program      \* which of them runs

vars == <<program, dictVars, libVars, sumVars>>

Init ==
  \/ program = "dictionary" /\ DictInit /\ LibStart(<<>>, {}) /\ SumStart(Letter, {0})
  \/ program = "pages" /\ DictStart(<<>>, <<>>) /\ LibInit /\ SumStart(Letter, {0})
  \/ program = "excerpts" /\ DictStart(<<>>, <<>>) /\ LibStart(<<>>, {}) /\ SumInit

Next ==
  \/ program = "dictionary" /\ DictNext /\ UNCHANGED <<program, libVars, sumVars>>
  \/ program = "pages" /\ LibNext /\ UNCHANGED <<program, dictVars, sumVars>>
  \/ program = "excerpts" /\ SumNext /\ UNCHANGED <<program, dictVars, libVars>>

Spec == Init /\ [][Next]_vars

-----------------------------------------------------------------------------
TypeOK ==
  /\ dpc \in {"read", "insert", "index", "done"} /\ lang \in Languages
  /\ pos \in 0 .. Len(order) /\ Len(order) <= Cardinality(AllWords)
  /\ \A l \in Languages : Len(dict[l]) <= Cardinality(AllWords)
  /\ Len(failed) <= MaxFailures
  /\ lpc \in {"read", "slow", "fast", "create", "insert", "done", "dead"}
  /\ pageLib \in UNION {[1 .. n -> Pages] : n \in 0 .. MaxItems}
  /\ slow \in 1 .. MaxItems + 1 /\ fast \in 1 .. MaxItems + 2
  /\ spc \in {"merge", "cut", "done", "dead"}
  /\ slowIt \in 1 .. Cardinality(positions) /\ fastIt = slowIt + 1
=============================================================================
