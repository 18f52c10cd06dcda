--------------------------- MODULE MCSearchServer ---------------------------
(* SearchServer for TLC: which requests the database may come to match.     *)
EXTENDS SearchServer

CONSTANTS cn
MCMatches == {"1", "2"} \X {cn}
=============================================================================
