---------------------------- MODULE RecencyList ----------------------------
(***************************************************************************)
(* What a least-recently-used cache promises: it holds the most recently    *)
(* used keys, each with the value it was last put with, and it forgets one   *)
(* only when it is full and that one was used longest ago.                  *)
(***************************************************************************)
EXTENDS Integers, SequencesExt

CONSTANTS Keys, Vals

VARIABLES
  list,           \* the pairs, most recently used first
  limit,          \* how many of them are kept
  answer          \* what the last lookup returned; <<>> for nothing

Take(n, s) == SubSeq(s, 1, IF n < Len(s) THEN n ELSE Len(s))
Without(s, k) ==
  IF \E i \in DOMAIN s : s[i].key = k
  THEN RemoveAt(s, CHOOSE i \in DOMAIN s : s[i].key = k)
  ELSE s
UseOf(s, n, p) == Take(n, <<p>> \o Without(s, p.key))

\* It may start with what a backup holds, all of it.
Init ==
  /\ list \in Seq([key : Keys, val : Vals])
  /\ \A i, j \in DOMAIN list : list[i].key = list[j].key => i = j
  /\ limit \in Nat /\ limit >= Len(list)
  /\ answer = <<>>

Put(k, v) ==
  /\ list' = UseOf(list, limit, [key |-> k, val |-> v])
  /\ UNCHANGED <<limit, answer>>

Get(k) ==
  \/ /\ \A i \in DOMAIN list : list[i].key # k
     /\ answer' = <<>>
     /\ UNCHANGED <<list, limit>>
  \/ \E i \in DOMAIN list :
       /\ list[i].key = k
       /\ list' = UseOf(list, limit, list[i])
       /\ answer' = <<list[i].val>>
       /\ UNCHANGED limit

Next == \E k \in Keys : Get(k) \/ \E v \in Vals : Put(k, v)

Spec == Init /\ [][Next]_<<list, limit, answer>>
=============================================================================
