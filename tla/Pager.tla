------------------------------- MODULE Pager -------------------------------
(***************************************************************************)
(* The pages of a web answer on the client's screen: handleWebPages and       *)
(* splitPages of its ProtocolParser.  A page is its index; the comparisons    *)
(* with pages.size() are made in unsigned arithmetic, and all of them here    *)
(* have a non-negative difference, which PagerInBounds depends on.            *)
(***************************************************************************)
EXTENDS Integers

CONSTANTS PageSize      \* _pageSize

ASSUME PagerAssumption == PageSize \in Nat \ {0}

VARIABLES
  count,        \* pages.size(), 0 while no answer is shown
  curIdx,
  printed,      \* the indices the last print loop used
  seen          \* history: all indices printed since the answer came

pagerVars == <<count, curIdx, printed, seen>>

-----------------------------------------------------------------------------
(* Faulty variants, each a bug this code could have; used by no definition. *)

\* '>' stops a page early.
MoreToComeEarly == curIdx < count - PageSize - 1

\* '>' is not refused at the end, '<' not at the start.
MoreToComeAlways == curIdx >= 0
LessBeforeAlways == curIdx < count

-----------------------------------------------------------------------------
Screen(from, to) ==
  /\ printed' = from .. to - 1
  /\ seen' = seen \union printed'

PagerInit == count = 0 /\ curIdx = 0 /\ printed = {} /\ seen = {}

\* Returns at once when one screen holds all, and waits for keys otherwise.
splitPages(n) ==
  /\ count' = n
  /\ curIdx' = 0
  /\ printed' = 0 .. (IF n <= PageSize THEN n ELSE PageSize) - 1
  /\ seen' = printed'

\* The conditions of the branches for '<' and '>'.
LessBefore == curIdx >= PageSize /\ curIdx < count
MoreToCome == curIdx < count - PageSize /\ curIdx >= 0

PreviousPage ==
  /\ LessBefore
  /\ curIdx' = curIdx - PageSize
  /\ Screen(curIdx', curIdx' + PageSize)
  /\ UNCHANGED count

NextPage ==
  /\ MoreToCome
  /\ curIdx' = curIdx + PageSize
  /\ Screen(curIdx', IF curIdx' + PageSize < count THEN curIdx' + PageSize ELSE count)
  /\ UNCHANGED count
=============================================================================
