--------------------------- MODULE BoundedBuffer ---------------------------
(***************************************************************************)
(* What the task queue between the event loop and the worker threads       *)
(* promises, whatever its locking: a first-in first-out buffer of at most   *)
(* Capacity elements.  The elements are numbered in the order in which      *)
(* they enter, so that "delivered once, in order, none skipped" is visible  *)
(* in the state: got is the last element delivered.                         *)
(***************************************************************************)
EXTENDS Naturals, Sequences

CONSTANT Capacity       \* the largest number of buffered elements

VARIABLES buf,          \* the buffered elements, oldest first
          sent,         \* the number of elements that entered
          got           \* the last element delivered, 0 before the first

vars == <<buf, sent, got>>

Init ==
  /\ buf = <<>>
  /\ sent = 0
  /\ got = 0

Put ==
  /\ Len(buf) < Capacity
  /\ buf' = Append(buf, sent + 1)
  /\ sent' = sent + 1
  /\ UNCHANGED got

\* Some consumer receives the oldest element, the successor of the last one.
Get ==
  /\ buf # <<>>
  /\ Head(buf) = got + 1
  /\ got' = got + 1
  /\ buf' = Tail(buf)
  /\ UNCHANGED sent

Next == Put \/ Get

Spec == Init /\ [][Next]_vars
=============================================================================
