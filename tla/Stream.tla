------------------------------- MODULE Stream -------------------------------
(***************************************************************************)
(* What one direction of the relay promises its two ends: a bounded stream *)
(* of bytes, delivered in order, that ends cleanly only when everything    *)
(* has been delivered, unless it broke.  A byte is its position.           *)
(***************************************************************************)
EXTENDS Integers, Sequences

CONSTANT Limit   \* bytes that may be held, 0 for no limit

VARIABLES
  in,       \* bytes accepted from the source
  got,      \* bytes handed to the destination
  closed,   \* the source has ended
  broken,   \* the stream has failed
  ended     \* the destination has been told that there is no more

vars == <<in, got, closed, broken, ended>>

\* the first n bytes of the stream
First(n) == [i \in 1 .. n |-> i]

Init == in = 0 /\ got = <<>> /\ closed = FALSE /\ broken = FALSE /\ ended = FALSE

Accept ==
  /\ ~closed /\ ~broken
  /\ in' \in Nat /\ in' > in /\ (Limit > 0 => in' - Len(got) <= Limit)
  /\ UNCHANGED <<got, closed, broken, ended>>

Deliver ==
  /\ ~ended
  /\ \E n \in Len(got) + 1 .. in : got' = First(n)
  /\ UNCHANGED <<in, closed, broken, ended>>

Close == ~closed /\ closed' = TRUE /\ UNCHANGED <<in, got, broken, ended>>
Break == broken' = TRUE /\ UNCHANGED <<in, got, closed, ended>>

End ==
  /\ broken \/ (closed /\ Len(got) = in)
  /\ ended' = TRUE
  /\ UNCHANGED <<in, got, closed, broken>>

Next == Accept \/ Deliver \/ Close \/ Break \/ End

Spec == Init /\ [][Next]_vars
=============================================================================
