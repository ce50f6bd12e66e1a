---------------------------- MODULE BoundedQueue ----------------------------
(***************************************************************************)
(* What the bounded buffer promises: values come out in the order they     *)
(* went in, and at most Capacity are in it.                                *)
(***************************************************************************)
EXTENDS Naturals, Sequences

CONSTANTS Values, Capacity

VARIABLES
    contents,   \* the values in the buffer, first first
    val         \* the value taken last

BQInit == contents = <<>> /\ val \in Values

Enq(v) == /\ Len(contents) < Capacity
          /\ contents' = Append(contents, v)
          /\ UNCHANGED val

Deq == /\ contents # <<>>
       /\ val' = Head(contents)
       /\ contents' = Tail(contents)

BQNext == Deq \/ \E v \in Values : Enq(v)

BQSpec == BQInit /\ [][BQNext]_<<contents, val>>
=============================================================================
