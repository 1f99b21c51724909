-------------------------------- MODULE Fifo --------------------------------
(***************************************************************************)
(* What linear::fcgi::Queue<T> promises its single producer and its single *)
(* consumer: an unbounded first-in first-out queue.  q holds the values    *)
(* produced and not yet consumed, out every value consume() has returned,  *)
(* in order.                                                               *)
(***************************************************************************)
EXTENDS Sequences

CONSTANT Value

VARIABLES q, out

Init ==
    /\ q = <<>>
    /\ out = <<>>

Produce(t) ==
    /\ q' = Append(q, t)
    /\ out' = out

Consume ==
    /\ q # <<>>
    /\ q' = Tail(q)
    /\ out' = Append(out, Head(q))

Next == (\E t \in Value : Produce(t)) \/ Consume

Spec == Init /\ [][Next]_<<q, out>>
=============================================================================
