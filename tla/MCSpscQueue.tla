---------------------------- MODULE MCSpscQueue -----------------------------
(***************************************************************************)
(* Four addresses and four calls of produce(): enough for the list to grow *)
(* while the reader is inside consume(), for the trimming loop to run more *)
(* than once, and for the address of a deleted node to come back.          *)
(***************************************************************************)
EXTENDS SpscQueue

CONSTANTS n1, n2, n3, n4, a, b

MCNode == {n1, n2, n3, n4}
MCValue == {a, b}
=============================================================================
