------------------------------ MODULE MCBridge ------------------------------
(***************************************************************************)
(* Instances of Bridge for TLC.                                            *)
(***************************************************************************)
EXTENDS Bridge, TLC

CONSTANTS c1, c2, c3

OneClient == {c1}
TwoClients == {c1, c2}
ThreeClients == {c1, c2, c3}

Symmetry == Permutations(Client)
=============================================================================
