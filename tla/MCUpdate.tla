------------------------------ MODULE MCUpdate ------------------------------
(* Instances of Update for TLC.                                            *)
EXTENDS Update, TLC

CONSTANTS a1, a2, a3, a4

OneEach == [a \in Agent |-> 1]
TwoEach == [a \in Agent |-> 2]

Symmetry == Permutations(Agent)
=============================================================================
