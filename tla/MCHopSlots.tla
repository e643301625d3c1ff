----------------------------- MODULE MCHopSlots -----------------------------
EXTENDS HopSlots, TLC

CONSTANTS t1, t2

\* One core, one of the first core's class, two cores, and a pool of two.
Some == {[cores |-> 1, shared |-> FALSE, class |-> Cage],
         [cores |-> 1, shared |-> FALSE, class |-> {1}],
         [cores |-> 2, shared |-> FALSE, class |-> Cage],
         [cores |-> 2, shared |-> TRUE, class |-> Cage]}

Sym == Permutations(Task)
=============================================================================
