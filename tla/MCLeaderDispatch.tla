-------------------------- MODULE MCLeaderDispatch --------------------------
(* Instances of LeaderDispatch for TLC: agents and jobs are numbers.       *)
EXTENDS LeaderDispatch, TLC

CONSTANTS w1, w2, Submits, Patches, Deletes, Handbacks, Restarts, Cuts, Losses, Leaves, Events

\* How often each event happens, and all of them together.
MCBound == [e \in Event |->
  CASE e = "submit"   -> Submits   [] e = "patch"   -> Patches
    [] e = "delete"   -> Deletes
    [] e = "handback" -> Handbacks [] e = "restart" -> Restarts
    [] e = "cut"      -> Cuts      [] e = "lost"    -> Losses
    [] e = "leave"    -> Leaves    [] e = "any"     -> Events]

\* One instance each; or job 2 a daemon.
Singles  == [j \in Job |-> 1]
TwoIsDaemon == [j \in Job |-> IF j = 2 THEN -1 ELSE 1]

Anywhere == [j \in Job |-> Agent]
\* Job 1 fits agent 2 only; no job fits the leader's own agent.
OnePinned == [j \in Job |-> IF j = 1 THEN {2} ELSE Agent]
NotHome   == [j \in Job |-> Agent \ {Home}]

Roomy == [a \in Agent |-> 6]
Tight == [a \in Agent |-> 1]

Symmetry == Permutations(Worker)
=============================================================================
