-------------------------------- MODULE Lease --------------------------------
(***************************************************************************)
(* What a leader lease promises, whatever store keeps it: at any time at   *)
(* most one node has a valid right to lead, a right ends by being given up *)
(* or by running out, and who serves as leader without a valid right once  *)
(* had one that ran out under it.  Election implements this.               *)
(***************************************************************************)
CONSTANT Node

VARIABLES right,     \* what each node's claim is worth
          serving    \* the nodes that act as leader

vars == <<right, serving>>

Right == {"none", "valid", "lapsed"}

TypeOK ==
  /\ right \in [Node -> Right]
  /\ serving \subseteq Node

Init ==
  /\ right = [n \in Node |-> "none"]
  /\ serving = {}

Becomes(n, r) == right' = [right EXCEPT ![n] = r]

\* Nobody holds a right that is still valid, or n renews its own.
Claim(n) ==
  /\ \A m \in Node \ {n} : right[m] # "valid"
  /\ Becomes(n, "valid")
  /\ UNCHANGED serving

\* Time passes; only a node that serves, or is about to, is the worse for it.
RunOut(n) ==
  /\ right[n] = "valid"
  /\ \/ Becomes(n, "lapsed")
     \/ n \notin serving /\ Becomes(n, "none")
  /\ UNCHANGED serving

Lead(n) ==
  /\ right[n] # "none"
  /\ serving' = serving \cup {n}
  /\ UNCHANGED right

\* A node stops serving; a right that ran out is then gone, a valid one is not.
StopLeading(n) ==
  /\ serving' = serving \ {n}
  /\ Becomes(n, IF right[n] = "valid" THEN "valid" ELSE "none")

\* Only a node that does not serve gives its right back.
GiveBack(n) ==
  /\ n \notin serving
  /\ right[n] = "valid"
  /\ Becomes(n, "none")
  /\ UNCHANGED serving

Next == \E n \in Node :
  Claim(n) \/ RunOut(n) \/ Lead(n) \/ StopLeading(n) \/ GiveBack(n)

Spec == Init /\ [][Next]_vars
=============================================================================
