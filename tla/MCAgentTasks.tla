---------------------------- MODULE MCAgentTasks ----------------------------
(* Instances of AgentTasks for TLC.                                        *)
EXTENDS AgentTasks

CONSTANTS j1, t1, t2, r1

OneJob == [t \in Task |-> j1]
=============================================================================
