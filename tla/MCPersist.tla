------------------------------ MODULE MCPersist ------------------------------
(* Instances of Persist for TLC.                                           *)
EXTENDS Persist, TLC

CONSTANTS n1, n2, j1
=============================================================================
