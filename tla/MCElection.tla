----------------------------- MODULE MCElection -----------------------------
(* Instances of Election for TLC.                                          *)
EXTENDS Election, TLC

CONSTANTS n1, n2, n3
=============================================================================
