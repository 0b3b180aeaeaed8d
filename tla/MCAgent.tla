------------------------------ MODULE MCAgent ------------------------------
(* Model-checking instance of Agent.                                       *)
EXTENDS Agent

=============================================================================
