------------------------------ MODULE MCLiveTally ------------------------------
(* LiveTally on chains of two blocks of two events: one policy that is tracked *)
(* and one that is not, one client.                                            *)
EXTENDS LiveTally
==============================================================================
