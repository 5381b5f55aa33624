--------------------------- MODULE MCPauseGuardian ---------------------------
(* PauseGuardian with the small sets of the cfg files; liveness rules out     *)
(* symmetry.                                                                  *)
EXTENDS PauseGuardian
==============================================================================
