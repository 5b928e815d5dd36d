---------------------------- MODULE MCMlxThread ----------------------------
(* Instances of MlxThread for TLC.                                          *)
EXTENDS MlxThread, TLC
=============================================================================
