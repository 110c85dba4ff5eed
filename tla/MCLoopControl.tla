---------------------------- MODULE MCLoopControl ----------------------------
(* All functions of a few statements.                                      *)
EXTENDS LoopControl
=============================================================================
