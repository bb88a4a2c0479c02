---------------------------- MODULE MCDominators ----------------------------
(* A small instance of Dominators for TLC.                                  *)
EXTENDS Dominators
=============================================================================
