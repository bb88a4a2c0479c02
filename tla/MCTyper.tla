------------------------------ MODULE MCTyper ------------------------------
(* Definitions with few variables, for TLC.                                 *)
EXTENDS Typer

CONSTANTS u1, u2, u3, u4, f1, f2
=============================================================================
