------------------------------ MODULE MCScopes ------------------------------
(* A small instance of Scopes for TLC.                                      *)
EXTENDS Scopes, TLC

CONSTANTS x, y, e1, e2, e3, e4, e5

EnvSymmetry == Permutations(Addr) \cup Permutations(Chars)
=============================================================================
