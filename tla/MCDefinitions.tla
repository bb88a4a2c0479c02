---------------------------- MODULE MCDefinitions ----------------------------
(* A small instance of Definitions for TLC.                                 *)
EXTENDS Definitions, TLC

CONSTANTS f, g, x

SpellingSymmetry == Permutations(Spelling)
=============================================================================
