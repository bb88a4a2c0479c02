---------------------------- MODULE MCBumpArena ----------------------------
(* A small instance of BumpArena for TLC: 32-byte chunks, two of them      *)
(* adjacent.                                                               *)
EXTENDS BumpArena, TLC

CONSTANTS a1, a2, a3, c1, c2, c3

Starts == c1 :> 64 @@ c2 :> 96 @@ c3 :> 320

ArenaSymmetry == Permutations(Arena)
=============================================================================
