----------------------------- MODULE MCCodegen -----------------------------
(* The compilation of all functions of at most MaxNodes nodes.              *)
EXTENDS Codegen
=============================================================================
