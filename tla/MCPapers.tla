------------------------------ MODULE MCPapers ------------------------------
(* Two machines, a document of two blocks. *)
EXTENDS Papers, TLC

CONSTANTS b1, b2

BlockSymmetry == Permutations(Blocks)
=============================================================================
