----------------------------- MODULE MCShelves -----------------------------
(* Small instances of Shelves: folders and documents are interchangeable. *)
EXTENDS Shelves, TLC

IdentitySymmetry == Permutations(Folders) \union Permutations(Docs)
=============================================================================
