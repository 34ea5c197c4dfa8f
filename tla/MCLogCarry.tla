----------------------------- MODULE MCLogCarry -----------------------------
(* Instances of LogCarry for TLC.                                          *)
EXTENDS LogCarry
=============================================================================
