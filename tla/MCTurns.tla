------------------------------ MODULE MCTurns ------------------------------
(* Small instances of Turns: tasks are interchangeable. *)
EXTENDS Turns, TLC

TaskSymmetry == Permutations(Tasks)
=============================================================================
