---------------------------- MODULE MCProjection ----------------------------
(* Small instances of Projection: devices are numbers, since their names order the lines
   stamped alike, and the rows are alike. *)
EXTENDS Projection, TLC

RowSymmetry == Permutations(Rows)
=============================================================================
