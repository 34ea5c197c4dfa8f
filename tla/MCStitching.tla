---------------------------- MODULE MCStitching ----------------------------
(* Small instances of Stitching: a machine nobody writes on is no other's twin, and a
   property over behaviours rules symmetry out, so none is declared. *)
EXTENDS Stitching, TLC

=============================================================================
