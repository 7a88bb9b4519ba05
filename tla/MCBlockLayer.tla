---------------------------- MODULE MCBlockLayer ----------------------------
(* Small instances of BlockLayer for TLC.                                  *)
EXTENDS BlockLayer, TLC

Symmetry == Permutations(Proc)
=============================================================================
