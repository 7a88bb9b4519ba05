---------------------------- MODULE MCInodeTable ----------------------------
(* Small instances of InodeTable for TLC.                                  *)
EXTENDS InodeTable, TLC

Symmetry == Permutations(Proc)
=============================================================================
