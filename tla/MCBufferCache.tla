--------------------------- MODULE MCBufferCache ---------------------------
(* Small instances of BufferCache for TLC.                                 *)
EXTENDS BufferCache, TLC

Symmetry == Permutations(Proc) \cup Permutations(Block)
=============================================================================
