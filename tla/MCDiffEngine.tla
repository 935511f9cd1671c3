--------------------------- MODULE MCDiffEngine ---------------------------
(* Model checking of DiffEngine: hashes are interchangeable.              *)
EXTENDS DiffEngine, TLC

HashSymmetry == Permutations(Hashes)
===========================================================================
