---------------------------- MODULE MCAtomicFile ----------------------------
(***************************************************************************)
(* A small instance of AtomicFile for TLC.                                 *)
(***************************************************************************)
EXTENDS AtomicFile, TLC

Symmetry == Permutations(Inodes) \cup Permutations(Writers) \cup Permutations(Texts)
=============================================================================
