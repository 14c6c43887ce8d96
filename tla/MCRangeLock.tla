---------------------------- MODULE MCRangeLock ----------------------------
(***************************************************************************)
(* RangeLockTree for TLC.                                                  *)
(***************************************************************************)
EXTENDS RangeLockTree, TLC

Symmetry == Permutations(Threads)
=============================================================================
