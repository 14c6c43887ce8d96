-------------------------- MODULE MCSpaConfigLock --------------------------
(***************************************************************************)
(* SpaConfigLock for TLC.                                                  *)
(***************************************************************************)
EXTENDS SpaConfigLock, TLC

Symmetry == Permutations(Readers) \cup Permutations(Writers)
=============================================================================
