------------------------------ MODULE MCZthr ------------------------------
(***************************************************************************)
(* Zthr for TLC.                                                           *)
(***************************************************************************)
EXTENDS Zthr, TLC

Symmetry == Permutations(Requesters)
=============================================================================
