------------------------------- MODULE MCTxg -------------------------------
(* Instances of Txg for TLC.                                               *)
EXTENDS Txg, TLC

\* The threads of one kind are interchangeable.
Symmetry == Permutations(Txers) \cup Permutations(Waiters)
=============================================================================
