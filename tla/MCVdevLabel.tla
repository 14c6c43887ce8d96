---------------------------- MODULE MCVdevLabel ----------------------------
(* Instances of the label and uberblock sync for TLC.                       *)
EXTENDS VdevLabel, TLC

CONSTANTS v1, v2

MCVdevs == {v1, v2}
MCTearable == {0, 3}
Symmetry == Permutations(MCVdevs)
============================================================================
