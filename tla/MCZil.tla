------------------------------- MODULE MCZil -------------------------------
(* Instances of the intent log for TLC.                                     *)
EXTENDS Zil, TLC

CONSTANTS a, b

MCThreads == {a, b}
Symmetry == Permutations(MCThreads)

\* Two threads that commit, with a fault; the same beside a suspension, without.
MCBounds == {
    [recs |-> 2, commits |-> 1, txg |-> 2, faults |-> 1, suspends |-> 0],
    [recs |-> 1, commits |-> 1, txg |-> 1, faults |-> 0, suspends |-> 1]}
============================================================================
