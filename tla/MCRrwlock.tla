----------------------------- MODULE MCRrwlock -----------------------------
(***************************************************************************)
(* Rrwlock for TLC.                                                        *)
(***************************************************************************)
EXTENDS Rrwlock, TLC

CONSTANTS r1, r2, r3

\* Two readers share a lock, the third uses the other one.
TwoLocks == [t \in Readers |-> IF t = r1 THEN 0 ELSE 1]
=============================================================================
