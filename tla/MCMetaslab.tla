----------------------------- MODULE MCMetaslab -----------------------------
(* Instances of the metaslabs of a pool for TLC.                            *)
EXTENDS Metaslab, TLC

CONSTANTS m0, m1, m2, o1, o2

\* A pool with metaslabs M and offsets O of each and space to spare, and the bounds of an
\* instance.
Pool(M, O, feature, txgs, passes, checkpoints, crashes) ==
    [metaslabs |-> M, offsets |-> O, feature |-> feature, low |-> FALSE, txgs |-> txgs,
     passes |-> passes, checkpoints |-> checkpoints, crashes |-> crashes]

\* Two metaslabs that share the logs and the memory limit and evict each other, with frees
\* in one txg or open-context allocations through two; a pool down to its slop space, with
\* a crash or a checkpoint; one segment through deferral, checkpoint and discard; and, with
\* the feature and without it, a crash under a checkpoint, with and without the rewind to
\* it, a crash between the txgs of a deferral, two segments of a metaslab and a crash.
MCInstances ==
    {Pool({m1, m2}, {o1}, TRUE, 2, 1, 0, 0), Pool({m1, m2}, {o1}, TRUE, 3, 0, 0, 0),
     [Pool({m0}, {o1}, TRUE, 4, 1, 0, 1) EXCEPT !.low = TRUE],
     [Pool({m0}, {o1}, FALSE, 4, 1, 1, 0) EXCEPT !.low = TRUE],
     Pool({m0}, {o1}, TRUE, 5, 1, 1, 0), Pool({m0}, {o1}, FALSE, 5, 2, 1, 0)}
        \cup UNION {{Pool({m0}, {o1}, feature, 4, 1, 1, 1),
                     Pool({m0}, {o1}, feature, 5, 2, 0, 1),
                     Pool({m0}, {o1, o2}, feature, 3, 1, 0, 1)}: feature \in BOOLEAN}

Symmetry == Permutations({m1, m2})
=============================================================================
