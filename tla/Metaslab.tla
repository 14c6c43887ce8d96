------------------------------ MODULE Metaslab ------------------------------
(***************************************************************************)
(* The life of a disk segment (module/zfs/metaslab.c): allocated, written  *)
(* to the space maps by metaslab_sync(), freed, deferred and returned by   *)
(* metaslab_sync_done(), with the pool-wide log of space maps              *)
(* (spa_log_spacemap.c), the pool checkpoint (spa_checkpoint.c) and the    *)
(* passes of spa_sync() (spa.c) that drive them.  Loads of a space map,    *)
(* allocations in open context and the tasks of metaslab_sync_done() run   *)
(* beside the sync thread.  A crash loses what is only in core.            *)
(*                                                                         *)
(* A segment is a metaslab and an offset, the unit of allocation.  A space *)
(* map is the set of segments it says are allocated.                       *)
(*                                                                         *)
(* Left out: weights, histograms, the choice of a metaslab, new metaslabs  *)
(* (ms_new, no space map yet), removed and expanding vdevs, trims, ganging,*)
(* dedup and cloned blocks, the export of a pool.                          *)
(***************************************************************************)
EXTENDS Integers, FiniteSets, Sequences, SequencesExt

CONSTANTS
    UnloadDelay,     \* metaslab_unload_delay
    Instances,       \* pools, and bounds on what happens to them
    None

\* The metaslabs of a pool and their offsets; whether log_spacemap is enabled; whether it
\* may be down to its slop space; the last txg, the passes in which the DSL allocates and
\* frees, checkpoints taken, crashes.
InstanceType(i) ==
    /\ DOMAIN i = {"metaslabs", "offsets", "feature", "low", "txgs", "passes", "checkpoints",
                   "crashes"}
    /\ IsFiniteSet(i.metaslabs) /\ IsFiniteSet(i.offsets) /\ None \notin i.metaslabs
    /\ {i.feature, i.low} \subseteq BOOLEAN
    /\ {i.txgs, i.passes, i.checkpoints, i.crashes} \subseteq Nat

ASSUME MetaslabAssumption ==
    /\ UnloadDelay \in Nat \ {0}
    /\ \A i \in Instances: InstanceType(i)

TXG_SIZE == 4
TXG_DEFER_SIZE == 2
zfs_sync_pass_deferred_free == 2

VARIABLES
    spa,           \* spa_t: where spa_sync() is
    ms,            \* [Metaslabs -> metaslab_t]
    vdev_ms_list,  \* [slots -> metaslabs that are dirty]
    mos,           \* the state of the pool that the txg in sync will commit
    disk,          \* the state that the last committed uberblock reaches
    zil,           \* blocks of the intent log that no committed txg has seen
    rewind,        \* [recent committed txgs -> the segments of their blocks]
    spoiled,       \* txgs of rewind, or of the checkpoint, with a block overwritten
    freed_txg,     \* [Segs -> the txg that freed it, until it may be allocated; else 0]
    bound          \* one of Instances, with the checkpoints and crashes that are left

ghost == <<zil, rewind, spoiled, freed_txg>>
vars == <<spa, ms, vdev_ms_list, mos, disk, ghost, bound>>

txg == spa.spa_syncing_txg
pass == spa.spa_sync_pass

Metaslabs == bound.metaslabs
Offsets == bound.offsets
Segs == Metaslabs \X Offsets
Of(m) == {m} \X Offsets
Home(s) == s[1]
Slot(t) == t % TXG_SIZE
TXG_CLEAN(t) == (t - 1) % TXG_SIZE

-----------------------------------------------------------------------------
(* A metaslab, and a pool as it is found on disk.                           *)

Changes(allocs, frees) == [allocs |-> allocs, frees |-> frees]

\* A metaslab that is not loaded, whose space map says that sm is allocated and the
\* logs that u.allocs and u.frees have changed since.
metaslab_init(sm, u, utxg, dirty) ==
    [ms_allocatable |-> {},
     ms_allocating |-> [t \in 0..TXG_SIZE - 1 |-> {}],
     ms_allocating_total |-> 0, ms_allocated_this_txg |-> 0,
     ms_freeing |-> {}, ms_checkpointing |-> {}, ms_freed |-> {},
     ms_defer |-> [t \in 0..TXG_DEFER_SIZE - 1 |-> {}],
     ms_loaded |-> FALSE, ms_loading |-> FALSE,
     load |-> None,                 \* what metaslab_load_impl() reads of the space map
     ms_condensing |-> FALSE, ms_flushing |-> FALSE,
     walk |-> {},                   \* what metaslab_condense() writes of ms_allocatable
     emptied |-> FALSE,             \* ms_allocatable was emptied before it had been written
     ms_sm |-> sm, synced |-> sm,   \* the space map, and its part up to ms_synced_length
     ms_unflushed_allocs |-> u.allocs, ms_unflushed_frees |-> u.frees,
     ms_unflushed_txg |-> utxg, ms_unflushed_dirty |-> dirty,
     ms_selected_txg |-> 0]

\* spa_sync() is not running, after txg t.
SpaIdle(t, claim_max) ==
    [spa_syncing_txg |-> t, spa_sync_pass |-> 0,
     phase |-> "idle",
     job |-> <<None, "none">>,           \* the metaslab whose ms_sync_lock is held, and why
     seen |-> {},                        \* metaslabs that spa_flush_metaslabs() has visited
     dirty |-> FALSE,                    \* the MOS is dirty in this pass
     spa_syncing_log_sm |-> FALSE,
     spa_sync_tq |-> {},                 \* metaslabs that metaslab_sync_done() has to do
     spa_claim_max_txg |-> claim_max]

\* A VERIFY fails and the machine stops.
Panic == [spa EXCEPT !.phase = "panic", !.job = <<None, "none">>]

Running == spa.phase # "panic"

\* zfs_range_tree_remove_xor_add() of the allocations, then of the frees, of an entry.
XorAdd(u, e) ==
    LET allocs == u.allocs \cup (e.allocs \ u.frees)
        frees == u.frees \ e.allocs
    IN  Changes(allocs \ e.frees, frees \cup (e.frees \ allocs))

\* The entries of the logs that metaslab m has not flushed.
Unflushed(d, m) == SelectSeq(d.mos.log[m], LAMBDA e: e.txg >= d.utxg[m])

spa_ld_log_sm_cb(d, m) == FoldLeft(XorAdd, Changes({}, {}), Unflushed(d, m))

\* What the space map and the logs together say is allocated in metaslab m.
Allocated(d, m) ==
    LET u == spa_ld_log_sm_cb(d, m) IN (d.sm[m] \cup u.allocs) \ u.frees

Init ==
    /\ bound \in Instances
    /\ \E tree \in SUBSET Segs:
        /\ spa = SpaIdle(1, 0)
        /\ mos = [tree |-> tree,                 \* segments of the blocks in use
                  birth |-> [s \in Segs |-> IF s \in tree THEN 1 ELSE 0],
                  log |-> [m \in Metaslabs |-> <<>>],
                  active |-> FALSE,              \* log_spacemap is active
                  spa_deferred_bpobj |-> {},
                  spa_checkpoint_txg |-> 0, vdev_checkpoint_sm |-> {},
                  checkpoint |-> None,           \* what DMU_POOL_ZPOOL_CHECKPOINT reaches
                  pool_checkpoint |-> FALSE]     \* the feature is active
        /\ disk = [txg |-> 1, mos |-> mos, sm |-> [m \in Metaslabs |-> tree \cap Of(m)],
                   utxg |-> [m \in Metaslabs |-> 0]]
        /\ ms = [m \in Metaslabs |-> metaslab_init(tree \cap Of(m), Changes({}, {}), 0, FALSE)]
        /\ vdev_ms_list = [t \in 0..TXG_SIZE - 1 |-> {}]
        /\ zil = {} /\ rewind = [t \in {1} |-> tree] /\ spoiled = {}
        /\ freed_txg = [s \in Segs |-> 0]

-----------------------------------------------------------------------------
(* Allocation.                                                              *)

vdev_dirty(m, t) == [vdev_ms_list EXCEPT ![Slot(t)] = @ \cup {m}]

\* Committed states that lose a block when segment s is overwritten.
Spoils(s) == {t \in DOMAIN rewind: s \in rewind[t]} \cup
             {t \in {disk.mos.spa_checkpoint_txg} \ {0}: s \in disk.mos.checkpoint.mos.tree}

\* metaslab_block_alloc() of segment s for txg t, after metaslab_group_alloc() has set
\* ms_selected_txg.  The block is written at once: a later write spoils no more.
metaslab_block_alloc(s, t) ==
    LET m == Home(s) IN
    /\ ms[m].ms_loaded /\ ~ms[m].ms_condensing
    /\ s \in ms[m].ms_allocatable
    /\ ms' = [ms EXCEPT ![m].ms_allocatable = @ \ {s},
                        ![m].ms_allocating[Slot(t)] = @ \cup {s},
                        ![m].ms_allocating_total = @ + 1,
                        ![m].ms_selected_txg = t]
    /\ vdev_ms_list' = IF ms[m].ms_allocating[Slot(t)] = {} THEN vdev_dirty(m, t)
                       ELSE vdev_ms_list
    /\ spoiled' = spoiled \cup Spoils(s)
    /\ UNCHANGED <<disk, rewind, freed_txg, bound>>

\* The load of the pool is over: spa_load() waits until the txgs of claimed blocks are past.
SpaIsOpen == Running /\ disk.txg >= spa.spa_claim_max_txg

\* An allocation in open context: an intent log block, dmu_sync() or direct I/O.
OpenAlloc(s, t) ==
    /\ SpaIsOpen
    /\ t \in txg + 1..txg + 2 /\ t <= bound.txgs
    /\ metaslab_block_alloc(s, t)
    /\ zil' = zil \cup {s}
    /\ mos' = [mos EXCEPT !.birth[s] = t]
    /\ spa' = spa

\* An allocation by dsl_pool_sync(), for the txg that syncs.
SyncAlloc(s) ==
    /\ spa.phase = "dsl" /\ pass <= bound.passes
    /\ metaslab_block_alloc(s, txg)
    /\ zil' = zil
    /\ mos' = [mos EXCEPT !.tree = @ \cup {s}, !.birth[s] = txg]
    /\ spa' = [spa EXCEPT !.dirty = TRUE]

\* A write in open context failed and its block is given back.  The code stops the
\* machine when the metaslab is being condensed.
metaslab_unalloc_dva(s, t) ==
    LET m == Home(s) IN
    /\ SpaIsOpen
    /\ t \in txg + 1..txg + 2
    /\ s \in ms[m].ms_allocating[Slot(t)]
    /\ ms' = [ms EXCEPT ![m].ms_allocating[Slot(t)] = @ \ {s},
                        ![m].ms_allocating_total = @ - 1,
                        ![m].ms_allocatable = @ \cup {s}]
    /\ spa' = IF ms[m].ms_condensing THEN Panic ELSE spa
    /\ zil' = zil \ {s}
    /\ UNCHANGED <<vdev_ms_list, mos, disk, rewind, spoiled, freed_txg, bound>>

-----------------------------------------------------------------------------
(* Frees, in syncing context.                                               *)

\* A mutated form: a block born in the txg of the checkpoint is taken for a later one.
InCheckpointBefore(s) ==
    mos.birth[s] < mos.spa_checkpoint_txg /\ txg > mos.spa_checkpoint_txg

\* The checkpoint references the block at segment s.
InCheckpoint(s) ==
    mos.birth[s] <= mos.spa_checkpoint_txg /\ txg > mos.spa_checkpoint_txg

\* metaslab_free() and metaslab_free_concrete() of the blocks at segments S: those that
\* the checkpoint references are set aside.
metaslab_free(S) ==
    LET kept == {s \in S: InCheckpoint(s)}
    IN  /\ ms' = [m \in Metaslabs |->
                    [ms[m] EXCEPT !.ms_freeing = @ \cup ((S \ kept) \cap Of(m)),
                                  !.ms_checkpointing = @ \cup (kept \cap Of(m))]]
        /\ vdev_ms_list' = [vdev_ms_list EXCEPT ![Slot(txg)] = @ \cup
                              {m \in {Home(s): s \in S}:
                                  ms[m].ms_freeing \cup ms[m].ms_checkpointing = {}}]
        /\ freed_txg' = [s \in Segs |-> IF s \in S \ kept THEN txg ELSE freed_txg[s]]

\* The DSL frees a block.  Late in a sync, and without a log of space maps, the free is
\* left for the next txg.
zio_free(s) ==
    /\ spa.phase = "dsl" /\ pass <= bound.passes
    /\ s \in mos.tree
    /\ spa' = [spa EXCEPT !.dirty = TRUE]
    /\ IF pass >= zfs_sync_pass_deferred_free /\ ~mos.active
       THEN /\ mos' = [mos EXCEPT !.tree = @ \ {s}, !.spa_deferred_bpobj = @ \cup {s}]
            /\ UNCHANGED <<ms, vdev_ms_list, freed_txg>>
       ELSE /\ mos' = [mos EXCEPT !.tree = @ \ {s}]
            /\ metaslab_free({s})
    /\ UNCHANGED <<disk, zil, rewind, spoiled, bound>>

-----------------------------------------------------------------------------
(* The start of a sync; checkpoints.                                        *)

\* spa_sync() takes up the next txg: what open context allocated for it is part of it,
\* and its datasets make the MOS dirty.
StartSync ==
    LET allocated == UNION {ms[m].ms_allocating[Slot(txg + 1)]: m \in Metaslabs}
    IN  /\ spa.phase = "idle" /\ txg < bound.txgs
        /\ spa' = [spa EXCEPT !.spa_syncing_txg = @ + 1, !.spa_sync_pass = 1,
                              !.phase = "early", !.dirty = (allocated # {})]
        /\ mos' = [mos EXCEPT !.tree = @ \cup allocated]
        /\ UNCHANGED <<ms, vdev_ms_list, disk, ghost, bound>>

NoEarlyTask ==
    /\ spa.phase = "early"
    /\ spa' = [spa EXCEPT !.phase = "dsl"]
    /\ UNCHANGED <<ms, vdev_ms_list, mos, disk, ghost, bound>>

\* spa_ubsync, the uberblock of the txg before, becomes the checkpoint.
spa_checkpoint_sync ==
    /\ spa.phase = "early" /\ bound.checkpoints > 0
    /\ SpaIsOpen
    /\ mos.spa_checkpoint_txg = 0 /\ ~mos.pool_checkpoint
    /\ spa' = [spa EXCEPT !.phase = "dsl", !.dirty = TRUE]
    /\ mos' = [mos EXCEPT !.spa_checkpoint_txg = disk.txg, !.pool_checkpoint = TRUE,
                          !.checkpoint = disk]
    /\ bound' = [bound EXCEPT !.checkpoints = @ - 1]
    /\ UNCHANGED <<ms, vdev_ms_list, disk, ghost>>

spa_checkpoint_discard_sync ==
    /\ spa.phase = "early"
    /\ mos.spa_checkpoint_txg # 0 /\ mos.pool_checkpoint
    /\ spa' = [spa EXCEPT !.phase = "dsl", !.dirty = TRUE]
    /\ mos' = [mos EXCEPT !.spa_checkpoint_txg = 0, !.checkpoint = None]
    /\ UNCHANGED <<ms, vdev_ms_list, disk, ghost, bound>>

\* The tasks of the discard thread, which the txg before has woken.
Discarding ==
    /\ spa.phase = "dsl" /\ pass = 1
    /\ mos.pool_checkpoint /\ mos.spa_checkpoint_txg = 0
    /\ disk.mos.spa_checkpoint_txg = 0
    /\ spa' = [spa EXCEPT !.dirty = TRUE]

\* The callback may run out of entries (sdc_entry_limit) before the space map does.
spa_checkpoint_discard_thread_sync(S) ==
    /\ Discarding
    /\ S # {} /\ S \subseteq mos.vdev_checkpoint_sm
    /\ ms' = [m \in Metaslabs |-> [ms[m] EXCEPT !.ms_freeing = @ \cup (S \cap Of(m))]]
    /\ vdev_ms_list' = [vdev_ms_list EXCEPT ![Slot(txg)] = @ \cup
                          {m \in {Home(s): s \in S}: ms[m].ms_freeing = {}}]
    /\ mos' = [mos EXCEPT !.vdev_checkpoint_sm = @ \ S]
    /\ freed_txg' = [s \in Segs |-> IF s \in S THEN txg ELSE freed_txg[s]]
    /\ UNCHANGED <<disk, zil, rewind, spoiled, bound>>

spa_checkpoint_discard_complete_sync ==
    /\ Discarding
    /\ disk.mos.vdev_checkpoint_sm = {}
    /\ mos' = [mos EXCEPT !.pool_checkpoint = FALSE]
    /\ UNCHANGED <<ms, vdev_ms_list, disk, ghost, bound>>

-----------------------------------------------------------------------------
(* spa_flush_metaslabs(), in the first pass.                                *)

metaslab_unflushed_bump(r, dirty) ==
    [r EXCEPT !.ms_unflushed_txg = txg, !.ms_unflushed_dirty = dirty]

\* A mutated form: the logs that some metaslab has flushed are freed.
CleanupNewest(o, mss) ==
    LET flushed == {mss[m].ms_unflushed_txg: m \in Metaslabs} \ {0}
        Needed(e) == \A t \in flushed: t <= e.txg
    IN  [o EXCEPT !.log = [m \in Metaslabs |-> SelectSeq(@[m], Needed)]]

\* Logs that every metaslab has flushed are freed: mss are the metaslabs.
spa_cleanup_old_sm_logs(o, mss) ==
    LET flushed == {mss[m].ms_unflushed_txg: m \in Metaslabs} \ {0}
        Needed(e) == \E t \in flushed: t <= e.txg
    IN  [o EXCEPT !.log = [m \in Metaslabs |-> SelectSeq(@[m], Needed)]]

\* dsl_pool_sync() is done, and spa_flush_metaslabs() returns at once or generates a log.
DslDone ==
    /\ spa.phase = "dsl"
    /\ spa' = IF pass = 1 /\ mos.active /\ spa.dirty
              THEN [spa EXCEPT !.phase = "flush", !.seen = {}, !.spa_syncing_log_sm = TRUE]
              ELSE [spa EXCEPT !.phase = "vdev"]
    /\ UNCHANGED <<ms, vdev_ms_list, mos, disk, ghost, bound>>

\* The next metaslab in the order of spa_metaslabs_by_flushed.
FlushNext(m) ==
    LET left == {n \in Metaslabs \ spa.seen: ms[n].ms_unflushed_txg \in 1..txg - 1}
    IN  /\ spa.phase = "flush" /\ spa.job[1] = None
        /\ m \in left
        /\ \A n \in left: ms[m].ms_unflushed_txg <= ms[n].ms_unflushed_txg
        /\ UNCHANGED <<vdev_ms_list, disk, ghost, bound>>

\* A metaslab without changes moves to this txg.
FlushClean(m) ==
    /\ FlushNext(m)
    /\ ~ms[m].ms_unflushed_dirty
    /\ ms' = [ms EXCEPT ![m] = metaslab_unflushed_bump(@, FALSE)]
    /\ mos' = spa_cleanup_old_sm_logs(mos, ms')
    /\ spa' = [spa EXCEPT !.seen = @ \cup {m}]

\* metaslab_flush() passes over a metaslab that is loading.
FlushLoading(m) ==
    /\ FlushNext(m)
    /\ ms[m].ms_unflushed_dirty /\ ms[m].ms_loading
    /\ spa' = [spa EXCEPT !.seen = @ \cup {m}]
    /\ UNCHANGED <<ms, mos>>

\* metaslab_flush() drops ms_lock while it writes to the space map.
metaslab_flush(m) ==
    /\ FlushNext(m)
    /\ ms[m].ms_unflushed_dirty /\ ~ms[m].ms_loading
    /\ ms' = [ms EXCEPT ![m].ms_flushing = TRUE]
    /\ spa' = [spa EXCEPT !.job = <<m, "flush">>, !.seen = @ \cup {m}]
    /\ mos' = mos

\* metaslab_flush() has the lock again; metaslab_flush_update().
FlushWritten ==
    LET m == spa.job[1]
        sm == (ms[m].ms_sm \cup ms[m].ms_unflushed_allocs) \ ms[m].ms_unflushed_frees
    IN  /\ spa.job[2] = "flush"
        /\ ms' = [ms EXCEPT ![m] = metaslab_unflushed_bump(
                    [@ EXCEPT !.ms_sm = sm, !.synced = sm, !.ms_flushing = FALSE,
                              !.ms_unflushed_allocs = {}, !.ms_unflushed_frees = {}], FALSE)]
        /\ mos' = spa_cleanup_old_sm_logs(mos, ms')
        /\ spa' = [spa EXCEPT !.job = <<None, "none">>]
        /\ UNCHANGED <<vdev_ms_list, disk, ghost, bound>>

\* It has flushed as many as it wanted to.
FlushDone ==
    /\ spa.phase = "flush" /\ spa.job[1] = None
    /\ spa' = [spa EXCEPT !.phase = "vdev"]
    /\ UNCHANGED <<ms, vdev_ms_list, mos, disk, ghost, bound>>

-----------------------------------------------------------------------------
(* metaslab_condense() and metaslab_sync().                                 *)

\* Every segment but those free in core: allocatable, deferred, or allocated by a txg
\* whose allocations are not written yet.
Condensed(m) ==
    LET r == ms[m]
        deferred == UNION {r.ms_defer[t]: t \in DOMAIN r.ms_defer}
        allocating == UNION {r.ms_allocating[Slot(t)]: t \in txg..txg + 2}
    IN  Of(m) \ (r.walk \cup deferred \cup allocating)

\* metaslab_condense() keeps allocations out and drops ms_lock.
CondenseStart(m, step) ==
    /\ ms[m].ms_loaded
    /\ ms' = [ms EXCEPT ![m].ms_condensing = TRUE, ![m].walk = ms[m].ms_allocatable,
                        ![m].ms_unflushed_allocs = {}, ![m].ms_unflushed_frees = {}]
    /\ spa' = [spa EXCEPT !.job = <<m, step>>, !.seen = @ \cup {m}, !.dirty = TRUE,
                          !.spa_syncing_log_sm = bound.feature]
    /\ mos' = [mos EXCEPT !.active = bound.feature]

\* metaslab_flush() of a loaded metaslab that is worth condensing.
FlushCondense(m) ==
    /\ FlushNext(m)
    /\ ms[m].ms_unflushed_dirty /\ ~ms[m].ms_loading
    /\ CondenseStart(m, "flush_condense")

\* metaslab_sync() of a loaded metaslab that is worth condensing, or was asked to be.
SyncCondense(m) ==
    /\ spa.phase = "vdev" /\ spa.job[1] = None /\ pass = 1
    /\ m \in vdev_ms_list[Slot(txg)]
    /\ CondenseStart(m, "condense")
    /\ vdev_ms_list' = [vdev_ms_list EXCEPT ![Slot(txg)] = @ \ {m}]
    /\ UNCHANGED <<disk, ghost, bound>>

\* The end of metaslab_condense(), with metaslab_flush_update().
CondenseWritten(m) ==
    LET r == [ms[m] EXCEPT !.ms_condensing = FALSE, !.walk = {},
                           !.ms_sm = Condensed(m), !.synced = Condensed(m)]
    IN  IF mos.active /\ r.ms_unflushed_txg # 0 THEN metaslab_unflushed_bump(r, FALSE) ELSE r

FlushCondensed ==
    LET m == spa.job[1] IN
    /\ spa.job[2] = "flush_condense"
    /\ ms' = [ms EXCEPT ![m] = CondenseWritten(m)]
    /\ mos' = spa_cleanup_old_sm_logs(mos, ms')
    /\ spa' = [spa EXCEPT !.job = <<None, "none">>]
    /\ UNCHANGED <<vdev_ms_list, disk, ghost, bound>>

Allocs(r) == r.ms_allocating[Slot(txg)]

NothingToSync(r) == Allocs(r) \cup r.ms_freeing \cup r.ms_checkpointing = {}

\* metaslab_sync() up to where ms_lock is first dropped: the log, or the space map.
SyncWrite(r, log) ==
    LET u == XorAdd(Changes(r.ms_unflushed_allocs, r.ms_unflushed_frees),
                    Changes(Allocs(r), r.ms_freeing))
        moved == IF r.ms_unflushed_dirty /\ r.ms_unflushed_txg # 0 THEN r
                 ELSE metaslab_unflushed_bump(r, TRUE)
    IN  IF log THEN [moved EXCEPT !.ms_unflushed_allocs = u.allocs,
                                  !.ms_unflushed_frees = u.frees]
        ELSE [r EXCEPT !.ms_sm = (@ \cup Allocs(r)) \ r.ms_freeing]

\* The rest of it: what was freed waits for metaslab_sync_done().
SyncFinish(r) ==
    [r EXCEPT !.ms_freeing = {}, !.ms_checkpointing = {},
              !.ms_freed = IF pass = 1 THEN r.ms_freeing ELSE @ \cup r.ms_freeing,
              !.ms_allocated_this_txg = @ + Cardinality(Allocs(r)),
              !.ms_allocating[Slot(txg)] = {}]

\* The entry that metaslab r, which is m, writes to the log of this txg.
Logged(o, m, r) ==
    IF Allocs(r) \cup r.ms_freeing = {} THEN o
    ELSE [o EXCEPT !.log[m] = Append(@, [txg |-> txg, allocs |-> Allocs(r),
                                         frees |-> r.ms_freeing])]

\* metaslab_sync() of m, which is r (condensed or not), with list the dirty metaslabs.
\* The lock is dropped again to write to the space map of the checkpoint, if need be.
SyncBody(m, r, list) ==
    LET written == SyncWrite(r, bound.feature)
        o == [mos EXCEPT !.active = bound.feature]
        bumped == r.ms_unflushed_txg # 0 /\ ~r.ms_unflushed_dirty
        last == r.ms_checkpointing = {}
    IN  /\ ms' = [ms EXCEPT ![m] = IF last THEN SyncFinish(written) ELSE written]
        /\ mos' = CASE ~bound.feature -> o
                    [] bound.feature /\ bumped -> spa_cleanup_old_sm_logs(Logged(o, m, r), ms')
                    [] bound.feature /\ ~bumped -> Logged(o, m, r)
        /\ spa' = [spa EXCEPT !.job = IF last THEN <<None, "none">> ELSE <<m, "checkpoint">>,
                              !.dirty = TRUE, !.spa_syncing_log_sm = bound.feature]
        /\ vdev_ms_list' = IF last THEN [list EXCEPT ![TXG_CLEAN(txg)] = @ \cup {m}] ELSE list
        /\ UNCHANGED <<disk, ghost, bound>>

\* A loaded metaslab may have been asked to condense (ms_condense_wanted) and has its
\* turn with nothing to sync, even if the condense is put off.
metaslab_sync(m) ==
    /\ spa.phase = "vdev" /\ spa.job[1] = None
    /\ m \in vdev_ms_list[Slot(txg)]
    /\ NothingToSync(ms[m]) => ms[m].ms_loaded
    /\ SyncBody(m, ms[m], [vdev_ms_list EXCEPT ![Slot(txg)] = @ \ {m}])

SyncCondensed ==
    /\ spa.job[2] = "condense"
    /\ SyncBody(spa.job[1], CondenseWritten(spa.job[1]), vdev_ms_list)

SyncCheckpointed ==
    LET m == spa.job[1] IN
    /\ spa.job[2] = "checkpoint"
    /\ ms' = [ms EXCEPT ![m] = SyncFinish(@)]
    /\ mos' = [mos EXCEPT !.vdev_checkpoint_sm = @ \cup ms[m].ms_checkpointing]
    /\ spa' = [spa EXCEPT !.job = <<None, "none">>]
    /\ vdev_ms_list' = [vdev_ms_list EXCEPT ![TXG_CLEAN(txg)] = @ \cup {m}]
    /\ UNCHANGED <<disk, ghost, bound>>

\* A metaslab on the list only for its deferred frees.
SyncNothing(m) ==
    /\ spa.phase = "vdev" /\ spa.job[1] = None
    /\ m \in vdev_ms_list[Slot(txg)]
    /\ NothingToSync(ms[m])
    /\ vdev_ms_list' = [vdev_ms_list EXCEPT ![Slot(txg)] = @ \ {m},
                                            ![TXG_CLEAN(txg)] = @ \cup {m}]
    /\ UNCHANGED <<spa, ms, mos, disk, ghost, bound>>

-----------------------------------------------------------------------------
(* The end of a pass, and of the sync.                                      *)

\* The vdevs are synced.  A first pass that changed nothing ends the sync; else the
\* deferred frees are issued, in the first pass, and the MOS is synced once more until
\* it stays clean.  At the end metaslab_sync_done() is dispatched.
PassDone ==
    /\ spa.phase = "vdev" /\ spa.job[1] = None
    /\ vdev_ms_list[Slot(txg)] = {}
    /\ IF pass = 1 /\ spa.dirty
       THEN /\ metaslab_free(mos.spa_deferred_bpobj)
            /\ mos' = [mos EXCEPT !.spa_deferred_bpobj = {}]
       ELSE UNCHANGED <<ms, vdev_ms_list, mos, freed_txg>>
    /\ spa' = IF spa.dirty
              THEN [spa EXCEPT !.spa_sync_pass = @ + 1, !.phase = "dsl", !.dirty = FALSE]
              ELSE [spa EXCEPT !.phase = "commit",
                               !.spa_sync_tq = vdev_ms_list[TXG_CLEAN(txg)]]
    /\ UNCHANGED <<disk, zil, rewind, spoiled, bound>>

\* vdev_config_sync(): see module VdevLabel.
spa_sync_rewrite_vdev_config ==
    /\ spa.phase = "commit" /\ disk.txg < txg
    /\ disk' = [txg |-> txg, mos |-> mos, sm |-> [m \in Metaslabs |-> ms[m].ms_sm],
                utxg |-> [m \in Metaslabs |-> ms[m].ms_unflushed_txg]]
    /\ LET recent == (DOMAIN rewind \cup {txg}) \cap (txg - TXG_DEFER_SIZE)..txg
       IN  /\ rewind' = [t \in recent |-> IF t = txg THEN mos.tree ELSE rewind[t]]
           /\ spoiled' = spoiled \cap (recent \cup {mos.spa_checkpoint_txg})
    /\ zil' = {s \in zil: \E t \in txg + 1..txg + 2:
                              s \in ms[Home(s)].ms_allocating[Slot(t)]}
    /\ UNCHANGED <<spa, ms, vdev_ms_list, mos, freed_txg, bound>>

\* A mutated form: one tree serves every txg.
DeferSlotOne == 0

\* Of the trees ms_defer, the one whose frees are returned, to take those of this txg.
DeferSlot == txg % TXG_DEFER_SIZE

\* A mutated form: the metaslab waits until something else makes it dirty.
KeepNone(m, defer) == vdev_ms_list

\* A metaslab with deferred frees stays dirty.
KeepSyncing(m, defer) ==
    IF \A t \in DOMAIN defer: defer[t] = {} THEN vdev_ms_list ELSE vdev_dirty(m, txg + 1)

\* A task of spa_sync_tq.  Frees are not deferred when space is short.  What leaves the
\* defer trees is lost on a metaslab that is not loaded: the load will find it free.
metaslab_sync_done(m, defer_allowed) ==
    LET r == ms[m]
        d == DeferSlot
        returned == r.ms_defer[d] \cup (IF defer_allowed THEN {} ELSE r.ms_freed)
        defer == [r.ms_defer EXCEPT ![d] = IF defer_allowed THEN r.ms_freed ELSE {}]
    IN  /\ spa.phase = "commit" /\ m \in spa.spa_sync_tq
        /\ defer_allowed \/ bound.low
        /\ spa.spa_syncing_log_sm \/ ~r.ms_loading
        /\ ms' = [ms EXCEPT ![m] =
                    [r EXCEPT !.ms_allocatable = IF r.ms_loaded THEN @ \cup returned ELSE @,
                              !.ms_defer = defer, !.ms_freed = {}, !.synced = r.ms_sm,
                              !.ms_allocating_total = @ - r.ms_allocated_this_txg,
                              !.ms_allocated_this_txg = 0]]
        /\ vdev_ms_list' = KeepSyncing(m, defer)
        /\ freed_txg' = [s \in Segs |-> IF s \in returned THEN 0 ELSE freed_txg[s]]
        /\ spa' = [spa EXCEPT !.spa_sync_tq = @ \ {m}]
        /\ UNCHANGED <<mos, disk, zil, rewind, spoiled, bound>>

\* ms_selected_txg says nothing of a metaslab that is not loaded.
metaslab_unload(r) ==
    [r EXCEPT !.ms_allocatable = {}, !.ms_loaded = FALSE, !.ms_selected_txg = 0]

Evictable(m) == ms[m].ms_loaded /\ txg > ms[m].ms_selected_txg + UnloadDelay

\* The tasks are waited for; metaslab_class_evict_old() unloads metaslabs E, if they were
\* not used for long enough; the log is closed.
SyncDone(E) ==
    /\ spa.phase = "commit" /\ disk.txg = txg /\ spa.spa_sync_tq = {}
    /\ \A m \in E: Evictable(m)
    /\ ms' = [m \in Metaslabs |-> IF m \in E THEN metaslab_unload(ms[m]) ELSE ms[m]]
    /\ vdev_ms_list' = [vdev_ms_list EXCEPT ![TXG_CLEAN(txg)] = {}]
    /\ spa' = IF \E m \in E, t \in txg + 1..txg + 2: ms[m].ms_allocating[Slot(t)] # {}
              THEN Panic
              ELSE [spa EXCEPT !.phase = "idle", !.spa_sync_pass = 0,
                               !.spa_syncing_log_sm = FALSE]
    /\ UNCHANGED <<mos, disk, ghost, bound>>

-----------------------------------------------------------------------------
(* Loads, which run beside all of the above.                                *)

\* metaslab_load(): another loader is waited for, so there is only one.
metaslab_load(m) ==
    /\ Running
    /\ ~ms[m].ms_loaded /\ ~ms[m].ms_loading
    /\ ms' = [ms EXCEPT ![m].ms_loading = TRUE]
    /\ UNCHANGED <<spa, vdev_ms_list, mos, disk, ghost, bound>>

\* metaslab_unload() of a metaslab that metaslab_condense() may be writing without ms_lock:
\* of ms_allocatable nothing has been written, or all of it.
Evict(r, written) ==
    LET lost == r.ms_condensing /\ ~written
    IN  [metaslab_unload(r) EXCEPT !.walk = IF lost THEN {} ELSE @,
                                   !.emptied = @ \/ (lost /\ r.walk # {})]

\* A flush is waited for.  metaslab_potentially_evict() may unload others, and
\* metaslab_load_impl() reads as much of the space map as was synced.
LoadRead(m, E, written) ==
    /\ Running
    /\ ms[m].ms_loading /\ ms[m].load = None
    /\ ~ms[m].ms_flushing /\ ~ms[m].ms_condensing
    /\ \A n \in E: ms[n].ms_loaded /\ ms[n].ms_allocating_total = 0
    /\ ~written => \E n \in E: ms[n].ms_condensing
    /\ ms' = [n \in Metaslabs |->
                CASE n = m -> [ms[m] EXCEPT !.load = ms[m].synced]
                  [] n \in E -> Evict(ms[n], written)
                  [] OTHER -> ms[n]]
    /\ UNCHANGED <<spa, vdev_ms_list, mos, disk, ghost, bound>>

\* The space map changes under one of the two: an eviction in the middle of the walk over
\* ms_allocatable fails a VERIFY of space_map_write_impl(), and a load of what is being
\* condensed the ASSERT of metaslab_load_impl().
CondenseBreaks(m) ==
    /\ Running
    /\ ms[m].ms_loading /\ ms[m].load = None /\ ~ms[m].ms_flushing
    /\ \/ ms[m].ms_condensing
       \/ \E n \in Metaslabs: /\ ms[n].ms_loaded /\ ms[n].ms_allocating_total = 0
                              /\ ms[n].ms_condensing
    /\ spa' = Panic
    /\ UNCHANGED <<ms, vdev_ms_list, mos, disk, ghost, bound>>

\* A mutated form: what this txg freed in an earlier pass is taken for free.
LoadableFreed(m) ==
    LET r == ms[m]
        deferred == UNION {r.ms_defer[t]: t \in DOMAIN r.ms_defer}
    IN  (((Of(m) \ r.load) \ r.ms_unflushed_allocs) \cup r.ms_unflushed_frees) \ deferred

\* What is free: in the space map that was read, with the changes that were not flushed,
\* but not what metaslab_sync_done() will return.
Loadable(m) ==
    LET r == ms[m]
        freed == IF spa.spa_syncing_log_sm THEN r.ms_freed ELSE {}
        deferred == UNION {r.ms_defer[t]: t \in DOMAIN r.ms_defer}
    IN  (((Of(m) \ r.load) \ r.ms_unflushed_allocs) \cup r.ms_unflushed_frees)
            \ (freed \cup deferred)

\* The read is done and ms_sync_lock is taken; metaslab_preload() selects the metaslab
\* for the txg that syncs.
LoadDone(m) ==
    /\ Running
    /\ ms[m].load # None
    /\ spa.job[1] # m
    /\ ms' = [ms EXCEPT ![m].ms_loaded = TRUE, ![m].ms_loading = FALSE, ![m].load = None,
                        ![m].ms_selected_txg = txg,
                        ![m].ms_allocatable = Loadable(m)]
    /\ UNCHANGED <<spa, vdev_ms_list, mos, disk, ghost, bound>>

\* The space map could not be read.
LoadFailed(m) ==
    /\ Running
    /\ ms[m].load # None
    /\ spa.job[1] # m
    /\ ms' = [ms EXCEPT ![m].ms_loading = FALSE, ![m].load = None]
    /\ UNCHANGED <<spa, vdev_ms_list, mos, disk, ghost, bound>>

-----------------------------------------------------------------------------
(* A crash, and the import of the pool: spa_load().                         *)

\* metaslab_claim() of blocks C of the intent log, for the first txg.
metaslab_claim(r, m, C, first) ==
    LET free == (Of(m) \ (r.ms_sm \cup r.ms_unflushed_allocs)) \cup r.ms_unflushed_frees
    IN  IF C = {} THEN r
        ELSE [r EXCEPT !.ms_loaded = TRUE, !.ms_allocatable = free \ C,
                       !.ms_allocating[Slot(first)] = C,
                       !.ms_allocating_total = Cardinality(C), !.ms_selected_txg = first]

\* spa_load() of the state that uberblock ub reaches, with blocks C of the intent log
\* claimed: the pool is open when they are no longer from the future.
spa_load_impl(ub, C) ==
    LET first == ub.txg + 1
        births == {mos.birth[s]: s \in C} \cup {first}
    IN  /\ bound.crashes > 0
        /\ spa' = SpaIdle(ub.txg, CHOOSE t \in births: \A u \in births: u <= t)
        /\ mos' = [ub.mos EXCEPT !.birth = [s \in Segs |-> IF s \in C THEN mos.birth[s]
                                                            ELSE @[s]]]
        /\ ms' = [m \in Metaslabs |->
                    LET r == metaslab_init(ub.sm[m], spa_ld_log_sm_cb(ub, m), ub.utxg[m],
                                           Unflushed(ub, m) # <<>>)
                    IN  metaslab_claim([r EXCEPT !.emptied = ms[m].emptied], m,
                                       C \cap Of(m), first)]
        /\ vdev_ms_list' = [t \in 0..TXG_SIZE - 1 |->
                              IF t = Slot(first) THEN {Home(s): s \in C} ELSE {}]
        /\ zil' = C
        /\ rewind' = [t \in {ub.txg} |-> ub.mos.tree]
        /\ freed_txg' = [s \in Segs |-> 0]
        /\ bound' = [bound EXCEPT !.crashes = @ - 1]

\* The log may end before any of its blocks: those not yet written or not linked to.  A
\* block that is not free fails the claim (ENOENT), and the import with it.
Import(C) ==
    /\ C \subseteq zil
    /\ \A s \in C: s \notin Allocated(disk, Home(s))
    /\ spa_load_impl(disk, C)
    /\ spoiled' = spoiled \cap {disk.txg, disk.mos.spa_checkpoint_txg}
    /\ UNCHANGED disk

\* The checkpointed uberblock goes to the labels as the latest one, and the pool is loaded
\* again.  No block of the intent log is claimed: they may have been overwritten since.
spa_ld_checkpoint_rewind ==
    LET ub == [disk.mos.checkpoint EXCEPT !.txg = disk.txg + 1]
    IN  /\ disk.mos.spa_checkpoint_txg # 0
        /\ disk' = ub
        /\ spa_load_impl(ub, {})
        /\ spoiled' = IF disk.mos.spa_checkpoint_txg \in spoiled THEN {ub.txg} ELSE {}

OpenContext ==
    \/ \E s \in Segs, t \in 1..bound.txgs: OpenAlloc(s, t) \/ metaslab_unalloc_dva(s, t)
    \/ \E m \in Metaslabs:
        \/ metaslab_load(m)
        \/ \E E \in SUBSET (Metaslabs \ {m}), written \in BOOLEAN: LoadRead(m, E, written)
        \/ CondenseBreaks(m)
        \/ LoadDone(m)
        \/ LoadFailed(m)

spa_sync ==
    \/ StartSync \/ NoEarlyTask
    \/ spa_checkpoint_sync \/ spa_checkpoint_discard_sync
    \/ \E s \in Segs: SyncAlloc(s) \/ zio_free(s)
    \/ \E S \in SUBSET Segs: spa_checkpoint_discard_thread_sync(S)
    \/ spa_checkpoint_discard_complete_sync
    \/ DslDone
    \/ \E m \in Metaslabs:
        \/ FlushClean(m) \/ FlushLoading(m) \/ metaslab_flush(m) \/ FlushCondense(m)
        \/ metaslab_sync(m) \/ SyncCondense(m) \/ SyncNothing(m)
        \/ \E defer_allowed \in BOOLEAN: metaslab_sync_done(m, defer_allowed)
    \/ FlushWritten \/ FlushCondensed \/ FlushDone
    \/ SyncCondensed \/ SyncCheckpointed
    \/ PassDone
    \/ spa_sync_rewrite_vdev_config
    \/ \E E \in SUBSET Metaslabs: SyncDone(E)

Next ==
    \/ OpenContext
    \/ spa_sync
    \/ \E C \in SUBSET zil: Import(C)
    \/ spa_ld_checkpoint_rewind

Spec == Init /\ [][Next]_vars

-----------------------------------------------------------------------------
(* Properties.                                                              *)

\* Segments that are in use, or will be: none of them may be handed out.
InUse(m) ==
    LET r == ms[m] IN
    Of(m) \cap (mos.tree \cup mos.spa_deferred_bpobj \cup mos.vdev_checkpoint_sm \cup
                r.ms_freeing \cup r.ms_checkpointing \cup r.ms_freed \cup
                r.ms_defer[0] \cup r.ms_defer[1] \cup
                UNION {r.ms_allocating[t]: t \in 0..TXG_SIZE - 1})

\* A loaded metaslab offers every segment that is free and no segment that is in use: what
\* metaslab_verify_space() checks in sizes, in sets and after every step.  A load runs
\* beside metaslab_sync(), metaslab_flush(), metaslab_sync_done() and evictions, and puts
\* ms_allocatable together from trees that those are about to change.  Free segments are
\* missing only where metaslab_potentially_evict() unloaded the metaslab when
\* metaslab_condense() had yet to write its ms_allocatable (emptied).
SpaceIsConserved ==
    \A m \in Metaslabs: ms[m].ms_loaded /\ Running =>
        /\ ms[m].ms_allocatable \cap InUse(m) = {}
        /\ Of(m) \subseteq ms[m].ms_allocatable \cup InUse(m) \/ ms[m].emptied

\* The space maps and the logs of the last committed txg, read the way an import reads
\* them, say exactly which segments its blocks hold: nothing leaked, nothing free that is
\* in use, whichever logs were freed and whichever metaslabs were flushed, or condensed
\* without an eviction that emptied ms_allocatable before it was written.  Such a metaslab
\* leaks, but nothing in use is free in it.
ImportExact ==
    \A m \in Metaslabs:
        LET held == Of(m) \cap (disk.mos.tree \cup disk.mos.spa_deferred_bpobj
                                  \cup disk.mos.vdev_checkpoint_sm)
        IN  /\ held \subseteq Allocated(disk, m)
            /\ Allocated(disk, m) \subseteq held \/ ms[m].emptied

\* No block of the last TXG_DEFER_SIZE txgs has been overwritten, in a pool whose free space
\* stays above the slop: the pool can be rewound to them.  metaslab_sync_done() keeps what
\* a txg freed in ms_defer that long, though it runs before the uberblock is written.
RewindIntact ==
    bound.low \/ \A t \in spoiled \cap DOMAIN rewind: t < txg - TXG_DEFER_SIZE

\* No block of the checkpoint is overwritten until it is discarded, not even one that was
\* freed since: metaslab_free() puts it aside by the birth of the block.  The pool has free
\* space above the slop: without deferral, what a discard frees is overwritten before the
\* uberblock that discards the checkpoint.
CheckpointIntact ==
    disk.mos.spa_checkpoint_txg # 0 /\ ~bound.low => disk.mos.spa_checkpoint_txg \notin spoiled

\* Freed space is available again TXG_DEFER_SIZE txgs later, in a metaslab that nothing
\* else touches too: metaslab_sync_done() puts it on the list of the next txg.
FreedSpaceReturns ==
    spa.phase = "idle" =>
        \A s \in Segs: freed_txg[s] # 0 => freed_txg[s] > txg - TXG_DEFER_SIZE
=============================================================================
