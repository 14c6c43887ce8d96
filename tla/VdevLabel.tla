----------------------------- MODULE VdevLabel -----------------------------
(***************************************************************************)
(* Committing a txg to the labels of a pool (module/zfs/vdev_label.c):     *)
(* vdev_config_sync() writes the even labels of the vdevs whose            *)
(* configuration changed, the uberblocks, and the odd labels, with a cache *)
(* flush after each; vdev_uberblock_load() finds the pool again after a    *)
(* crash, which may have kept any of the writes that were not yet flushed, *)
(* and torn any.                                                           *)
(*                                                                         *)
(* A top-level vdev is one leaf.  The uberblock rings of its four labels   *)
(* are written and read together and are one ring here.                    *)
(*                                                                         *)
(* Left out: log, cache and spare vdevs, mirrors (a leaf of a mirror may   *)
(* miss a label that its sibling has), disks that are missing from an      *)
(* import, multihost, the extra data of AnyRAID vdevs, errors of cache     *)
(* flushes.                                                                *)
(***************************************************************************)
EXTENDS Integers, FiniteSets

CONSTANTS
    Vdevs,         \* top-level vdevs
    SyncMinVdevs,  \* SPA_SYNC_MIN_VDEVS
    RingSize,      \* VDEV_UBERBLOCK_COUNT
    Tearable,      \* what a crash or an error may leave torn: labels, or the ring
    MaxTxg,        \* bound: txgs
    MaxConfigs,    \* bound: changes of a vdev's configuration
    MaxFaults,     \* bound: times that writes fail
    MaxLoads,      \* bound: loads of the pool after a crash
    None

ASSUME VdevLabelAssumption ==
    /\ IsFiniteSet(Vdevs) /\ Vdevs # {} /\ None \notin Vdevs
    /\ SyncMinVdevs \in Nat \ {0} /\ RingSize \in Nat \ {0}
    /\ Tearable \subseteq -1..3
    /\ {MaxTxg, MaxConfigs, MaxFaults, MaxLoads} \subseteq Nat

VDEV_LABELS == 0..3
Even == {0, 2}
Odd == {1, 3}

VARIABLES
    pc,       \* where spa_sync() is
    ub,       \* spa_uberblock
    next,     \* the txg that syncs next
    conf,     \* [Vdevs -> version of the configuration in core]
    dirty,    \* spa_config_dirty_list
    svd,      \* vdevs that take the uberblock
    retry,    \* ZIO_FLAG_IO_RETRY
    blocks,   \* the blocks of the txg are all on stable storage
    update,   \* SPA_ASYNC_CONFIG_UPDATE
    label,    \* on disk: [Vdevs -> [VDEV_LABELS -> label, or None if torn]]
    ring,     \* on disk: [Vdevs -> [slots -> uberblock, or None]]
    pend,     \* vdevs and labels (or -1, the ring) written to but not flushed
    kept,     \* the last uberblock committed since the pool was opened, or None
    whole,    \* all labels were brought up to date since then
    epoch, version, faults

core == <<ub, next, conf, dirty, svd, retry, blocks, update>>
disk == <<label, ring, pend>>
ghost == <<kept, whole, epoch, version, faults>>
vars == <<pc, core, disk, ghost>>

Ring == -1

\* The uberblock of a txg: root is the state of the pool, that of the last txg that
\* changed anything, and conf the configuration stored in it.  An epoch, the time
\* from an open of the pool to a crash, stands for ub_timestamp.
Uberblock(txg, root, cf) == [txg |-> txg, epoch |-> epoch, root |-> root, conf |-> cf]

Label(txg, cf) == [txg |-> txg, conf |-> cf]

Slot(txg) == txg % RingSize

Init ==
    LET cf == [v \in Vdevs |-> 0]
    IN  /\ pc = "idle"
        /\ epoch = 0
        /\ ub = [txg |-> 1, epoch |-> 0, root |-> <<0, 1>>, conf |-> cf]
        /\ next = 2
        /\ conf = cf
        /\ dirty = {} /\ svd = {} /\ retry = FALSE /\ blocks = TRUE /\ update = FALSE
        /\ label = [v \in Vdevs |-> [l \in VDEV_LABELS |-> Label(1, 0)]]
        /\ ring = [v \in Vdevs |-> [s \in 0..RingSize - 1 |-> IF s = Slot(1) THEN ub ELSE None]]
        /\ pend = {}
        /\ kept = ub /\ whole = TRUE
        /\ version = 0 /\ faults = 0

----------------------------------------------------------------------------
(* The configuration changes between two txgs.                             *)

\* vdev_config_dirty(v), by an operation that changes the configuration of v.
VdevConfigDirty(v) ==
    /\ pc = "idle"
    /\ version < MaxConfigs
    /\ version' = version + 1
    /\ conf' = [conf EXCEPT ![v] = version + 1]
    /\ dirty' = dirty \cup {v}
    /\ UNCHANGED <<pc, ub, next, svd, retry, blocks, update, disk, kept, whole, epoch, faults>>

\* spa_config_update(), asynchronously after the pool was opened.
SpaConfigUpdate ==
    /\ pc = "idle"
    /\ update
    /\ update' = FALSE
    /\ dirty' = Vdevs
    /\ UNCHANGED <<pc, ub, next, conf, svd, retry, blocks, disk, ghost>>

----------------------------------------------------------------------------
(* vdev_config_sync()                                                      *)

\* spa_select_uberblock_vdevs()
SelectedVdevs ==
    IF dirty # {} THEN {Vdevs}
    ELSE {s \in SUBSET Vdevs : s # {} /\ Cardinality(s) <= SyncMinVdevs}

\* The txg changed something: it has new blocks, and a new uberblock for them.  A
\* changed configuration is itself stored in the pool.
SyncChanged ==
    /\ pc = "idle"
    /\ next <= MaxTxg
    /\ ub' = Uberblock(next, <<epoch, next>>, conf)
    /\ next' = next + 1
    /\ svd' \in SelectedVdevs
    /\ blocks' = FALSE
    /\ retry' = FALSE
    /\ pc' = "blocks"
    /\ UNCHANGED <<conf, dirty, update, disk, ghost>>

\* Nothing changed: the uberblock advances in core only.
SyncNothing ==
    /\ pc = "idle"
    /\ next <= MaxTxg
    /\ dirty = {}
    /\ ub' = Uberblock(next, ub.root, ub.conf)
    /\ next' = next + 1
    /\ UNCHANGED <<pc, conf, dirty, svd, retry, blocks, update, disk, ghost>>

\* A mutated form: all the labels are written before the uberblock.
FirstLabelsAll == VDEV_LABELS

\* The labels that vdev_label_sync_list() writes before the uberblock.
FirstLabels == Even

\* Flush the blocks, then write the even labels of the dirty vdevs.
FlushBlocks ==
    /\ pc = "blocks"
    /\ blocks' = TRUE
    /\ pc' = "even"
    /\ pend' = dirty \X FirstLabels
    /\ UNCHANGED <<ub, next, conf, dirty, svd, retry, update, label, ring, ghost>>

\* What is on disk once the writes in done have reached it and those in torn have
\* been cut off: a mixture of the old and the new contents, whose checksum is wrong
\* unless the two are the same.
LabelsAfter(done, torn) ==
    [v \in Vdevs |-> [l \in VDEV_LABELS |->
        IF <<v, l>> \in done THEN Label(ub.txg, conf[v])
        ELSE IF <<v, l>> \in torn /\ label[v][l] # Label(ub.txg, conf[v]) THEN None
        ELSE label[v][l]]]

RingAfter(done, torn) ==
    [v \in Vdevs |-> [ring[v] EXCEPT ![Slot(ub.txg)] =
        IF <<v, Ring>> \in done THEN ub
        ELSE IF <<v, Ring>> \in torn /\ @ # ub THEN None
        ELSE @]]

\* Those of the writes w that may be torn.
Torn(w) == w \cap (Vdevs \X Tearable)

\* The writes in failed fail, whatever they leave on disk; the others are flushed.
WritesEnd(failed) ==
    \E done \in {pend \ failed, pend}, torn \in {{}, Torn(failed)} :
        /\ label' = LabelsAfter(done, torn)
        /\ ring' = RingAfter(done, torn)
        /\ failed # {} => faults < MaxFaults
        /\ faults' = IF failed = {} THEN faults ELSE faults + 1

\* Not enough writes succeeded: start again, trying harder, or give up and suspend
\* the pool.
Again ==
    /\ retry' = TRUE
    /\ pc' = IF retry THEN "suspended" ELSE "blocks"
    /\ pend' = {}

\* zio_resume_wait(): once more from the beginning.
Resume ==
    /\ pc = "suspended"
    /\ pc' = "blocks"
    /\ retry' = FALSE
    /\ svd' \in SelectedVdevs
    /\ UNCHANGED <<ub, next, conf, dirty, blocks, update, disk, ghost>>

\* vdev_label_sync_top_done(): each dirty vdev has one good write.
LabelsGood(failed) == \A v \in dirty : \E l \in VDEV_LABELS : <<v, l>> \in pend \ failed

EvenLabelsSynced(failed) ==
    /\ pc = "even"
    /\ WritesEnd(failed)
    /\ IF LabelsGood(failed)
       THEN /\ pc' = "uberblock"
            /\ pend' = svd \X {Ring}
            /\ UNCHANGED retry
       ELSE Again
    /\ UNCHANGED <<ub, next, conf, dirty, svd, blocks, update, kept, whole, epoch, version>>

\* vdev_uberblock_sync_list() returns 0.
UberblockGood(failed) == pend \ failed # {}

UberblockSynced(failed) ==
    /\ pc = "uberblock"
    /\ WritesEnd(failed)
    /\ IF UberblockGood(failed)
       THEN /\ pc' = "odd"
            /\ pend' = dirty \X Odd
            /\ UNCHANGED retry
       ELSE Again
    /\ UNCHANGED <<ub, next, conf, dirty, svd, blocks, update, kept, whole, epoch, version>>

\* The txg is committed.
OddLabelsSynced(failed) ==
    /\ pc = "odd"
    /\ WritesEnd(failed)
    /\ IF LabelsGood(failed)
       THEN /\ pc' = "idle"
            /\ pend' = {}
            /\ dirty' = {}
            /\ kept' = ub
            /\ whole' = (whole \/ \A v \in Vdevs, l \in VDEV_LABELS :
                                     label'[v][l] = Label(ub.txg, conf[v]))
            /\ UNCHANGED retry
       ELSE Again /\ UNCHANGED <<dirty, kept, whole>>
    /\ UNCHANGED <<ub, next, conf, svd, blocks, update, epoch, version>>

----------------------------------------------------------------------------
(* A crash, and the next open of the pool.                                 *)

\* Of the writes not yet flushed, some are on disk, some are torn and the rest
\* never got there.  What was in core is gone; the uberblock is kept for the
\* properties.
Crash ==
    /\ pc # "crashed"
    /\ \E done \in SUBSET pend : \E torn \in SUBSET Torn(pend \ done) :
         /\ label' = LabelsAfter(done, torn)
         /\ ring' = RingAfter(done, torn)
    /\ pend' = {}
    /\ pc' = "crashed"
    /\ conf' = ub.conf /\ dirty' = {} /\ svd' = {} /\ retry' = FALSE /\ update' = FALSE
    /\ UNCHANGED <<ub, next, blocks, ghost>>

\* vdev_uberblock_compare()
Newer(u, w) == u.txg > w.txg \/ (u.txg = w.txg /\ u.epoch > w.epoch)

OnDisk == {ring[v][s] : v \in Vdevs, s \in 0..RingSize - 1} \ {None}

\* vdev_uberblock_load() with spa_load_max_txg = max: the best uberblocks.
Best(max) ==
    {u \in OnDisk : u.txg <= max /\ \A w \in OnDisk : w.txg <= max => ~Newer(w, u)}

\* The vdevs that the best uberblock may have been read from.
BestVdevs(u) == {v \in Vdevs : \E s \in 0..RingSize - 1 : ring[v][s] = u}

\* vdev_label_read_config(): the labels of v that are the newest up to txg.
ReadConfig(v, txg) ==
    LET valid == {l \in VDEV_LABELS : label[v][l] # None /\ label[v][l].txg <= txg}
    IN  {label[v][l] : l \in {m \in valid : \A k \in valid :
                                 label[v][k].txg < label[v][m].txg
                                 \/ (label[v][k].txg = label[v][m].txg /\ m <= k)}}

\* A mutated form: count on from the uberblock that was loaded.
FirstTxgLoaded(u, latest) == u.txg + 1

\* spa_first_txg: above every uberblock on disk.
FirstTxg(u, latest) == (IF u.txg > latest THEN u.txg ELSE latest) + 1

\* spa_load() of the newest uberblock, or of one that is not newer than max.  An
\* update of the configuration may be asked for.
SpaLoad(max) ==
    /\ pc = "crashed"
    /\ epoch < MaxLoads
    /\ \E u \in Best(max), latest \in Best(MaxTxg) :
         /\ \E v \in BestVdevs(u) :
              ReadConfig(v, IF max < MaxTxg THEN MaxTxg ELSE u.txg) # {}
         /\ epoch' = epoch + 1
         /\ ub' = u
         /\ next' = FirstTxg(u, latest.txg)
         /\ conf' = u.conf
         /\ kept' = IF u = latest THEN u ELSE None
    /\ pc' = "idle"
    /\ blocks' = TRUE
    /\ update' \in BOOLEAN
    /\ whole' = FALSE
    /\ UNCHANGED <<dirty, svd, retry, disk, version, faults>>

Next ==
    \/ \E v \in Vdevs : VdevConfigDirty(v)
    \/ SpaConfigUpdate
    \/ SyncChanged \/ SyncNothing
    \/ FlushBlocks
    \/ \E failed \in SUBSET pend : EvenLabelsSynced(failed)
    \/ \E failed \in SUBSET pend : UberblockSynced(failed)
    \/ \E failed \in SUBSET pend : OddLabelsSynced(failed)
    \/ Resume
    \/ Crash
    \/ \E max \in 1..MaxTxg : SpaLoad(max)

Spec == Init /\ [][Next]_vars

----------------------------------------------------------------------------
\* Whenever the system dies, the pool comes back in the state of the last txg that
\* was committed, or in that of the one being committed, all of whose blocks are on
\* disk: never in an older one, and never in one that an earlier import had
\* discarded by rewinding past it.
ImportKeepsCommitted ==
    pc = "crashed" /\ kept # None =>
        /\ Best(MaxTxg) # {}
        /\ \A u \in Best(MaxTxg) : u.root = kept.root \/ (u = ub /\ blocks)

\* The comments in vdev_config_sync(): whenever the system dies, the labels of the
\* vdev that the newest uberblock is found on have the configuration that goes with
\* it.  This needs all the labels to have been brought up to date since the open.
LabelMatchesUberblock ==
    pc = "crashed" /\ whole =>
        \A u \in Best(MaxTxg) : \A v \in BestVdevs(u) :
            \E lb \in ReadConfig(v, u.txg) : lb.conf = u.conf[v]
============================================================================
