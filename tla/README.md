# TLA+ models of OpenZFS

This directory holds TLA+ specifications of the concurrent and crash-prone parts
of OpenZFS, the TLC configurations that check them on small instances, and
proofs checked by TLAPS. Every definition is a translation of code under `src/`;
`PROJECT.json` maps each one to the lines it stands for.

To repeat a run: `tlc -workers 2 -config <file>.cfg <module>`. To repeat the
proofs: `tlapm M.tla` for each module `M` marked *proofs* below.

## The system

A pool (`spa`) writes its state as a sequence of *transaction groups* (txgs).
Threads that change data hold the open txg while they do it; a quiesce thread
closes the open txg and waits for its holders; a sync thread writes the
quiesced txg and then an uberblock that makes it the state of the pool. What must
survive a crash before its txg is on disk goes to the intent log (ZIL).

| part | state | operations | talks to | what is hard |
|---|---|---|---|---|
| txg (`txg.c`) | open, quiescing, quiesced, syncing, synced txg; holds per cpu; callbacks; requests of waiters | hold, release, quiesce, sync, wait, kick, delay, stop | dmu_tx, spa sync, ZIL, zio suspend | two service threads, per-cpu locks taken one after another, five condition variables, suspension |
| range lock (`zfs_rlock.c`) | AVL tree of ranges, proxies with counts, wanted flags | enter, tryenter, exit, reduce | ZPL, zvol, RAID-Z expansion | splitting of shared ranges, sleepers on nodes that come and go, the append callback |
| txg lists (`txg.c`) | lists per txg slot | add, remove, drain | dsl, vdev, metaslab | slots reused every four txgs |
| rrwlock (`rrwlock.c`) | writer, anonymous and tracked read counts | enter, exit | ZPL teardown | recursion against a waiting writer |
| zthr (`zthr.c`) | thread, cancel and wait flags | create, cancel, resume, wakeup, wait | removal, checkpoint discard, ARC | cancel racing work and resume |
| config locks (`spa_misc.c`) | per lock: writer, count, writers that want it | enter, exit, tryenter | whole pool | order over seven locks, writer preference |
| ZIL (`zil.c`) | itx lists per txg, lwb chain, waiters | assign, commit, write, flush, sync, replay | zio, txg, ZPL | out-of-order completion, errors, crash at any point |
| labels (`vdev_label.c`) | four labels and an uberblock ring per leaf | config sync, import | spa sync | crash between two writes |
| MMP (`mmp.c`) | last write, delay, fail interval | write, activity check | labels, zio suspend | two hosts, clocks |
| dmu_tx, dsl_pool | dirty bytes per txg, throttle | assign, wait, commit | txg | limits, retry, suspended pool |
| synctask | task per txg | check, sync | dsl | the check is stale when the task runs |
| dbuf, dnode | dirty records per txg, states | read, dirty, undirty, sync, evict | ARC, txg | three txgs of one buffer at a time |
| ARC, L2ARC | headers, states, sizes | access, evict, read, write | dbuf, zio | eviction races reads |
| zio | tree of I/Os, stages | execute, reexecute, done, suspend | vdev, ARC | parents wait for children |
| metaslab, log space maps (`metaslab.c`, `spa_log_spacemap.c`) | range trees per metaslab and txg, space maps, pool-wide logs of changes | alloc, unalloc, free, sync, sync done, load, evict, flush, condense, claim | spa sync, ZIL, checkpoint | loads beside syncs, reuse of a freed block too early, logs freed too early |
| checkpoint (`spa_checkpoint.c`) | checkpointed txg, space map of blocks freed since | take, discard, rewind | metaslab, synctask | which frees belong to it, a crash in the middle of the discard |
| deadlists, bpobj, datasets | lists of blocks, snapshots, holds | snapshot, destroy, hold, promote | synctask | accounting over long histories |
| removal, initialize, TRIM, rebuild, scan | persistent progress | start, pause, cancel, resume | zthr, metaslab, config locks | crash and export in the middle |
| DDT, BRT | reference counts, logs | add, remove, flush | zio | lazy logs |
| SPL taskq | queues, threads | dispatch, cancel, wait | everything | timers against cancel |

`PROJECT.json` lists all the parts, also those that are left out, with the
reason, and the hazards each of the modelled ones is exposed to.

## Modules

| module | models | kind |
|---|---|---|
| `Txg` | `txg.c`, with `zio_suspend()`/`zio_resume()` as txg waiters see them | component |
| `TxgProofs` | inductive invariant and proofs about `Txg` | proofs |
| `RangeLock` | what a range lock promises | abstract specification |
| `RangeLockTree` | `zfs_rlock.c` and the callback of a znode | component, implements `RangeLock` |
| `SpaConfigLock` | `spa_config_enter()` and friends of `spa_misc.c` | component |
| `SpaConfigLockInv` | inductive invariant of `SpaConfigLock`; what a step must respect to preserve it | proofs |
| `SpaConfigLockReaders`, `SpaConfigLockWriters` | one lemma for each action: it respects that | proofs |
| `SpaConfigLockProofs` | the theorems about `SpaConfigLock` | proofs |
| `Zthr` | `zthr.c` | component |
| `ZthrProofs` | inductive invariant and proofs about `Zthr` | proofs |
| `Rrwlock` | `rrwlock.c`: `rrwlock_t` and `rrmlock_t` | component |
| `Zil` | `zil.c`: itx lists, lwb pipeline, syncing context | component, composed with the steps of `spa_sync()` it depends on |
| `VdevLabel` | `vdev_config_sync()`, `vdev_uberblock_load()` | component, with disk and power loss |
| `Metaslab` | `metaslab.c`, `spa_log_spacemap.c`, `spa_checkpoint.c` and the passes of `spa_sync()` | composition: allocator, logs, checkpoint, sync thread and import |
| `MC...` | model values and symmetry sets | instances for TLC |

How state and actions correspond to the code:

- **Txg**. `tx_state_t` is a variable per field. `pc` says where each thread is
  in its function; a thread on a condition variable stays there until a broadcast, a
  timeout or a signal moves it. One action is one section under `tx_sync_lock`,
  `tc_open_lock` or `tc_lock`. `txg_quiesce()` takes the per-cpu locks one by one,
  so transactions run on the other cpus in between.
- **RangeLockTree**. The AVL tree is a function from offsets to locks.
  `rangelock_new_proxy()`, `rangelock_split()`, `rangelock_add_reader()` and
  `rangelock_exit_reader()` are operators on that function, and an enter or exit is one
  action under `rl_lock`.
- **SpaConfigLock**. Readers change `scl_count` with atomic operations without
  taking `scl_lock`; each of those is an action, and sections of a writer that
  such an operation can fall into are split.
- **Zthr**. The worker, three kinds of request and the wait for a cycle are
  sections under `zthr_state_lock`. The worker and a canceller sleep on the same
  condition variable, as in the code.
- **Rrwlock**. `rr_anon_rcount`, `rr_linked_rcount` and the per-thread nodes are kept
  separately, so that a wrong choice between the two counts shows.
- **Zil**. Lwbs are numbered as they are allocated. Disk contents are explicit: what
  has been written, what has been flushed, and which block the header points to, so
  that durability is a statement about any crash. `spa_sync()` is five
  steps in the order of the code: log headers, uberblock, `zil_clean()`, and then
  `spa_ubsync`. A thread that suspends the log runs `zil_commit_impl()` like any
  other, waits, and destroys the log in a transaction of its own; `cookie` is what it
  holds until `ZilResume`, and it may log and commit meanwhile. `ZilDestroyBreaks` is the
  same call when it meets an lwb in use (see Observations).
- **VdevLabel**. Labels and rings on disk are variables, `pend` the writes that a
  crash may keep, lose or tear. The crash is an action, so the invariants are about
  the disk it leaves.
- **Metaslab**. `ms` holds a `metaslab_t` for every metaslab, its range trees as sets of
  segments. `spa.phase` is where `spa_sync()` is, and `spa.job` the metaslab whose
  `ms_sync_lock` it holds with `ms_lock` dropped: `metaslab_flush()`,
  `metaslab_condense()` and `metaslab_sync()` are split there, and a load at the point
  where it has read the space map (`load`). `mos` is what the txg in sync will commit,
  `disk` what the last uberblock reaches; `Import` rebuilds everything in core from
  `disk` with `spa_ld_log_sm_cb()` and the claims of the intent log.
  `spa_ld_checkpoint_rewind` makes what the checkpointed uberblock reaches the state of the
  pool under the next txg number, and loads that. `rewind`,
  `spoiled` and `freed_txg` record history for the properties, and so does `emptied` in
  `ms`; `walk` is what a condense in progress will have written of `ms_allocatable`. A
  failing `VERIFY` leads to `Panic`.

## Runs

| run | instance | distinct states | shows |
|---|---|---|---|
| `txg_safety` | 2 cpus, 2 transactions, a waiter with signals, txgs 4 to 6, shutdown | 1,798,318 | txgs move in order; no holder in a syncing txg; callbacks neither early nor lost; clean stop |
| `txg_live` | 1 cpu, a transaction, a waiter, a suspension, shutdown | 150,730 | all waits end |
| `txg_suspend` | no transactions, a suspended pool | violation | see Findings |
| `rangelock` | 3 threads, a zvol or a file that grows | 179,304 | tree is exactly what is held; implements `RangeLock`; appends lock the end of file; no lost wakeup |
| `scl` | 2 locks, a reader that also tries or has priority, 2 writers | 43,720 | count exact; writer alone; no lost wakeup; writers never starved; no deadlock |
| `zthr` | 3 requesters, 3 workers in turn | 18,704 | one worker; no stale cancel; cancel returns; work is done |
| `zthr_wait` | 2 requesters, 2 workers in turn | violation | see Findings |
| `rrwlock` | 3 readers with 2 tags, 2 writers, 2 locks, depth 2 | 22,926 | counts right in any order of exits; re-entry never sleeps; writers get in |
| `zil` | 2 threads, a commit each: 2 records, 2 txgs, 1 fault; or 1 record and a suspension | 1,724,768 | what a returned commit took from the lists survives a crash; a stalled or suspended log is empty; chain leaks nothing; every commit returns |
| `zil_queue` | the same | violation | see Findings |
| `vdev_label` | 2 vdevs, 3 txgs, 2 config changes, 2 failures, 2 crashes | 1,443,181 | a committed txg is never lost, a discarded one never returns; label goes with uberblock |
| `metaslab` | 12 pools: 1 or 2 metaslabs, 1 or 2 segments, with and without log space maps, 3 to 5 txgs, a checkpoint, a crash or a rewind to the checkpoint, above the slop space or down to it | 945,847 | nothing handed out twice; no space lost, and an import finds it exactly, unless a metaslab is unloaded while it is condensed; recent txgs and the checkpoint stay intact above the slop; freed space returns |

Every property of a passing run has a mutated form of some definition in
`PROJECT.json` under which TLC finds it violated; the mutated forms stand next to
the definitions and are used by nothing else.

### Bounds

- `txg_*`: `MaxTxg` stops new demand for syncs, not the pipeline. From 4 to 6 the three
  concurrent states are all occupied at once, and `txg_sync_stop()` adds
  `TXG_DEFER_SIZE` more txgs, so slots of `TXG_SIZE` = 4 are reused. The proofs do not depend
  on this bound.
- `rangelock`: three threads are the least for a proxy with two readers
  and a waiting writer. `UINT64_MAX` 3 gives ranges that overlap on either side,
  contain each other, touch and reach the end.
- `scl`: two locks give the ascending order; one reader in all three ways of entering
  and two writers give the race for the last reference and writer against writer.
- `zthr`: three requesters let two of them cancel while the third resumes.
- `rrwlock`: depth 2 with two tags gives holds that mix anonymous and tracked
  entries.
- `zil`: each thread commits once and may log in either txg, which is enough for a
  commit that takes the other thread's records, for an lwb that waits for its
  predecessor and for an lwb freed by `zil_sync()` under a waiter. One fault is one
  failed write or one failed block allocation. `Bounds` is a set, and a behaviour starts
  by choosing one of its members: a suspension needs one commit that gives the log a
  block and one that is under way, and has no fault beside it. A second suspension, which
  would wait for the first in `SuspendWaited`, is a larger instance (1,712,863
  states by itself, no violation) that is not part of the run.
- `vdev_label`: two failures are what it takes to suspend the pool. The ring has two
  slots, so it wraps. One label of each parity can be torn, the other is old or
  new. Uberblocks are not torn: `vdev_uberblock_sync()` relies on disks
  overwriting a sector atomically (see Observations).
- `metaslab`: a variable `bound` picks one of twelve pools, each large where its question
  needs it. Five txgs take one segment through allocation, free, two txgs of deferral and
  reuse, under a checkpoint and its discard. A pool that may be down to its slop space
  (`low`) is free not to defer in any txg. A crash under a
  checkpoint may end in a normal import or in the rewind. Two passes reach deferred frees. Two
  segments let an allocation and a free meet in one entry of the log. Two
  metaslabs share the logs, so that one still needs what the other has flushed, and
  evict each other, also while one is condensed. Slots of `TXG_SIZE` and `TXG_DEFER_SIZE` have the sizes of the code and
  are reused. `CHECK_DEADLOCK` is off because a pool stops at its last txg.

Model values are symmetric only in runs without liveness properties.

The type invariants of `RangeLockTree`, `SpaConfigLock` and `Rrwlock` hold on these
instances too, but only that of `Txg` is part of a run.

### Fairness

- `Txg`: weak fairness for the service threads, for threads that were woken, for
  timers and for the release of a transaction that was assigned. Strong fairness only for
  the quiesce thread at `tc_open_lock`, which transactions keep taking: a kernel
  mutex is handed to a sleeping waiter in the end. That the pool is resumed is
  assumed only in `ResumeSpec`; `FairSpec` lets it stay suspended.
- `SpaConfigLock`, `Rrwlock`: holders leave, and a thread that waits for a mutex
  gets it. Readers that enter with priority, and those that try, may pass a waiting
  writer by design, so the writers' properties have the premise that they stop
  coming (`IntrudersStop`, `PrioReadersStop`).
- `Zthr`: weak fairness for all threads. Strong fairness for the work itself: a function cut
  short by cancel again and again still makes progress each time.
- `Zil`: none. The bounds make every behaviour finite, so `CommitsReturn` says that
  none ends inside `zil_commit()`. `VdevLabel` and `Metaslab` have safety properties only;
  `FreedSpaceReturns` bounds the wait for freed space in txgs.

## Proofs

`TxgProofs` proves the seven safety properties that `txg_safety` checks, for every
number of cpus, every finite set of threads and every first txg, from
`TxgAssumption` alone: `TypeCorrect`, `PipelineOrdered`, `NoHolderSyncing`, `HoldKeepsOpen`,
`NoCallbackLost`, `NoCallbackEarly` (an action property) and `StopIsClean`.

None of them is inductive. The invariant `IInv` adds:

- `CountsHolds`: `tc_count` is the number of handles. Without it a count
  of zero would not mean that the quiesce thread may go on.
- `Handles`: a thread with `tc_open_lock` is on a cpu whose lock the quiesce
  thread has not taken yet; this is why the open txg cannot move under it.
- `Flight`: where the two service threads are determines which of the txgs between
  the oldest unsynced and the open one is in which state. At most three are in flight,
  so `SlotInjective` applies: distinct txgs in flight have distinct slots.
- `Callbacks`: an undispatched callback lies in the slot of a txg in flight.
- `ThreadCount`, `Stopping`: what `txg_sync_stop()` has waited for in each phase.

There is one lemma for each conjunct, with one step for each action that can
disturb it. `InvStep` puts them together and the theorems follow.

`SpaConfigLockProofs` proves the three safety properties that `scl` checks, and the type
invariant, for any number of locks and any finite sets of readers and writers, from
`SpaConfigAssumption`: `WritersAreAlone`, `CountsAreExact`, `NoWakeupLost` and `TypesHold`. The
invariant `IInv` takes the three together, since each needs the others (a count of 0
means that nobody holds the lock only because the count is exact), and adds:

- `Args`: what a thread still has to take it does not hold, and what it has to drop it
  does. This is why `spa_config_tryenter()` gives back what it got and no more.
- `Mutex`: a writer between two sections has `scl_lock`, so no other writer is there.
- `TakeAlone`: a writer that saw a count of 0 is alone until it takes its reference,
  although readers that back off may have raised the count again.
- `WriterHolds`: `scl_writer` names a holder.

Here the proof goes by the moving thread: `StepOK` says what a step of thread t may do (it
changes nothing of the others but waking them, gets a lock only where no writer is,
keeps the books on itself, and signals when it takes the last reference), `StepKeeps`
that such a step preserves the invariant, and one lemma for each action that it is such a
step. The counts go from one set of threads to the next by `CardStep`.

`ZthrProofs` proves `OnlyOneWorker` and `NoCancelLeftOver`, for any set of requesters
and any number of restarts. The invariant adds `LockHeld`: a requester inside cancel or
resume has `zthr_request_lock`, which is what keeps a resume from starting a second
worker while a cancel waits for the first.

TLC has checked both invariants on the instances of `scl` and `zthr`.

Only model-checked: liveness, which is out of the prover's reach; the counts of
`Rrwlock` and the logs of `Metaslab`, which are folds and would need induction over data;
`RangeLockTree`, whose operators are recursive; and the properties of `Zil` and `VdevLabel`.

## Findings

- `txg_suspend`, `SuspendInforms`: on a suspended pool the sync thread goes round
  its loop with `tx_sync_lock` held (`txg.c:552`), so a `TXG_WAIT_SUSPEND` caller is
  not "informed immediately" (`txg.c:720`).
- `zthr_wait`, `WaitReturns`: `zthr_wait_cycle_done()` on a worker that was just created or
  resumed may never return (`zthr.c:253`), against the comment at `zthr.c:496`.
- `zil_queue`, `CommitCoversQueue`: `zil_get_commit_list()` may take a commit itx from
  txg T+1 and leave behind a record that the same thread logged earlier in T
  (`zil.c:3016`), so `zil_commit()` returns before the record is on disk, against
  the comment at `zil.c:3964`. `CommitIsDurable`, checked in `zil`, is the weaker
  promise that holds.

## Observations

Met while modelling, reproducible by the change named, and not runs of their own:

- `VdevLabel`: the comments in `vdev_config_sync()` say that even labels of a txg that
  did not commit "will be newer than any uberblock", and that the next open first
  marks every vdev dirty. The code asks for that asynchronously, after the claims have
  synced, and not on every open (`spa_ld_check_for_config_update()`). A load
  after a crash in the even phase uses the txg number again; when that txg commits
  with no dirty vdev, the label left over is not newer than the uberblock any more
  and is read as its configuration. Replacing `whole` by `TRUE` in
  `LabelMatchesUberblock` shows it in ten states without any failing write. The
  condition `whole` asks for all four labels: with a failing write, a full rewrite
  may leave one such label in place.
- `VdevLabel`: with `Ring` in `Tearable`, `ImportKeepsCommitted` fails. After a multiple of
  the ring's size of empty txgs the next uberblock goes to the slot of the
  newest one on disk. The code then relies on the disk, and on one of the four labels of
  up to three vdevs, not to tear the write.
- `Metaslab`: `spa_sync()` dispatches `metaslab_sync_done()` before it writes the uberblock
  of the txg, although the comment above that function says "Called after a
  transaction group has completely synced" (`metaslab.c:4644`). The two txgs of deferral
  cover for it. When free space is down to the slop (or the vdev is being removed or
  expanded), nothing is deferred: without `bound.low` in it, `RewindIntact` fails in 14
  states, and the block overwritten belongs to the last committed txg, whose successor's
  uberblock is not on disk yet. `CheckpointIntact` fails likewise, in 22 states, for a block
  that the txg in sync frees by discarding the checkpoint. The other three properties hold
  down to the slop too.
- `Metaslab`: `metaslab_condense()` drops `ms_lock` with `ms_condensing` set, which keeps
  allocations out. `metaslab_potentially_evict()` does not look at the flag
  (`metaslab.c:2516`): when memory is short, a load of another metaslab may unload the one
  that is being condensed. Before `ms_allocatable` has been written, the condensed space map
  then says that everything is allocated (`Evict` with `written` `FALSE`). Without `emptied`
  in them, `SpaceIsConserved` fails in 16 states and `ImportExact` in 17; nothing in use is
  offered, and the space is lost for good. In the middle of the walk the eviction trips a
  `VERIFY` of `space_map_write()`, and a load of the metaslab before the condense is over an
  `ASSERT` of `metaslab_load_impl()` (`CondenseBreaks`). What a build without assertions
  would read there is not modelled.
- `Metaslab`: `metaslab_unalloc_dva()` has `VERIFY(!msp->ms_condensing)` and runs in open
  context, so a failed direct write or log block in a metaslab that is being condensed
  stops the machine (`Panic`). Likewise `metaslab_unload_delay = 0` lets
  `metaslab_class_evict_old()` reach the `VERIFY0` of `metaslab_evict()`;
  `MetaslabAssumption` excludes it.
- `Metaslab`: the defer trees are in core only. After an import all free space may be
  reused at once, so `rewind` starts again with the imported txg.
- `Zil`: `zil_process_commit_list()` can leave its loop early with an lwb open that
  has no waiter, although its comment says that it makes "any OPENED lwb"
  have one. The lwb is found and issued by the next writer, and `CommitsReturn` holds.
- `Zil`: `zil_suspend()` calls `zil_commit_impl()` "to ensure we wait for all
  LWB_STATE_OPENED, _CLOSED and _READY lwbs" (`zil.c:4708`), and goes on "Now that we've
  ensured all lwb's are LWB_STATE_FLUSH_DONE" (`zil.c:4726`). But `zl_suspend` is set by then,
  so `zil_get_commit_list()` leaves the suspender's own commit itx on its list, and
  the suspender waits for a txg and for no lwb. An lwb that another thread has open, or has
  not issued yet, can be on the list when `zil_destroy()` frees it, where `zil_free_lwb()`
  has `VERIFY`s against it; a `NEW` one that another thread has just picked up in
  `zil_process_commit_list()` is freed under it. The invariant `~Broken` shows it. The two
  txgs that the suspender waits for make it unlikely.
- `Zil`: `zil_suspend()` returns at once when the header has no block, since "this ZIL must
  not be active" (`zil.c:4677`). Another thread may be in `zil_create()` then, past the
  test of `zl_suspend`, and its chain is started while the log counts as
  suspended. `LogIsEmptied` is therefore about suspensions that destroyed the log.
- `Zil`: an lwb issued after `zil_suspend()` has waited, with a failed write, and a crash before
  the txg of the destroy: the block after it is allocated on disk and not in the chain
  (with `faults` 1 beside the suspension, and the destroyed lwbs in the property).
  `BlocksNotLeaked` is about the lwbs on the list, and so about the time before `zil_destroy()`.

## Not modelled

Of the modelled parts:

- `Txg`: txg lists (their slots are those of the callbacks), statistics.
- `Zil`: `zil_crash()` and suspended pools, claim and replay, frozen pools, asynchronous itxs, splitting of large writes, block sizes
  and their predictor, `WR_INDIRECT`, errors of cache flushes, the
  list of an older txg that `zil_itx_assign()` finds in its slot (`zil_clean()` has emptied
  it before the slot comes round).
- `VdevLabel`: auxiliary, log and mirrored vdevs, disks missing from an import,
  multihost, AnyRAID extra data, copying of rings after an expansion, the cachefile.
- `Metaslab`: weights, histograms and the choice of a metaslab, new (`ms_new`) and
  disabled metaslabs, removal and expansion of vdevs, trims, gang blocks, dedup and cloned
  blocks, export (`spa_log_flushall_*`), read-only imports, the encoding of space maps.
- `RangeLockTree`: the AVL tree's balance; its walks are `After` and `Before`.

All models are sequentially consistent: an action is atomic where a lock or an atomic
instruction makes it so, and memory barriers are not modelled.

The other parts of the system are in `PROJECT.json` with the reason. User-space tools,
ioctl glue, compression, checksums, encryption and the OS layers are sequential or
numeric code without a protocol; they are better served by tests.

## Plan

In this order; where a new run asks more than an old one it takes its place.

1. `Zil`: pool suspension and `zil_crash()`, then claim
   and replay after a crash, composed with the header on disk.
2. `VdevLabel`: mirrors and disks that come back, MMP as a second host over the same
   labels (`mmp.c`, the activity check of `spa.c`).
3. `Metaslab`: export with its flush of all logs, new metaslabs, and an abstract specification: a set of blocks with owners.
4. `Deadlist`: snapshots, clones, promotion and destruction over `dsl_deadlist.c` and
   `bpobj.c`. Property: a block is freed exactly when the last dataset that refers to it goes.
5. `Synctask` and user holds: the check in open context is stale when the task runs.
6. `Dbuf`: dirty records in three txgs, undirty, eviction.
7. `Zio`: parents and children, reexecution after suspension.
8. Removal, initialize, TRIM and rebuild over `Zthr` and the
   config locks, with export in the middle.
9. `Taskq`, `bqueue`, `range_tree` as algorithms against a reference.

Theorems to prove next: `ImportKeepsCommitted` of `VdevLabel` for any number of vdevs, txgs
and crashes; `CommitIsDurable` of `Zil`; `WriterExcludesReaders` of `Rrwlock`.
