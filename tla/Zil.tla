-------------------------------- MODULE Zil --------------------------------
(***************************************************************************)
(* The intent log (module/zfs/zil.c): in-memory records (itxs) on per-txg  *)
(* lists, zil_commit() moving them into a chain of log write blocks        *)
(* (lwbs), the lwb pipeline from open to flushed, and the syncing context  *)
(* that frees lwbs and moves the head of the chain on disk.                *)
(*                                                                         *)
(* Lwbs are numbered in the order they are allocated, so zl_lwb_list is    *)
(* the interval zl_first..zl_last, and the block of lwb l points on disk   *)
(* to that of l + 1.  A record is its number, a commit itx the thread that *)
(* waits on it.  Every block is on a vdev of its own, the case in which a  *)
(* cache flush covers the least.                                           *)
(*                                                                         *)
(* zil_suspend() commits and destroys the log beside all that; until       *)
(* zil_resume(), commits rely on the sync of their txg.                    *)
(*                                                                         *)
(* Left out: pool suspension (zil_crash), frozen pools, asynchronous itxs, *)
(* the splitting of large writes and block sizes.                          *)
(***************************************************************************)
EXTENDS Integers, Sequences, FiniteSets, FiniteSetsExt, Functions

CONSTANTS
    Threads,      \* threads that log, commit and suspend
    Bounds,       \* a set of bounds for one behaviour, records with the fields
                  \*   recs      records logged over time
                  \*   commits   zil_commit() calls of one thread
                  \*   txg       txgs opened without a thread waiting for them
                  \*   faults    failed writes and failed allocations
                  \*   suspends  zil_suspend() calls
    None

ASSUME ZilAssumption ==
    /\ Bounds # {} /\ IsFiniteSet(Bounds)
    /\ \A x \in Bounds : {x.recs, x.commits, x.txg, x.faults, x.suspends} \subseteq Nat
    /\ None \notin Threads

Recs == 1..Max({x.recs : x \in Bounds})
\* An lwb is closed with a record or a commit waiter in it; the last one is open.
MaxLwbs == Max({x.recs + x.commits * Cardinality(Threads) + x.suspends + 1 : x \in Bounds})
TXG_SIZE == 4
TXG_DEFER_SIZE == 2
TXG_CONCURRENT_STATES == 3

VARIABLES
    \* the txg pipeline
    open,            \* tx_open_txg
    sync,            \* what the sync thread does with txg synced + 1
    synced,          \* spa_last_synced_txg()
    dirty,           \* txgs in which the dataset is dirty
    \* the zilog
    itxg,            \* zl_itxg: by txg modulo TXG_SIZE, its txg and i_sync_list
    commit_list,     \* zl_itx_commit_list
    issuer,          \* holder of zl_issuer_lock
    lwb, zl_first, zl_last,
    last_opened,     \* zl_last_lwb_opened, or 0
    error_txg,       \* zl_lwb_error_txg
    zh_log,          \* the lwb the header points to in core, or 0 for a hole
    zh_disk,         \* the same on disk
    zl_suspend,      \* how many have suspended the log
    zl_suspending,
    destroy_txg,     \* zl_destroy_txg
    detached,        \* commit itxs in the hands of zil_itxg_clean()
    \* the threads
    th,              \* [Threads -> program counter and locals]
    zcw,             \* [Threads -> commit waiter]
    rec_txg,         \* [Recs -> lrc_txg, or 0]
    acked,           \* [Recs -> whether the log owes its durability to a zil_commit()]
    faults,
    suspends,        \* calls of zil_suspend()
    bound            \* the member of Bounds for this behaviour

suspension == <<zl_suspend, zl_suspending, destroy_txg, suspends, bound>>
pool == <<open, sync, synced, dirty, suspension>>
log == <<itxg, commit_list, issuer, lwb, zl_first, zl_last, last_opened,
         error_txg, zh_log, zh_disk, detached>>
client == <<th, zcw, rec_txg, acked, faults>>
vars == <<pool, log, client>>

Lwbs == 1..MaxLwbs

NoItxg == [txg |-> 0, itxs |-> <<>>]

\* lwb_t, the zios it has in flight and what its block holds on disk.
NoLwb == [state |-> "NONE", recs |-> {}, waiters |-> {}, error |-> FALSE,
          blk |-> FALSE, alloc_txg |-> 0, max_txg |-> 0, issued_txg |-> 0,
          write_child |-> FALSE,  \* the write zio waits for the previous one
          root_child |-> FALSE,   \* the root zio waits for the previous one
          write_error |-> FALSE, root_error |-> FALSE,
          tree |-> {},            \* lwb_vdev_tree
          next |-> FALSE,         \* zc_next_blk is not a hole
          stable |-> FALSE]       \* written, and its vdev flushed

NewLwb == [NoLwb EXCEPT !.state = "NEW"]

NoThread == [pc |-> "idle", tx |-> 0, pos |-> 0, end |-> 0, lwb |-> 0,
             ilwbs |-> <<>>, nolwb |-> {}, wait |-> 0, alloc |-> FALSE,
             called |-> {}, late |-> {}, commits |-> 0,
             wtxg |-> 0, suspends |-> FALSE, cookie |-> "none"]

\* The thread when its call is over.
Returned(me) == [NoThread EXCEPT !.commits = me.commits, !.cookie = me.cookie]

NoWaiter == [lwb |-> 0, done |-> FALSE, error |-> FALSE]

\* A log that was never used, or whose first block zil_destroy(keep_first) kept.
Init ==
    /\ open = 1 /\ sync = "idle" /\ synced = 0 /\ dirty = {}
    /\ itxg = [i \in 0..TXG_SIZE - 1 |-> NoItxg]
    /\ commit_list = <<>>
    /\ issuer = None
    /\ lwb = [l \in Lwbs |-> NoLwb]
    /\ zl_first = 1 /\ zl_last = 0
    /\ last_opened = 0
    /\ error_txg = 0
    /\ zh_log \in {0, 1}
    /\ zh_disk = zh_log
    /\ detached = {}
    /\ th = [p \in Threads |-> NoThread]
    /\ zcw = [p \in Threads |-> NoWaiter]
    /\ rec_txg = [r \in Recs |-> 0]
    /\ acked = [r \in Recs |-> "no"]
    /\ faults = 0
    /\ zl_suspend = 0 /\ zl_suspending = FALSE /\ destroy_txg = 0 /\ suspends = 0
    /\ bound \in Bounds

----------------------------------------------------------------------------
(* The txg pipeline, as txg.c and spa_sync() drive the log.                *)

\* The txg that is syncing, or the last that did.
Syncing == IF sync = "idle" THEN synced ELSE synced + 1

\* What a crash would find on disk: spa_ubsync follows the uberblock only at the
\* end of spa_sync().
OnDiskTxg == IF sync \in {"clean", "ubsync"} THEN synced + 1 ELSE synced

SomeoneWaits ==
    \/ destroy_txg >= open
    \/ \E p \in Threads : open <= IF th[p].pc = "wait" THEN th[p].wtxg ELSE th[p].wait

\* The quiesce thread opens the next txg once the one before is being synced.
TxgQuiesce ==
    /\ open - 1 <= Syncing
    /\ open < bound.txg \/ SomeoneWaits
    /\ open' = open + 1
    /\ UNCHANGED <<sync, synced, dirty, suspension, log, client>>

\* The sync thread takes a txg that no dmu_tx holds.
SpaSyncStart ==
    /\ sync = "idle"
    /\ synced + 1 < open
    /\ \A p \in Threads : th[p].tx # synced + 1
    /\ sync' = "zil"
    /\ UNCHANGED <<open, synced, dirty, suspension, log, client>>

\* A mutated form: zil_sync() does not wait.
NothingInFlightNot(t) == TRUE

\* zil_lwb_flush_wait_all(): zl_lwb_inflight of the txg is 0.
NothingInFlight(t) ==
    \A l \in Lwbs : lwb[l].state \in {"READY", "ISSUED", "WRITE_DONE"} => lwb[l].issued_txg # t

Freeable(l, t) ==
    /\ lwb[l].state = "FLUSH_DONE"
    /\ lwb[l].alloc_txg <= t
    /\ lwb[l].max_txg <= t

\* A mutated form: zil_sync() frees the lwb without clearing the pointer to it.
OpenedAfterKept(free) == last_opened

\* zl_last_lwb_opened, once zil_free_lwb() has freed some lwbs.
OpenedAfter(free) == IF last_opened \in free THEN 0 ELSE last_opened

\* zil_sync(), for a dataset that is dirty in the txg: free the lwbs at the head
\* of the list that the txg makes obsolete and point the header at the next one.
ZilSync ==
    LET t == synced + 1
        free == {l \in zl_first..zl_last : \A m \in zl_first..l : Freeable(m, t)}
        head == zl_first + Cardinality(free)
    IN  /\ sync = "zil"
        /\ sync' = "uberblock"
        /\ dirty' = dirty \ {t}
        /\ IF t \in dirty
           THEN /\ NothingInFlight(t)
                /\ lwb' = [l \in Lwbs |-> IF l \in free THEN [lwb[l] EXCEPT !.state = "FREED"] ELSE lwb[l]]
                /\ zl_first' = head
                /\ last_opened' = OpenedAfter(free)
                /\ zh_log' = IF zl_first > zl_last THEN (IF destroy_txg = t THEN 0 ELSE zh_log)
                             ELSE IF head <= zl_last /\ lwb[head].blk THEN head ELSE 0
           ELSE UNCHANGED <<lwb, zl_first, last_opened, zh_log>>
        /\ UNCHANGED <<open, synced, suspension, itxg, commit_list, issuer, zl_last, error_txg,
                       zh_disk, detached, client>>

\* The uberblock makes the txg, and the log header in it, the pool's state.
WriteUberblock ==
    /\ sync = "uberblock"
    /\ sync' = "clean"
    /\ zh_disk' = zh_log
    /\ lwb' = [l \in Lwbs |->
                 IF lwb[l].state = "FREED" \/ (lwb[l].state = "DESTROYED" /\ destroy_txg <= synced + 1)
                 THEN [NoLwb EXCEPT !.state = "GONE"] ELSE lwb[l]]
    /\ UNCHANGED <<open, synced, dirty, suspension, itxg, commit_list, issuer, zl_first, zl_last,
                   last_opened, error_txg, zh_log, detached, client>>

\* zil_clean(): detach the itxs of the txg; a task frees them.
ZilClean ==
    LET i == (synced + 1) % TXG_SIZE
    IN  /\ sync = "clean"
        /\ sync' = "ubsync"
        /\ detached' = detached \cup {q \in Threads : \E k \in DOMAIN itxg[i].itxs : itxg[i].itxs[k] = q}
        /\ itxg' = [itxg EXCEPT ![i] = NoItxg]
        /\ UNCHANGED <<open, synced, dirty, suspension, commit_list, issuer, lwb, zl_first, zl_last,
                       last_opened, error_txg, zh_log, zh_disk, client>>

SetUbsync ==
    /\ sync = "ubsync"
    /\ sync' = "idle"
    /\ synced' = synced + 1
    /\ acked' = [r \in Recs |-> IF rec_txg[r] = synced + 1 THEN "no" ELSE acked[r]]
    /\ UNCHANGED <<open, dirty, suspension, log, th, zcw, rec_txg, faults>>

\* zil_itxg_clean(), for one commit itx that was still on the list.
ZilItxgClean(q) ==
    /\ q \in detached
    /\ detached' = detached \ {q}
    /\ zcw' = [zcw EXCEPT ![q] = [lwb |-> 0, done |-> TRUE, error |-> FALSE]]
    /\ UNCHANGED <<pool, itxg, commit_list, issuer, lwb, zl_first, zl_last, last_opened,
                   error_txg, zh_log, zh_disk, th, rec_txg, acked, faults>>

----------------------------------------------------------------------------
(* Logging, and the start of zil_commit().                                 *)

Logged == {r \in Recs : rec_txg[r] # 0}

\* zil_itx_assign(): onto the list of the txg, which replaces that of an older
\* txg in the same slot, empty since its zil_clean().
ItxAssign(t, itx) ==
    LET i == t % TXG_SIZE
        old == IF itxg[i].txg = t THEN itxg[i].itxs ELSE <<>>
    IN  itxg' = [itxg EXCEPT ![i] = [txg |-> t, itxs |-> Append(old, itx)]]

\* dmu_tx_assign() of an operation that will log a record.
TxAssign(p) ==
    /\ th[p].pc = "idle"
    /\ th[p].commits < bound.commits
    /\ Cardinality(Logged) + Cardinality({q \in Threads : th[q].pc = "log"}) < bound.recs
    /\ th' = [th EXCEPT ![p].pc = "log", ![p].tx = open]
    /\ UNCHANGED <<pool, log, zcw, rec_txg, acked, faults>>

\* The operation's zil_itx_assign() and dmu_tx_commit().
LogRecord(p) ==
    LET r == Cardinality(Logged) + 1
        t == th[p].tx
    IN  /\ th[p].pc = "log"
        /\ ItxAssign(t, r)
        /\ rec_txg' = [rec_txg EXCEPT ![r] = t]
        /\ dirty' = dirty \cup {t}
        /\ th' = [th EXCEPT ![p].pc = "idle", ![p].tx = 0]
        /\ UNCHANGED <<open, sync, synced, suspension, commit_list, issuer, lwb, zl_first, zl_last,
                       last_opened, error_txg, zh_log, zh_disk, detached, zcw, acked, faults>>

\* zil_commit_flags(): a suspended log is left to txg_wait_synced(0).
ZilCommit(p) ==
    /\ th[p].pc = "idle"
    /\ th[p].commits < bound.commits
    /\ th' = [th EXCEPT ![p].pc = IF zl_suspend > 0 THEN "syncwait" ELSE "impl",
                        ![p].wait = IF zl_suspend > 0 THEN open + TXG_DEFER_SIZE ELSE 0,
                        ![p].called = Logged, ![p].commits = @ + 1]
    /\ UNCHANGED <<pool, log, zcw, rec_txg, acked, faults>>

\* zil_commit_impl(): a new waiter, and the dmu_tx_assign() of its commit itx.
ZilCommitImpl(p) ==
    /\ th[p].pc = "impl"
    /\ th' = [th EXCEPT ![p].pc = "citx", ![p].tx = open]
    /\ zcw' = [zcw EXCEPT ![p] = NoWaiter]
    /\ UNCHANGED <<pool, log, rec_txg, acked, faults>>

\* zil_commit_itx_assign()
CommitItxAssign(p) ==
    /\ th[p].pc = "citx"
    /\ ItxAssign(th[p].tx, p)
    /\ th' = [th EXCEPT ![p].pc = "writer", ![p].tx = 0]
    /\ UNCHANGED <<pool, commit_list, issuer, lwb, zl_first, zl_last, last_opened, error_txg,
                   zh_log, zh_disk, detached, zcw, rec_txg, acked, faults>>

----------------------------------------------------------------------------
(* zil_commit_writer(), under zl_issuer_lock.                              *)

\* Nothing to do when another thread has already taken care of the waiter.
WriterBails(p) ==
    /\ th[p].pc = "writer"
    /\ issuer = None
    /\ zcw[p].lwb # 0 \/ zcw[p].done
    /\ th' = [th EXCEPT ![p].pc = "wait"]
    /\ UNCHANGED <<pool, log, zcw, rec_txg, acked, faults>>

WriterLocks(p) ==
    /\ th[p].pc = "writer"
    /\ issuer = None
    /\ zcw[p].lwb = 0 /\ ~zcw[p].done
    /\ issuer' = p
    /\ th' = [th EXCEPT ![p].pc = "get", ![p].pos = synced + 1,
                        ![p].end = synced + 1 + TXG_CONCURRENT_STATES]
    /\ UNCHANGED <<pool, itxg, commit_list, lwb, zl_first, zl_last, last_opened, error_txg,
                   zh_log, zh_disk, detached, zcw, rec_txg, acked, faults>>

\* The records that a waiter was promised and that are on the list of a txg before t.
LeftBehind(q, t) ==
    {r \in th[q].called : rec_txg[r] < t /\ r \in Range(itxg[rec_txg[r] % TXG_SIZE].itxs)}

\* zil_get_commit_list(), one round of its loop: each itxg has a lock of its own.  The
\* lists of a log that was suspended meanwhile are left to the sync of their txg.
GetCommitList(p) ==
    LET t == th[p].pos
        i == t % TXG_SIZE
        last == t + 1 = th[p].end
        here == itxg[i].txg = t /\ itxg[i].itxs # <<>>
        take == here /\ zl_suspend = 0
    IN  /\ th[p].pc = "get"
        /\ IF take
           THEN /\ commit_list' = commit_list \o itxg[i].itxs
                /\ itxg' = [itxg EXCEPT ![i].itxs = <<>>]
           ELSE UNCHANGED <<commit_list, itxg>>
        /\ th' = [q \in Threads |->
                    LET me == IF take /\ q \in Range(itxg[i].itxs)
                              THEN [th[q] EXCEPT !.late = @ \cup LeftBehind(q, t)]
                              ELSE th[q]
                    IN  IF q # p THEN me
                        ELSE [me EXCEPT !.pc = IF last THEN "prune" ELSE "get",
                                        !.pos = IF last THEN 0 ELSE t + 1,
                                        !.end = IF last THEN 0 ELSE @,
                                        !.wtxg = IF here /\ ~take THEN t ELSE @]]
        /\ UNCHANGED <<pool, issuer, lwb, zl_first, zl_last, last_opened, error_txg, zh_log,
                       zh_disk, detached, zcw, rec_txg, acked, faults>>

\* zil_lwb_error_pending(): a failed lwb may still end the log on disk.
ErrorPending == error_txg > synced

\* zil_commit_waiter_done()
Done(zs, qs, err) ==
    [q \in Threads |-> IF q \in qs THEN [lwb |-> 0, done |-> TRUE, error |-> err] ELSE zs[q]]

\* zil_prune_commit_list(), one round: a commit itx with no record before it waits
\* for the last lwb opened, or for nothing.
PruneCommitList(p) ==
    /\ th[p].pc = "prune"
    /\ commit_list # <<>>
    /\ Head(commit_list) \in Threads
    /\ LET q == Head(commit_list)
           l == last_opened
       IN  IF l = 0 \/ (l # 0 /\ lwb[l].state = "FLUSH_DONE")
           THEN /\ zcw' = Done(zcw, {q}, ErrorPending)
                /\ UNCHANGED lwb
           ELSE /\ zcw' = [zcw EXCEPT ![q].lwb = l]
                /\ lwb' = [lwb EXCEPT ![l].waiters = @ \cup {q}]
    /\ commit_list' = Tail(commit_list)
    /\ UNCHANGED <<pool, itxg, issuer, zl_first, zl_last, last_opened, error_txg, zh_log,
                   zh_disk, detached, th, rec_txg, acked, faults>>

Pruned(p) ==
    /\ th[p].pc = "prune"
    /\ ~(commit_list # <<>> /\ Head(commit_list) \in Threads)

ListIsEmpty == zl_first > zl_last

\* zil_process_commit_list(): the tail of the list takes the itxs.
ProcessTail(p) ==
    /\ Pruned(p)
    /\ ~ListIsEmpty
    /\ th' = [th EXCEPT ![p].pc = "process", ![p].lwb = zl_last]
    /\ UNCHANGED <<pool, log, zcw, rec_txg, acked, faults>>

\* No lwb, and nothing to commit.
ProcessNothing(p) ==
    /\ Pruned(p)
    /\ ListIsEmpty
    /\ commit_list = <<>>
    /\ issuer' = None
    /\ th' = [th EXCEPT ![p].pc = "wait"]
    /\ UNCHANGED <<pool, itxg, commit_list, lwb, zl_first, zl_last, last_opened, error_txg,
                   zh_log, zh_disk, detached, zcw, rec_txg, acked, faults>>

\* zil_create(): the first lwb has the block of the header.
CreateFromHeader(p) ==
    /\ Pruned(p)
    /\ ListIsEmpty
    /\ commit_list # <<>>
    /\ destroy_txg <= synced
    /\ zh_log # 0
    /\ zl_last' = zl_last + 1
    /\ lwb' = [lwb EXCEPT ![zl_last + 1] = [NewLwb EXCEPT !.blk = TRUE]]
    /\ th' = [th EXCEPT ![p].pc = "process", ![p].lwb = zl_last + 1]
    /\ UNCHANGED <<pool, itxg, commit_list, issuer, zl_first, last_opened, error_txg, zh_log,
                   zh_disk, detached, zcw, rec_txg, acked, faults>>

\* zil_create(): allocate a first block in a txg and wait for the header in it.
CreateBlock(p) ==
    /\ Pruned(p)
    /\ ListIsEmpty
    /\ commit_list # <<>>
    /\ destroy_txg <= synced
    /\ zh_log = 0
    /\ dirty' = dirty \cup {open}
    /\ \/ /\ zl_last' = zl_last + 1
          /\ lwb' = [lwb EXCEPT ![zl_last + 1] = [NewLwb EXCEPT !.blk = TRUE, !.alloc_txg = open]]
          /\ th' = [th EXCEPT ![p].pc = "created", ![p].lwb = zl_last + 1, ![p].wait = open]
          /\ UNCHANGED faults
       \/ /\ faults < bound.faults
          /\ faults' = faults + 1
          /\ th' = [th EXCEPT ![p].pc = "created", ![p].lwb = 0, ![p].wait = open]
          /\ UNCHANGED <<zl_last, lwb>>
    /\ UNCHANGED <<open, sync, synced, suspension, itxg, commit_list, issuer, zl_first, last_opened,
                   error_txg, zh_log, zh_disk, detached, zcw, rec_txg, acked>>

CreateDone(p) ==
    /\ th[p].pc = "created"
    /\ synced >= th[p].wait
    /\ th' = [th EXCEPT ![p].pc = "process", ![p].wait = 0]
    /\ UNCHANGED <<pool, log, zcw, rec_txg, acked, faults>>

----------------------------------------------------------------------------
(* zil_process_commit_list(), one itx at a time.                           *)

\* The thread stops early when its own waiter no longer needs it.
Satisfied(z, l) == (z.lwb # 0 /\ z.lwb # l) \/ z.done

\* A record whose txg has synced needs no lwb.
SkipSynced(p) ==
    /\ th[p].pc = "process"
    /\ commit_list # <<>>
    /\ Head(commit_list) \in Recs
    /\ rec_txg[Head(commit_list)] <= synced
    /\ commit_list' = Tail(commit_list)
    /\ UNCHANGED <<pool, itxg, issuer, lwb, zl_first, zl_last, last_opened, error_txg, zh_log,
                   zh_disk, detached, client>>

\* zil_lwb_write_open()
Opened(L, l) == [L EXCEPT ![l].state = "OPENED"]

\* zil_lwb_assign() of a commit itx: its waiter goes onto the lwb.
AssignCommit(p) ==
    LET q == Head(commit_list)
        l == th[p].lwb
    IN  /\ th[p].pc = "process"
        /\ commit_list # <<>>
        /\ q \in Threads
        /\ l # 0
        /\ commit_list' = Tail(commit_list)
        /\ lwb' = [Opened(lwb, l) EXCEPT ![l].waiters = @ \cup {q}]
        /\ last_opened' = l
        /\ zcw' = [zcw EXCEPT ![q].lwb = l]
        /\ th' = [th EXCEPT ![p].pc = IF Satisfied(zcw'[p], l) THEN "processed" ELSE "process"]
        /\ UNCHANGED <<pool, itxg, issuer, zl_first, zl_last, error_txg, zh_log, zh_disk,
                       detached, rec_txg, acked, faults>>

\* zil_lwb_add_txg() and the insertion into lwb_itxs.
AddRec(L, l, r) ==
    [L EXCEPT ![l].recs = @ \cup {r},
              ![l].max_txg = IF rec_txg[r] > @ THEN rec_txg[r] ELSE @]

\* zil_lwb_assign() of a record that fits, as it does in an empty lwb.
AssignRecord(p) ==
    LET r == Head(commit_list)
        l == th[p].lwb
    IN  /\ th[p].pc = "process"
        /\ commit_list # <<>>
        /\ r \in Recs
        /\ rec_txg[r] > synced
        /\ l # 0
        /\ commit_list' = Tail(commit_list)
        /\ lwb' = AddRec(Opened(lwb, l), l, r)
        /\ last_opened' = l
        /\ th' = [th EXCEPT ![p].pc = IF Satisfied(zcw[p], l) THEN "processed" ELSE "process"]
        /\ UNCHANGED <<pool, itxg, issuer, zl_first, zl_last, error_txg, zh_log, zh_disk,
                       detached, zcw, rec_txg, acked, faults>>

\* The same for one that does not fit: zil_lwb_write_close() closes the lwb and
\* chains another, or returns NULL when the lwb has no block to be written to.
AssignRecordNext(p) ==
    LET r == Head(commit_list)
        l == th[p].lwb
        n == zl_last + 1
    IN  /\ th[p].pc = "process"
        /\ commit_list # <<>>
        /\ r \in Recs
        /\ rec_txg[r] > synced
        /\ l # 0 /\ lwb[l].recs # {}
        /\ commit_list' = Tail(commit_list)
        /\ IF lwb[l].error
           THEN /\ lwb' = [lwb EXCEPT ![l].state = "CLOSED"]
                /\ th' = [th EXCEPT ![p].lwb = 0, ![p].ilwbs = Append(@, l)]
                /\ UNCHANGED <<zl_last, last_opened>>
           ELSE /\ zl_last' = n
                /\ last_opened' = n
                /\ lwb' = AddRec(Opened([lwb EXCEPT ![l].state = "CLOSED", ![n] = NewLwb], n), n, r)
                /\ th' = [th EXCEPT ![p].lwb = n, ![p].ilwbs = Append(@, l),
                                    ![p].pc = IF Satisfied(zcw[p], n) THEN "processed" ELSE "process"]
        /\ UNCHANGED <<pool, itxg, issuer, zl_first, error_txg, zh_log, zh_disk, detached,
                       zcw, rec_txg, acked, faults>>

\* Without an lwb, records and waiters are left to the sync of their txg.
NoLwbForItx(p) ==
    LET x == Head(commit_list)
    IN  /\ th[p].pc = "process"
        /\ commit_list # <<>>
        /\ th[p].lwb = 0
        /\ x \in Recs => rec_txg[x] > synced
        /\ commit_list' = Tail(commit_list)
        /\ th' = [th EXCEPT ![p].nolwb = IF x \in Threads THEN @ \cup {x} ELSE @]
        /\ UNCHANGED <<pool, itxg, issuer, lwb, zl_first, zl_last, last_opened, error_txg,
                       zh_log, zh_disk, detached, zcw, rec_txg, acked, faults>>

\* A mutated form: wait for the next txg to sync only.
StallTxgNext == synced + 1

\* The txg that txg_wait_synced(0) waits for.
StallTxg == open + TXG_DEFER_SIZE

\* What the thread does with the lwbs it has yet to issue.  After the last it goes
\* to wait, or, with the lock still held, stalls: zil_commit_writer_stall().
IssueRest(p, me, ilwbs) ==
    [me EXCEPT !.lwb = 0, !.alloc = FALSE, !.ilwbs = ilwbs,
               !.pc = IF ilwbs # <<>> THEN "issue" ELSE IF issuer' = p THEN "stall" ELSE "wait",
               !.wait = IF ilwbs = <<>> /\ issuer' = p THEN StallTxg ELSE 0]

Processed(p) ==
    \/ th[p].pc = "processed"
    \/ th[p].pc = "process" /\ commit_list = <<>>

\* The lwb stays open for more itxs, or is still new: drop the lock and issue the
\* lwbs that were closed.
ProcessLeavesOpen(p) ==
    /\ Processed(p)
    /\ th[p].lwb # 0
    /\ zl_suspend > 0 => lwb[th[p].lwb].state = "NEW"
    /\ issuer' = None
    /\ th' = [th EXCEPT ![p] = IssueRest(p, @, @.ilwbs)]
    /\ UNCHANGED <<pool, itxg, commit_list, lwb, zl_first, zl_last, last_opened, error_txg,
                   zh_log, zh_disk, detached, zcw, rec_txg, acked, faults>>

\* zil_lwb_write_close(), then issue: with the lock kept for the stall when there
\* is no next lwb.
CloseAndIssue(p, l) ==
    /\ IF lwb[l].error
       THEN /\ lwb' = [lwb EXCEPT ![l].state = "CLOSED"]
            /\ issuer' = p
            /\ UNCHANGED zl_last
       ELSE /\ lwb' = [lwb EXCEPT ![l].state = "CLOSED", ![zl_last + 1] = NewLwb]
            /\ issuer' = None
            /\ zl_last' = zl_last + 1
    /\ th' = [th EXCEPT ![p] = IssueRest(p, @, Append(@.ilwbs, l))]

\* The burst is over: close the lwb.
ProcessCloses(p) ==
    /\ Processed(p)
    /\ th[p].lwb # 0
    /\ lwb[th[p].lwb].state = "OPENED"
    /\ CloseAndIssue(p, th[p].lwb)
    /\ UNCHANGED <<pool, itxg, commit_list, zl_first, last_opened, error_txg, zh_log, zh_disk,
                   detached, zcw, rec_txg, acked, faults>>

\* No lwb is left to write to: issue what there is and stall, under the lock.
ProcessStalls(p) ==
    /\ Processed(p)
    /\ th[p].lwb = 0
    /\ UNCHANGED issuer
    /\ th' = [th EXCEPT ![p] = IssueRest(p, @, @.ilwbs)]
    /\ UNCHANGED <<pool, itxg, commit_list, lwb, zl_first, zl_last, last_opened, error_txg,
                   zh_log, zh_disk, detached, zcw, rec_txg, acked, faults>>

----------------------------------------------------------------------------
(* zil_lwb_write_issue()                                                   *)

\* A mutated form: issue the lwb before the previous one has chained a block to it.
HasBlockOrErrorAny(l) == TRUE

HasBlockOrError(l) == lwb[l].blk \/ lwb[l].error

\* Fill the lwb.  A record whose data cannot be read is left out once its txg has
\* synced.  The lwb is ready; without a block it is left to the thread that issues
\* the lwb before it.
IssueFill(p) ==
    LET l == Head(th[p].ilwbs)
        old == {r \in lwb[l].recs : rec_txg[r] <= synced}
    IN  /\ th[p].pc = "issue"
        /\ UNCHANGED issuer
        /\ \/ /\ lwb' = [lwb EXCEPT ![l].state = "READY"]
              /\ UNCHANGED faults
           \/ /\ old # {} /\ faults < bound.faults
              /\ faults' = faults + 1
              /\ lwb' = [lwb EXCEPT ![l].state = "READY", ![l].recs = @ \ old]
        /\ th' = IF HasBlockOrError(l)
                 THEN [th EXCEPT ![p].pc = "alloc", ![p].lwb = l, ![p].ilwbs = Tail(@)]
                 ELSE [th EXCEPT ![p] = IssueRest(p, @, Tail(@.ilwbs))]
        /\ UNCHANGED <<pool, itxg, commit_list, zl_first, zl_last, last_opened,
                       error_txg, zh_log, zh_disk, detached, zcw, rec_txg, acked>>

\* dmu_tx_assign() puts the issue into the open txg.
IssueTxg(l) == open

\* In a transaction of the open txg: allocate the next block, unless already in
\* error, and count the lwb as in flight.
IssueAlloc(p) ==
    LET l == th[p].lwb
    IN  /\ th[p].pc = "alloc"
        /\ dirty' = dirty \cup {IssueTxg(l)}
        /\ lwb' = [lwb EXCEPT ![l].issued_txg = IssueTxg(l)]
        /\ \/ /\ ~lwb[l].error
              /\ th' = [th EXCEPT ![p].pc = "link", ![p].alloc = TRUE]
              /\ UNCHANGED faults
           \/ /\ ~lwb[l].error /\ faults < bound.faults
              /\ th' = [th EXCEPT ![p].pc = "link", ![p].alloc = FALSE]
              /\ faults' = faults + 1
           \/ /\ lwb[l].error
              /\ th' = [th EXCEPT ![p].pc = "link", ![p].alloc = FALSE]
              /\ UNCHANGED faults
        /\ UNCHANGED <<open, sync, synced, suspension, itxg, commit_list, issuer, zl_first, zl_last,
                       last_opened, error_txg, zh_log, zh_disk, detached, zcw, rec_txg, acked>>

\* zil_lwb_set_zio_dependency(): the zios wait for those of the previous lwb; the
\* write zio only if that lwb may defer its flush to this one.
SetZioDependency(L, l) ==
    LET child == l - 1 >= zl_first /\ L[l - 1].state # "FLUSH_DONE"
    IN  [L EXCEPT ![l].root_child = child,
                  ![l].write_child = child /\ L[l - 1].state = "ISSUED" /\ L[l - 1].waiters = {}]

\* A mutated form: the next lwb is left to its own thread.
NextIsReadyNot(n) == FALSE

\* The thread of the next lwb has filled it and left it to this one.
NextIsReady(n) == n <= zl_last /\ lwb[n].state = "READY"

\* Under zl_lock: issued, and the next lwb learns its block or the error.  If that
\* one was ready, it is issued too.
IssueLink(p) ==
    LET l == th[p].lwb
        n == l + 1
        hasNext == n <= zl_last
        L1 == [SetZioDependency(lwb, l) EXCEPT
                  ![l].state = "ISSUED", ![l].next = th[p].alloc,
                  ![l].tree = IF lwb[l].error THEN {} ELSE {l}]
    IN  /\ th[p].pc = "link"
        /\ UNCHANGED issuer
        /\ lwb' = IF hasNext
                  THEN [L1 EXCEPT ![n].blk = th[p].alloc, ![n].error = ~th[p].alloc,
                                  ![n].alloc_txg = lwb[l].issued_txg]
                  ELSE L1
        /\ th' = IF NextIsReady(n)
                 THEN [th EXCEPT ![p].pc = "alloc", ![p].lwb = n, ![p].alloc = FALSE]
                 ELSE [th EXCEPT ![p] = IssueRest(p, @, @.ilwbs)]
        /\ UNCHANGED <<pool, itxg, commit_list, zl_first, zl_last, last_opened,
                       error_txg, zh_log, zh_disk, detached, zcw, rec_txg, acked, faults>>

\* The txgs have synced: the waiters without an lwb are done.
StallDone(p) ==
    /\ th[p].pc = "stall"
    /\ synced >= th[p].wait
    /\ issuer' = None
    /\ zcw' = Done(zcw, th[p].nolwb, FALSE)
    /\ th' = [th EXCEPT ![p].pc = "wait", ![p].wait = 0, ![p].nolwb = {}]
    /\ UNCHANGED <<pool, itxg, commit_list, lwb, zl_first, zl_last, last_opened, error_txg,
                   zh_log, zh_disk, detached, rec_txg, acked, faults>>

----------------------------------------------------------------------------
(* Completion of the zios of an lwb.                                       *)

\* zio_notify_parent(): the parent stops waiting and inherits the error.
NotifyWrite(L, l, err) ==
    IF l + 1 \in Lwbs /\ L[l + 1].write_child
    THEN [L EXCEPT ![l + 1].write_child = FALSE, ![l + 1].write_error = @ \/ err]
    ELSE L

NotifyRoot(L, l, err) ==
    IF l + 1 \in Lwbs /\ L[l + 1].root_child
    THEN [L EXCEPT ![l + 1].root_child = FALSE, ![l + 1].root_error = @ \/ err]
    ELSE L

\* zil_lwb_write_done(): flush the vdevs of the tree; or, when nobody waits for
\* this lwb and the next one is issued, leave them to that one; or, after an
\* error, forget them.
WriteDone(l, failed) ==
    LET err == failed \/ lwb[l].error \/ lwb[l].write_error
        defer == lwb[l].waiters = {} /\ l < zl_last /\ lwb[l + 1].state = "ISSUED"
        L1 == NotifyWrite([lwb EXCEPT ![l].state = "WRITE_DONE", ![l].write_error = err,
                                      ![l].tree = {}], l, err)
    IN  /\ lwb[l].state = "ISSUED"
        /\ ~lwb[l].write_child
        /\ failed => ~lwb[l].error
        /\ lwb' = IF err THEN L1
                  ELSE IF defer THEN [L1 EXCEPT ![l + 1].tree = @ \cup lwb[l].tree]
                  ELSE [m \in Lwbs |-> [L1[m] EXCEPT !.stable = @ \/ m \in lwb[l].tree]]
        /\ UNCHANGED <<pool, itxg, commit_list, issuer, zl_first, zl_last, last_opened,
                       error_txg, zh_log, zh_disk, detached, th, zcw, rec_txg, acked>>

ZilLwbWriteDone(l) == WriteDone(l, FALSE) /\ UNCHANGED faults

ZilLwbWriteFails(l) ==
    /\ faults < bound.faults
    /\ WriteDone(l, TRUE)
    /\ faults' = faults + 1

\* A mutated form: only the error of the lwb itself.
WaitersErrorOwn(err) == err

WaitersError(err) == err \/ ErrorPending

\* zil_lwb_flush_vdevs_done(): the waiters are done; with an error when this lwb,
\* or one before it that no synced txg has freed yet, failed.
FlushVdevsDone(l) ==
    LET err == lwb[l].write_error \/ lwb[l].root_error
    IN  /\ lwb[l].state = "WRITE_DONE"
        /\ ~lwb[l].root_child
        /\ lwb' = NotifyRoot([lwb EXCEPT ![l].state = "FLUSH_DONE", ![l].waiters = {},
                                         ![l].write_error = FALSE, ![l].root_error = FALSE],
                             l, err)
        /\ error_txg' = IF err /\ lwb[l].issued_txg > error_txg THEN lwb[l].issued_txg ELSE error_txg
        /\ zcw' = Done(zcw, lwb[l].waiters, WaitersError(err))
        /\ UNCHANGED <<pool, itxg, commit_list, issuer, zl_first, zl_last, last_opened, zh_log,
                       zh_disk, detached, th, rec_txg, acked, faults>>

----------------------------------------------------------------------------
(* zil_commit_waiter()                                                     *)

\* zil_commit() returns: what it was called for is on stable storage.
Return(p) ==
    /\ acked' = [r \in Recs |->
                    IF rec_txg[r] <= synced THEN "no"
                    ELSE IF r \in th[p].called \ th[p].late THEN "yes"
                    ELSE IF r \in th[p].late /\ acked[r] = "no" THEN "late"
                    ELSE acked[r]]
    /\ th' = [th EXCEPT ![p] =
                 IF th[p].suspends
                 THEN [Returned(th[p]) EXCEPT !.pc = "suspsync", !.wait = open + TXG_DEFER_SIZE]
                 ELSE Returned(th[p])]
    /\ zcw' = [zcw EXCEPT ![p] = NoWaiter]

WaiterDone(p) ==
    /\ th[p].pc = "wait"
    /\ zcw[p].done /\ ~zcw[p].error /\ th[p].wtxg = 0
    /\ Return(p)
    /\ UNCHANGED <<pool, log, rec_txg, faults>>

\* After an error: txg_wait_synced(0); after itxs left on a suspended log: until
\* they have synced.
WaiterSyncs(p) ==
    /\ th[p].pc = "wait"
    /\ zcw[p].done /\ (zcw[p].error \/ th[p].wtxg # 0)
    /\ th' = [th EXCEPT ![p].pc = "syncwait",
                        ![p].wait = IF zcw[p].error THEN open + TXG_DEFER_SIZE ELSE th[p].wtxg]
    /\ UNCHANGED <<pool, log, zcw, rec_txg, acked, faults>>

SyncWaitDone(p) ==
    /\ th[p].pc = "syncwait"
    /\ synced >= th[p].wait
    /\ Return(p)
    /\ UNCHANGED <<pool, log, rec_txg, faults>>

\* The time is over and the lwb still open.
WaiterTimeout(p) ==
    /\ th[p].pc = "wait"
    /\ ~zcw[p].done
    /\ zcw[p].lwb # 0 /\ lwb[zcw[p].lwb].state = "OPENED"
    /\ th' = [th EXCEPT ![p].pc = "timeout"]
    /\ UNCHANGED <<pool, log, zcw, rec_txg, acked, faults>>

\* zil_commit_waiter_timeout(): under zl_issuer_lock, check again, close and issue.
TimeoutCloses(p) ==
    LET l == zcw[p].lwb
    IN  /\ th[p].pc = "timeout"
        /\ issuer = None
        /\ ~zcw[p].done /\ lwb[l].state = "OPENED"
        /\ CloseAndIssue(p, l)
        /\ UNCHANGED <<pool, itxg, commit_list, zl_first, last_opened, error_txg, zh_log,
                       zh_disk, detached, zcw, rec_txg, acked, faults>>

TimeoutReturns(p) ==
    /\ th[p].pc = "timeout"
    /\ issuer = None
    /\ ~(~zcw[p].done /\ lwb[zcw[p].lwb].state = "OPENED")
    /\ th' = [th EXCEPT ![p].pc = "wait"]
    /\ UNCHANGED <<pool, log, zcw, rec_txg, acked, faults>>

----------------------------------------------------------------------------
(* zil_suspend(), zil_destroy() and zil_resume().                          *)

\* The first to suspend a log that has a block commits it and destroys it; the others
\* wait for that.  A caller without a cookie resumes at once.
ZilSuspend(p) ==
    /\ th[p].pc = "idle"
    /\ th[p].cookie = "none"
    /\ suspends < bound.suspends
    /\ suspends' = suspends + 1
    /\ zl_suspend' = zl_suspend + 1
    /\ LET first == zl_suspend = 0 /\ zh_log # 0
       IN  /\ zl_suspending' = (zl_suspending \/ first)
           /\ th' = [th EXCEPT ![p].pc = IF first THEN "impl" ELSE "suspwait",
                               ![p].suspends = first, ![p].called = Logged]
    /\ UNCHANGED <<open, sync, synced, dirty, destroy_txg, bound, log, zcw, rec_txg, acked,
                   faults>>

SuspendWaited(p) ==
    /\ th[p].pc = "suspwait"
    /\ ~zl_suspending
    /\ th' = [th EXCEPT ![p] = [Returned(@) EXCEPT !.cookie = "kept"]]
    /\ UNCHANGED <<pool, log, zcw, rec_txg, acked, faults>>

\* The txgs after zil_commit_impl() have synced, and so has any destroy before this one.
\* There is nothing to destroy, or the destroy begins a transaction.
SuspendSynced(p) ==
    /\ th[p].pc = "suspsync"
    /\ synced >= th[p].wait /\ synced >= destroy_txg
    /\ IF zh_log = 0
       THEN /\ th' = [th EXCEPT ![p] = [Returned(@) EXCEPT !.cookie = "kept"]]
            /\ zl_suspending' = FALSE
            /\ UNCHANGED dirty
       ELSE /\ th' = [th EXCEPT ![p].pc = "destroy", ![p].wait = 0, ![p].tx = open]
            /\ dirty' = dirty \cup {open}
            /\ UNCHANGED zl_suspending
    /\ UNCHANGED <<open, sync, synced, zl_suspend, destroy_txg, suspends, bound, log, zcw,
                   rec_txg, acked, faults>>

\* The lwb has itxs, waiters or zios, or a thread is about to look at it.
InUse(l) ==
    \/ lwb[l].state \notin {"NEW", "FLUSH_DONE"}
    \/ \E p \in Threads : th[p].lwb = l

\* zil_destroy(): free the blocks and the lwbs.
ZilDestroy(p) ==
    /\ th[p].pc = "destroy"
    /\ \A l \in zl_first..zl_last : ~InUse(l)
    /\ destroy_txg' = th[p].tx
    /\ lwb' = [l \in Lwbs |-> IF l \in zl_first..zl_last
                              THEN [lwb[l] EXCEPT !.state = "DESTROYED"] ELSE lwb[l]]
    /\ last_opened' = OpenedAfter(zl_first..zl_last)
    /\ zl_first' = zl_last + 1
    /\ zl_suspending' = FALSE
    /\ th' = [th EXCEPT ![p] = [Returned(@) EXCEPT !.cookie = "destroyed"]]
    /\ UNCHANGED <<open, sync, synced, dirty, zl_suspend, suspends, bound, itxg, commit_list, issuer,
                   zl_last, error_txg, zh_log, zh_disk, detached, zcw, rec_txg, acked, faults>>

\* The same when zil_free_lwb() is handed an lwb in use: one of its VERIFYs fails and
\* the thread goes no further.  When only a local variable of another thread points to
\* the lwb, no VERIFY fails and that thread goes on with freed memory; the model stops
\* here then, too.
ZilDestroyBreaks(p) ==
    /\ th[p].pc = "destroy"
    /\ \E l \in zl_first..zl_last : InUse(l)
    /\ th' = [th EXCEPT ![p].pc = "broken"]
    /\ UNCHANGED <<pool, log, zcw, rec_txg, acked, faults>>

ZilResume(p) ==
    /\ th[p].pc = "idle"
    /\ th[p].cookie # "none"
    /\ zl_suspend' = zl_suspend - 1
    /\ th' = [th EXCEPT ![p].cookie = "none"]
    /\ UNCHANGED <<open, sync, synced, dirty, zl_suspending, destroy_txg, suspends, bound, log,
                   zcw, rec_txg, acked, faults>>

----------------------------------------------------------------------------
ThreadStep(p) ==
    \/ TxAssign(p) \/ LogRecord(p) \/ ZilCommit(p) \/ ZilCommitImpl(p) \/ CommitItxAssign(p)
    \/ WriterBails(p) \/ WriterLocks(p) \/ GetCommitList(p) \/ PruneCommitList(p)
    \/ ProcessTail(p) \/ ProcessNothing(p) \/ CreateFromHeader(p) \/ CreateBlock(p) \/ CreateDone(p)
    \/ SkipSynced(p) \/ AssignCommit(p) \/ AssignRecord(p) \/ AssignRecordNext(p) \/ NoLwbForItx(p)
    \/ ProcessLeavesOpen(p) \/ ProcessCloses(p) \/ ProcessStalls(p)
    \/ IssueFill(p) \/ IssueAlloc(p) \/ IssueLink(p) \/ StallDone(p)
    \/ WaiterDone(p) \/ WaiterSyncs(p) \/ SyncWaitDone(p)
    \/ WaiterTimeout(p) \/ TimeoutCloses(p) \/ TimeoutReturns(p)
    \/ ZilSuspend(p) \/ SuspendWaited(p) \/ SuspendSynced(p) \/ ZilDestroy(p) \/ ZilDestroyBreaks(p)
    \/ ZilResume(p)

LwbStep(l) == ZilLwbWriteDone(l) \/ ZilLwbWriteFails(l) \/ FlushVdevsDone(l)

PoolStep ==
    \/ TxgQuiesce \/ SpaSyncStart \/ ZilSync \/ WriteUberblock \/ SetUbsync \/ ZilClean
    \/ \E q \in Threads : ZilItxgClean(q)

Next ==
    \/ PoolStep
    \/ \E l \in Lwbs : LwbStep(l)
    \/ \E p \in Threads : ThreadStep(p)

Spec == Init /\ [][Next]_vars

----------------------------------------------------------------------------
Issued == {"ISSUED", "WRITE_DONE", "FLUSH_DONE"}

\* The lwbs that zil_parse() reads after a crash: from the header on disk on, up to
\* the first that is not on stable storage or has no next block.
Chain == {l \in Lwbs :
    /\ zh_disk # 0 /\ zh_disk <= l
    /\ \A m \in zh_disk..l : lwb[m].stable
    /\ \A m \in zh_disk..l - 1 : lwb[m].next}

\* The record survives a crash: in a txg on disk, or in the log.
Durable(r) == rec_txg[r] <= OnDiskTxg \/ \E l \in Chain : r \in lwb[l].recs

\* zil_commit() has returned, so the records logged when it was called survive any
\* later crash, failed lwbs and failed allocations included.  This is apart from the
\* records that CommitCoversQueue is about.
CommitIsDurable == \A r \in Recs : acked[r] = "yes" => Durable(r)

\* The comment above zil_commit(): it "will block until all itxs that were in the
\* queue when it was called, are committed to stable storage".
CommitCoversQueue == \A r \in Recs : acked[r] # "no" => Durable(r)

\* The log is empty when the code says so.  At the assertion that ends
\* zil_commit_writer_stall() zil_sync() has freed every lwb, so the next writer starts a
\* new chain.  Once the destroy of a zil_suspend() has synced, the log stays empty until
\* zil_resume(), in core and on disk: a zil_commit() that saw the log before it was
\* suspended writes nothing to it any more.
LogIsEmptied ==
    /\ \A p \in Threads : th[p].pc = "stall" /\ synced >= th[p].wait => ListIsEmpty
    /\ (\E p \in Threads : th[p].cookie = "destroyed") /\ destroy_txg <= synced =>
         ListIsEmpty /\ zh_disk = 0

\* Until zil_destroy(), a block allocated in a txg that is on disk can be found from the
\* header that is on disk, so that a crash leaks no block and the header points to none
\* that was freed: zil_sync() waits for the lwbs that allocated blocks in its txg.
BlocksNotLeaked ==
    /\ \A l \in zl_first..zl_last :
         lwb[l].blk /\ lwb[l].alloc_txg \in 1..OnDiskTxg => l = zh_disk \/ l - 1 \in Chain
    /\ zh_disk # 0 => lwb[zh_disk].state # "GONE"

\* Lwbs reach the disk in the order of the list, whichever threads issue them: an lwb
\* is issued after the one before it, and its waiters hear of it after those of that
\* one (the root zio of an lwb waits for the previous one).
LwbsInOrder ==
    \A l \in zl_first + 1..zl_last :
        /\ lwb[l].state \in Issued => lwb[l - 1].state \in Issued
        /\ lwb[l].state = "FLUSH_DONE" => lwb[l - 1].state = "FLUSH_DONE"

\* zil_sync() frees no lwb that something still points to: zl_last_lwb_opened, the
\* waiters linked to it, and the threads that fill and issue it without a lock.  Nor does
\* zil_destroy(), apart from ZilDestroyBreaks.
NoFreedLwb ==
    LET live == zl_first..zl_last
    IN  /\ last_opened \in live \cup {0}
        /\ \A p \in Threads :
             /\ {zcw[p].lwb, th[p].lwb} \subseteq live \cup {0}
             /\ \A k \in DOMAIN th[p].ilwbs : th[p].ilwbs[k] \in live

\* A zil_destroy() has met an lwb in use.
Broken == \E p \in Threads : th[p].pc = "broken"

\* Every zil_commit() returns: no waiter is left on an lwb that nobody issues, on an
\* itx list that nobody takes, or behind a lock whose holder waits for it.  Behaviours
\* are finite, by the bounds, so it is enough that none ends inside a zil_commit(), or a
\* zil_suspend() other than one that breaks.
CommitsReturn == (\E p \in Threads : th[p].pc # "idle") => Broken \/ ENABLED Next

============================================================================
