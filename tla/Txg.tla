-------------------------------- MODULE Txg --------------------------------
(***************************************************************************)
(* Transaction groups (module/zfs/txg.c): the open / quiescing / syncing   *)
(* pipeline, its two service threads, the holds that transactions take on  *)
(* the open group, the threads that wait for a group to open or to sync,   *)
(* and the shutdown of the pipeline.                                       *)
(*                                                                         *)
(* One action is one critical section under tx_sync_lock, tc_open_lock or  *)
(* tc_lock.  The one section that is not atomic is the sync thread going   *)
(* round its loop on a suspended pool, which keeps tx_sync_lock: see       *)
(* SyncLockFree.  Condition variables are explicit: a thread that waits    *)
(* stays where it is until a broadcast, a timeout or a signal moves it.    *)
(***************************************************************************)
EXTENDS Integers, FiniteSets

CONSTANTS
    NCpus,        \* max_ncpus, the length of tx_cpu[]
    Txers,        \* threads that run transactions
    Waiters,      \* threads that wait for a txg, or stop the pool
    WaitFlags,    \* the flags with which they wait
    FirstTxg,     \* the txg that txg_init() opens
    MaxTxg,       \* bound: no new demand for a sync once it is open
    MaxSuspends   \* bound: how often the pool suspends

ASSUME TxgAssumption ==
    /\ NCpus \in Nat \ {0}
    /\ IsFiniteSet(Txers) /\ IsFiniteSet(Waiters)
    /\ WaitFlags \subseteq {"NONE", "SIGNAL", "SUSPEND"}
    /\ FirstTxg \in Nat \ {0}
    /\ MaxTxg \in Nat
    /\ MaxSuspends \in Nat

\* A mutated form: fewer slots than txgs in flight.
TXG_SIZETwo == 2

TXG_SIZE == 4
TXG_CONCURRENT_STATES == 3
TXG_DEFER_SIZE == 2

Threads == Txers \cup Waiters
Cpus == 1..NCpus
Slots == 0..(TXG_SIZE - 1)

\* txg & TXG_MASK
Slot(txg) == txg % TXG_SIZE

\* Wait flags of txg_wait_synced_flags().
Flags == {"NONE", "SIGNAL", "SUSPEND"}

VARIABLES
    tx_open_txg, tx_quiescing_txg, tx_quiesced_txg,
    tx_syncing_txg, tx_synced_txg,
    tx_sync_txg_waiting, tx_quiesce_txg_waiting,
    tx_exiting, tx_threads,
    tc_count,       \* [Cpus -> [Slots -> Nat]] holds of each txg
    tc_callbacks,   \* [Cpus -> [Slots -> set of txgs]] commit callbacks,
                    \* each named by the txg of the transaction that made it
    sync_pc,        \* where txg_sync_thread() is
    timer_expired,  \* its zfs_txg_timeout has run out since the last sync
    quiesce_pc,     \* where txg_quiesce_thread() is
    open_locks,     \* it holds the tc_open_lock of cpus 1..open_locks
    pc,             \* [Threads -> where a user of the pool is]
    th_cpu, th_txg, \* [Threads -> ...] its txg_handle_t (0: none)
    want, flag,     \* [Threads -> ...] the arguments of its wait
    suspended,      \* spa_suspended()
    kick_pending,   \* zio_suspend() has yet to call txg_wait_kick()
    suspends,       \* suspensions so far
    stop            \* how far txg_sync_stop() is

pipeline == <<tx_open_txg, tx_quiescing_txg, tx_quiesced_txg,
              tx_syncing_txg, tx_synced_txg>>
requests == <<tx_sync_txg_waiting, tx_quiesce_txg_waiting>>
percpu   == <<tc_count, tc_callbacks>>
service  == <<sync_pc, timer_expired, quiesce_pc, open_locks>>
users    == <<pc, th_cpu, th_txg, want, flag>>
spa      == <<suspended, kick_pending, suspends>>
ending   == <<tx_exiting, tx_threads, stop>>

vars == <<pipeline, requests, percpu, service, users, spa, ending>>

Init ==
    /\ tx_open_txg = FirstTxg
    /\ tx_quiescing_txg = 0 /\ tx_quiesced_txg = 0
    /\ tx_syncing_txg = 0   /\ tx_synced_txg = 0
    /\ tx_sync_txg_waiting = 0 /\ tx_quiesce_txg_waiting = 0
    /\ tx_exiting = FALSE /\ tx_threads = 2 /\ stop = "no"
    /\ tc_count = [c \in Cpus |-> [g \in Slots |-> 0]]
    /\ tc_callbacks = [c \in Cpus |-> [g \in Slots |-> {}]]
    /\ sync_pc = "run" /\ timer_expired = FALSE
    /\ quiesce_pc = "run" /\ open_locks = 0
    /\ pc = [t \in Threads |-> "idle"]
    /\ th_cpu = [t \in Threads |-> 0] /\ th_txg = [t \in Threads |-> 0]
    /\ want = [t \in Threads |-> 0] /\ flag = [t \in Threads |-> "NONE"]
    /\ suspended = FALSE /\ kick_pending = FALSE /\ suspends = 0

-----------------------------------------------------------------------------
(* Locks and condition variables.                                          *)

\* tx_sync_lock can be taken: every section that holds it is one step, except
\* the sync thread's at the top of its loop.
SyncLockFree == sync_pc # "locked"

\* Where a thread keeps the tc_open_lock that txg_hold_open() took.
HoldsOpenLock == {"open", "delay", "delayed"}

\* tc_open_lock of cpu c can be taken: the quiesce thread takes them in order,
\* and a thread keeps the one it took from txg_hold_open() to
\* txg_rele_to_quiesce().
OpenLockFree(c) ==
    /\ c > open_locks
    /\ \A t \in Threads : pc[t] \in HoldsOpenLock => th_cpu[t] # c

\* cv_broadcast() of tx_sync_more_cv, tx_quiesce_more_cv, tx_quiesce_done_cv
\* and tx_sync_done_cv: where each waiter goes.
SyncMore == IF sync_pc = "more" THEN "run" ELSE sync_pc
QuiesceMore == IF quiesce_pc = "more" THEN "run" ELSE quiesce_pc
QuiesceDone(t) == IF pc[t] = "open_wait" THEN "open_run" ELSE pc[t]
SyncDone(t) == IF pc[t] = "sync_wait" THEN "sync_run" ELSE pc[t]

Larger(a, b) == IF a < b THEN b ELSE a

\* Bound: whatever asks for another txg may do so.  (txg_sync_stop() always
\* may, so that no behaviour ends at the bound.)
MayDemand == tx_open_txg < MaxTxg

-----------------------------------------------------------------------------
(* Transactions: txg_hold_open() ... txg_rele_to_sync().                   *)

HoldOpen(t, c) ==
    /\ pc[t] = "idle" /\ stop = "no"
    /\ OpenLockFree(c)
    /\ tc_count' = [tc_count EXCEPT ![c][Slot(tx_open_txg)] = @ + 1]
    /\ th_cpu' = [th_cpu EXCEPT ![t] = c]
    /\ th_txg' = [th_txg EXCEPT ![t] = tx_open_txg]
    /\ pc' = [pc EXCEPT ![t] = "open"]
    /\ UNCHANGED <<pipeline, requests, tc_callbacks, service, want, flag,
                   spa, ending>>

\* txg_delay(), called by a transaction that still holds its tc_open_lock:
\* the checks before and after tx_sync_lock is taken, and the first test of
\* the loop.
Delay(t) ==
    /\ pc[t] = "open"
    /\ SyncLockFree
    /\ tx_open_txg <= th_txg[t]
    /\ tx_syncing_txg < th_txg[t] - 1 /\ tx_synced_txg # th_txg[t] - 1
    /\ tx_quiesce_txg_waiting <= tx_open_txg
    /\ pc' = [pc EXCEPT ![t] = "delay"]
    /\ UNCHANGED <<pipeline, requests, percpu, service, th_cpu, th_txg,
                   want, flag, spa, ending>>

\* The delay is over: its time has passed, or tx_quiesce_more_cv was
\* broadcast, which only ends it sooner.
DelayOver(t) ==
    /\ pc[t] = "delay"
    /\ SyncLockFree
    /\ pc' = [pc EXCEPT ![t] = "delayed"]
    /\ UNCHANGED <<pipeline, requests, percpu, service, th_cpu, th_txg,
                   want, flag, spa, ending>>

\* A mutated form: the hold is dropped as soon as the group may quiesce.
ReleToQuiesceDropsHold(t) ==
    /\ pc[t] \in {"open", "delayed"}
    /\ pc' = [pc EXCEPT ![t] = "held"]
    /\ tc_count' = [tc_count EXCEPT ![th_cpu[t]][Slot(th_txg[t])] = 0]
    /\ UNCHANGED <<pipeline, requests, tc_callbacks, service, th_cpu, th_txg,
                   want, flag, spa, ending>>

ReleToQuiesce(t) ==
    /\ pc[t] \in {"open", "delayed"}
    /\ pc' = [pc EXCEPT ![t] = "held"]
    /\ UNCHANGED <<pipeline, requests, percpu, service, th_cpu, th_txg,
                   want, flag, spa, ending>>

RegisterCallbacks(t) ==
    /\ pc[t] = "held"
    /\ tc_callbacks' = [tc_callbacks EXCEPT
           ![th_cpu[t]][Slot(th_txg[t])] = @ \cup {th_txg[t]}]
    /\ UNCHANGED <<pipeline, requests, tc_count, service, users, spa, ending>>

ReleToSync(t) ==
    /\ pc[t] = "held"
    /\ tc_count' = [tc_count EXCEPT ![th_cpu[t]][Slot(th_txg[t])] = @ - 1]
    /\ th_cpu' = [th_cpu EXCEPT ![t] = 0]
    /\ th_txg' = [th_txg EXCEPT ![t] = 0]
    /\ pc' = [pc EXCEPT ![t] = "idle"]
    /\ UNCHANGED <<pipeline, requests, tc_callbacks, service, want, flag,
                   spa, ending>>

-----------------------------------------------------------------------------
(* The quiesce thread.                                                     *)

\* A mutated form: quiesce although the sync thread has not taken the last txg.
MayQuiesceAnyway == tx_open_txg < tx_quiesce_txg_waiting

\* Someone wants a newer open txg and no quiesced txg waits to be synced.
MayQuiesce ==
    /\ tx_open_txg < tx_quiesce_txg_waiting
    /\ tx_quiesced_txg = 0

QuiesceWait ==
    /\ quiesce_pc = "run" /\ SyncLockFree
    /\ ~tx_exiting /\ ~MayQuiesce
    /\ quiesce_pc' = "more"
    /\ UNCHANGED <<pipeline, requests, percpu, sync_pc, timer_expired,
                   open_locks, users, spa, ending>>

QuiesceExit ==
    /\ quiesce_pc = "run" /\ SyncLockFree
    /\ tx_exiting
    /\ quiesce_pc' = "exited"
    /\ tx_threads' = tx_threads - 1
    /\ UNCHANGED <<pipeline, requests, percpu, sync_pc, timer_expired,
                   open_locks, users, spa, tx_exiting, stop>>

QuiesceBegin ==
    /\ quiesce_pc = "run" /\ SyncLockFree
    /\ ~tx_exiting /\ MayQuiesce
    /\ tx_quiescing_txg' = tx_open_txg
    /\ quiesce_pc' = "lock"
    /\ UNCHANGED <<tx_open_txg, tx_quiesced_txg, tx_syncing_txg,
                   tx_synced_txg, requests, percpu, sync_pc, timer_expired,
                   open_locks, users, spa, ending>>

\* txg_quiesce(): grab the tc_open_locks one by one ...
QuiesceLockCpu ==
    /\ quiesce_pc = "lock" /\ open_locks < NCpus
    /\ OpenLockFree(open_locks + 1)
    /\ open_locks' = open_locks + 1
    /\ UNCHANGED <<pipeline, requests, percpu, sync_pc, timer_expired,
                   quiesce_pc, users, spa, ending>>

\* A mutated form: the lock of the last cpu is not taken.
AllOpenLocksButLast == open_locks >= NCpus - 1

\* ... so that, once it has all of them, nobody can enter this txg.
AllOpenLocks == open_locks = NCpus

\* Open the next txg and drop the locks.
QuiesceAdvance ==
    /\ quiesce_pc = "lock" /\ AllOpenLocks
    /\ tx_open_txg' = tx_open_txg + 1
    /\ open_locks' = 0
    /\ quiesce_pc' = "drain"
    /\ UNCHANGED <<tx_quiescing_txg, tx_quiesced_txg, tx_syncing_txg,
                   tx_synced_txg, requests, percpu, sync_pc, timer_expired,
                   users, spa, ending>>

\* A mutated form: only the last cpu is waited for.
DrainedLastCpu(txg) == tc_count[NCpus][Slot(txg)] = 0

\* Every transaction of the txg has called txg_rele_to_sync().  (tc_count of
\* a closed txg only falls, so waiting for the cpus in turn is waiting for
\* all of them.)
Drained(txg) == \A c \in Cpus : tc_count[c][Slot(txg)] = 0

QuiesceDrained ==
    /\ quiesce_pc = "drain"
    /\ Drained(tx_quiescing_txg)
    /\ quiesce_pc' = "handoff"
    /\ UNCHANGED <<pipeline, requests, percpu, sync_pc, timer_expired,
                   open_locks, users, spa, ending>>

\* A mutated form: the waiters on tx_quiesce_done_cv are not woken.
QuiesceHandoffNoDone ==
    /\ quiesce_pc = "handoff" /\ SyncLockFree
    /\ tx_quiesced_txg' = tx_quiescing_txg
    /\ tx_quiescing_txg' = 0
    /\ sync_pc' = SyncMore
    /\ quiesce_pc' = "run"
    /\ UNCHANGED <<tx_open_txg, tx_syncing_txg, tx_synced_txg, requests,
                   percpu, timer_expired, open_locks, users, spa, ending>>

\* Hand the txg to the sync thread.
QuiesceHandoff ==
    /\ quiesce_pc = "handoff" /\ SyncLockFree
    /\ tx_quiesced_txg' = tx_quiescing_txg
    /\ tx_quiescing_txg' = 0
    /\ sync_pc' = IF sync_pc = "wait" THEN "run2" ELSE SyncMore
    /\ pc' = [t \in Threads |-> QuiesceDone(t)]
    /\ quiesce_pc' = "run"
    /\ UNCHANGED <<tx_open_txg, tx_syncing_txg, tx_synced_txg, requests,
                   percpu, timer_expired, open_locks, th_cpu, th_txg, want,
                   flag, spa, ending>>

-----------------------------------------------------------------------------
(* The sync thread.                                                        *)

\* The first wait of the loop: nothing asks for a sync.
SyncIdle(busy) ==
    /\ ~(busy /\ MayDemand) /\ ~tx_exiting /\ ~timer_expired
    /\ tx_synced_txg >= tx_sync_txg_waiting
    /\ tx_quiesced_txg = 0

\* busy: dsl_scan_active() or spa_log_flushall_active() answers yes.
SyncWaitMore(busy) ==
    /\ sync_pc \in {"run", "locked"}
    /\ SyncIdle(busy)
    /\ sync_pc' = "more"
    /\ UNCHANGED <<pipeline, requests, percpu, timer_expired, quiesce_pc,
                   open_locks, users, spa, ending>>

\* A mutated form: the thread waits for a broadcast that zio_resume() does not
\* make.
SyncContinueWaits(busy) ==
    /\ sync_pc \in {"run", "locked"}
    /\ ~SyncIdle(busy)
    /\ suspended
    /\ sync_pc' = "wait"
    /\ UNCHANGED <<pipeline, requests, percpu, timer_expired, quiesce_pc,
                   open_locks, users, spa, ending>>

\* "if (spa_suspended(spa)) continue": back to the top, tx_sync_lock still
\* held.
SyncContinue(busy) ==
    /\ sync_pc \in {"run", "locked"}
    /\ ~SyncIdle(busy)
    /\ suspended
    /\ sync_pc' = "locked"
    /\ UNCHANGED <<pipeline, requests, percpu, timer_expired, quiesce_pc,
                   open_locks, users, spa, ending>>

\* The time-limited wait of tx_sync_more_cv runs out.
SyncTimeout ==
    /\ sync_pc = "more" /\ MayDemand
    /\ timer_expired' = TRUE
    /\ sync_pc' = "run"
    /\ UNCHANGED <<pipeline, requests, percpu, quiesce_pc, open_locks, users,
                   spa, ending>>

\* The thread is past its first wait: after it, or woken in its second.
SyncProceeds(busy) ==
    \/ sync_pc \in {"run", "locked"} /\ ~SyncIdle(busy) /\ ~suspended
    \/ sync_pc = "run2"

\* The second wait: prompt the quiesce thread, unless it is at work.
SyncWaitQuiesce(busy) ==
    /\ SyncProceeds(busy)
    /\ ~tx_exiting /\ tx_quiesced_txg = 0
    /\ IF tx_quiescing_txg # 0
       THEN UNCHANGED <<tx_quiesce_txg_waiting, quiesce_pc>>
       ELSE /\ tx_quiesce_txg_waiting' =
                   Larger(tx_quiesce_txg_waiting, tx_open_txg + 1)
            /\ quiesce_pc' = QuiesceMore
    /\ sync_pc' = "wait"
    /\ UNCHANGED <<pipeline, tx_sync_txg_waiting, percpu, timer_expired,
                   open_locks, users, spa, ending>>

SyncExit(busy) ==
    /\ SyncProceeds(busy)
    /\ tx_exiting
    /\ sync_pc' = "exited"
    /\ tx_threads' = tx_threads - 1
    /\ UNCHANGED <<pipeline, requests, percpu, timer_expired, quiesce_pc,
                   open_locks, users, spa, tx_exiting, stop>>

\* Consume the quiesced txg and call spa_sync().
SyncBegin(busy) ==
    /\ SyncProceeds(busy)
    /\ ~tx_exiting /\ tx_quiesced_txg # 0
    /\ tx_syncing_txg' = tx_quiesced_txg
    /\ tx_quiesced_txg' = 0
    /\ sync_pc' = "syncing"
    /\ quiesce_pc' = QuiesceMore
    /\ UNCHANGED <<tx_open_txg, tx_quiescing_txg, tx_synced_txg, requests,
                   percpu, timer_expired, open_locks, users, spa, ending>>

\* A mutated form: the callbacks of the txg before.
DispatchedPrev(txg) ==
    [c \in Cpus |-> [tc_callbacks[c] EXCEPT ![Slot(txg - 1)] = {}]]

\* txg_dispatch_callbacks(): the callbacks of the txg, of every cpu.
Dispatched(txg) ==
    [c \in Cpus |-> [tc_callbacks[c] EXCEPT ![Slot(txg)] = {}]]

\* A mutated form: the waiters on tx_sync_done_cv are not woken.
SyncEndNoDone(late) ==
    /\ sync_pc = "syncing"
    /\ tx_synced_txg' = tx_syncing_txg
    /\ tx_syncing_txg' = 0
    /\ tc_callbacks' = Dispatched(tx_syncing_txg)
    /\ timer_expired' = (late /\ MayDemand)
    /\ sync_pc' = "locked"
    /\ UNCHANGED <<tx_open_txg, tx_quiescing_txg, tx_quiesced_txg, requests,
                   tc_count, quiesce_pc, open_locks, users, spa, ending>>

\* spa_sync() returns, after any time ("late": longer than zfs_txg_timeout);
\* the thread goes on to the top of its loop with tx_sync_lock held.
SyncEnd(late) ==
    /\ sync_pc = "syncing"
    /\ tx_synced_txg' = tx_syncing_txg
    /\ tx_syncing_txg' = 0
    /\ pc' = [t \in Threads |-> SyncDone(t)]
    /\ tc_callbacks' = Dispatched(tx_syncing_txg)
    /\ timer_expired' = (late /\ MayDemand)
    /\ sync_pc' = "locked"
    /\ UNCHANGED <<tx_open_txg, tx_quiescing_txg, tx_quiesced_txg, requests,
                   tc_count, quiesce_pc, open_locks, th_cpu, th_txg, want,
                   flag, spa, ending>>

-----------------------------------------------------------------------------
(* Waiting for a txg to sync or to open.                                   *)

Return(t) ==
    /\ pc' = [pc EXCEPT ![t] = "idle"]
    /\ want' = [want EXCEPT ![t] = 0]
    /\ flag' = [flag EXCEPT ![t] = "NONE"]

\* A thread calls txg_wait_synced_flags(); txg = 0 asks for the open txg and
\* the deferred ones.
WaitSyncedCall(t, txg, f) ==
    /\ pc[t] = "idle" /\ stop = "no"
    /\ txg <= tx_open_txg /\ MayDemand
    /\ want' = [want EXCEPT ![t] = txg]
    /\ flag' = [flag EXCEPT ![t] = f]
    /\ pc' = [pc EXCEPT ![t] = "sync_call"]
    /\ UNCHANGED <<pipeline, requests, percpu, service, th_cpu, th_txg, spa,
                   ending>>

\* The caller asked not to wait on a suspended pool.
BreakOnSuspend(t) == flag[t] = "SUSPEND" /\ suspended

\* One turn of the wait loop: return 0, return ESHUTDOWN, or prompt the sync
\* thread and wait for tx_sync_done_cv.
WaitSyncedTurn(t, txg) ==
    IF tx_synced_txg >= txg \/ BreakOnSuspend(t)
    THEN /\ Return(t)
         /\ UNCHANGED sync_pc
    ELSE /\ pc' = [pc EXCEPT ![t] = "sync_wait"]
         /\ want' = [want EXCEPT ![t] = txg]
         /\ sync_pc' = SyncMore
         /\ UNCHANGED flag

WaitSyncedEnter(t) ==
    LET txg == IF want[t] = 0 THEN tx_open_txg + TXG_DEFER_SIZE ELSE want[t]
    IN  /\ pc[t] = "sync_call" /\ SyncLockFree
        /\ tx_sync_txg_waiting' = Larger(tx_sync_txg_waiting, txg)
        /\ WaitSyncedTurn(t, txg)
        /\ UNCHANGED <<pipeline, tx_quiesce_txg_waiting, percpu,
                       timer_expired, quiesce_pc, open_locks, th_cpu, th_txg,
                       spa, ending>>

WaitSyncedLoop(t) ==
    /\ pc[t] = "sync_run" /\ SyncLockFree
    /\ WaitSyncedTurn(t, want[t])
    /\ UNCHANGED <<pipeline, requests, percpu, timer_expired, quiesce_pc,
                   open_locks, th_cpu, th_txg, spa, ending>>

\* A signal ends a TXG_WAIT_SIGNAL wait with EINTR.
WaitSyncedSignal(t) ==
    /\ pc[t] = "sync_wait" /\ flag[t] = "SIGNAL" /\ SyncLockFree
    /\ Return(t)
    /\ UNCHANGED <<pipeline, requests, percpu, service, th_cpu, th_txg, spa,
                   ending>>

\* txg_wait_open() of the next txg (its argument is 0 in the one caller).
WaitOpenEnter(t, should_quiesce) ==
    /\ pc[t] = "idle" /\ stop = "no" /\ SyncLockFree
    /\ MayDemand
    /\ tx_quiesce_txg_waiting' =
           IF should_quiesce
           THEN Larger(tx_quiesce_txg_waiting, tx_open_txg + 1)
           ELSE tx_quiesce_txg_waiting
    /\ want' = [want EXCEPT ![t] = tx_open_txg + 1]
    /\ pc' = [pc EXCEPT ![t] = "open_wait"]
    /\ quiesce_pc' = QuiesceMore
    /\ UNCHANGED <<pipeline, tx_sync_txg_waiting, percpu, sync_pc,
                   timer_expired, open_locks, th_cpu, th_txg, flag, spa,
                   ending>>

WaitOpenLoop(t) ==
    /\ pc[t] = "open_run" /\ SyncLockFree
    /\ IF tx_open_txg >= want[t]
       THEN /\ Return(t)
            /\ UNCHANGED quiesce_pc
       ELSE /\ pc' = [pc EXCEPT ![t] = "open_wait"]
            /\ quiesce_pc' = QuiesceMore
            /\ UNCHANGED <<want, flag>>
    /\ UNCHANGED <<pipeline, requests, percpu, sync_pc, timer_expired,
                   open_locks, th_cpu, th_txg, spa, ending>>

\* txg_kick(): the first, unlocked test only saves taking the lock.
Kick(t, txg) ==
    /\ pc[t] = "idle" /\ stop = "no" /\ SyncLockFree
    /\ txg <= tx_open_txg /\ MayDemand
    /\ tx_sync_txg_waiting < txg
    /\ tx_sync_txg_waiting' = txg
    /\ sync_pc' = SyncMore
    /\ UNCHANGED <<pipeline, tx_quiesce_txg_waiting, percpu, timer_expired,
                   quiesce_pc, open_locks, users, spa, ending>>

-----------------------------------------------------------------------------
(* Suspension of the pool: zio_suspend(), which ends in txg_wait_kick(),   *)
(* and zio_resume().                                                       *)

Suspend ==
    /\ suspends < MaxSuspends
    /\ ~suspended /\ ~kick_pending
    /\ suspended' = TRUE /\ kick_pending' = TRUE
    /\ suspends' = suspends + 1
    /\ UNCHANGED <<pipeline, requests, percpu, service, users, ending>>

WaitKick ==
    /\ kick_pending /\ SyncLockFree
    /\ kick_pending' = FALSE
    /\ pc' = [t \in Threads |-> SyncDone(t)]
    /\ UNCHANGED <<pipeline, requests, percpu, service, th_cpu, th_txg, want,
                   flag, suspended, suspends, ending>>

Resume ==
    /\ suspended
    /\ suspended' = FALSE
    /\ UNCHANGED <<pipeline, requests, percpu, service, users, kick_pending,
                   suspends, ending>>

-----------------------------------------------------------------------------
(* txg_sync_stop(), called when no other thread uses the pool any more.    *)

\* A mutated form: the stopping thread does not wait for the open txg.
StopCallNoFlush(t) ==
    /\ stop = "no"
    /\ \A u \in Threads : pc[u] = "idle"
    /\ stop' = "flush"
    /\ UNCHANGED <<pipeline, requests, percpu, service, users, spa,
                   tx_exiting, tx_threads>>

StopCall(t) ==
    /\ stop = "no"
    /\ \A u \in Threads : pc[u] = "idle"
    /\ want' = [want EXCEPT ![t] = tx_open_txg + TXG_DEFER_SIZE]
    /\ flag' = [flag EXCEPT ![t] = "NONE"]
    /\ pc' = [pc EXCEPT ![t] = "sync_call"]
    /\ stop' = "flush"
    /\ UNCHANGED <<pipeline, requests, percpu, service, th_cpu, th_txg, spa,
                   tx_exiting, tx_threads>>

\* A mutated form: the quiesce thread is not woken to exit.
StopExitingNoMore ==
    /\ stop = "flush" /\ SyncLockFree
    /\ \A u \in Threads : pc[u] = "idle"
    /\ tx_exiting' = TRUE
    /\ sync_pc' = IF sync_pc = "wait" THEN "run2" ELSE SyncMore
    /\ stop' = "exit"
    /\ UNCHANGED <<pipeline, requests, percpu, timer_expired, quiesce_pc,
                   open_locks, users, spa, tx_threads>>

\* The wait for the deferred txgs is over: tell both threads to exit.
StopExiting ==
    /\ stop = "flush" /\ SyncLockFree
    /\ \A u \in Threads : pc[u] = "idle"
    /\ tx_exiting' = TRUE
    /\ quiesce_pc' = QuiesceMore
    /\ sync_pc' = IF sync_pc = "wait" THEN "run2" ELSE SyncMore
    /\ stop' = "exit"
    /\ UNCHANGED <<pipeline, requests, percpu, timer_expired, open_locks,
                   users, spa, tx_threads>>

StopDone ==
    /\ stop = "exit" /\ SyncLockFree
    /\ tx_threads = 0
    /\ tx_exiting' = FALSE
    /\ stop' = "done"
    /\ UNCHANGED <<pipeline, requests, percpu, service, users, spa,
                   tx_threads>>

\* Nothing is left to run.
Stopped == stop = "done" /\ UNCHANGED vars

-----------------------------------------------------------------------------

SyncThread ==
    \/ \E busy \in BOOLEAN :
           \/ SyncWaitMore(busy) \/ SyncContinue(busy)
           \/ SyncWaitQuiesce(busy) \/ SyncExit(busy) \/ SyncBegin(busy)
    \/ \E late \in BOOLEAN : SyncEnd(late)

QuiesceThread ==
    \/ QuiesceWait \/ QuiesceExit \/ QuiesceBegin \/ QuiesceLockCpu
    \/ QuiesceAdvance \/ QuiesceDrained \/ QuiesceHandoff

Transaction(t) ==
    \/ \E c \in Cpus : HoldOpen(t, c)
    \/ Delay(t) \/ DelayOver(t)
    \/ ReleToQuiesce(t) \/ RegisterCallbacks(t) \/ ReleToSync(t)

Waiter(t) ==
    \/ \E txg \in {0, tx_open_txg - 1, tx_open_txg} :
           \/ \E f \in WaitFlags : WaitSyncedCall(t, txg, f)
           \/ Kick(t, txg)
    \/ WaitSyncedEnter(t) \/ WaitSyncedLoop(t) \/ WaitSyncedSignal(t)
    \/ \E should_quiesce \in BOOLEAN : WaitOpenEnter(t, should_quiesce)
    \/ WaitOpenLoop(t)

Next ==
    \/ SyncThread \/ SyncTimeout
    \/ QuiesceThread
    \/ \E t \in Txers : Transaction(t)
    \/ \E t \in Waiters : Waiter(t) \/ StopCall(t)
    \/ StopExiting \/ StopDone \/ Stopped
    \/ Suspend \/ WaitKick \/ Resume

Spec == Init /\ [][Next]_vars

\* Threads that can run do run, and a transaction that was assigned ends.
\* The timed wait of the sync thread runs out.  A thread that waits for a
\* mutex other threads keep taking gets it in the end: this matters where the
\* quiesce thread competes for tc_open_lock.
Fairness ==
    /\ WF_vars(SyncThread) /\ WF_vars(SyncTimeout)
    /\ WF_vars(QuiesceThread) /\ SF_vars(QuiesceLockCpu)
    /\ WF_vars(WaitKick) /\ WF_vars(StopExiting) /\ WF_vars(StopDone)
    /\ \A t \in Threads :
        /\ WF_vars(DelayOver(t)) /\ WF_vars(ReleToQuiesce(t))
        /\ WF_vars(ReleToSync(t))
        /\ WF_vars(WaitSyncedEnter(t)) /\ WF_vars(WaitSyncedLoop(t))
        /\ WF_vars(WaitOpenLoop(t))

\* The pool may stay suspended for ever.
FairSpec == Spec /\ Fairness

\* Whoever suspends the pool ends by resuming it.
ResumeSpec == FairSpec /\ WF_vars(Resume)

-----------------------------------------------------------------------------
(* Properties.                                                             *)

UserStates == {"idle", "held", "sync_call", "sync_run", "sync_wait",
               "open_run", "open_wait"} \cup HoldsOpenLock

TxgsTypeOK ==
    /\ tx_open_txg \in Nat /\ tx_quiescing_txg \in Nat
    /\ tx_quiesced_txg \in Nat /\ tx_syncing_txg \in Nat
    /\ tx_synced_txg \in Nat
    /\ tx_sync_txg_waiting \in Nat /\ tx_quiesce_txg_waiting \in Nat

PercpuTypeOK ==
    /\ tc_count \in [Cpus -> [Slots -> Nat]]
    /\ tc_callbacks \in [Cpus -> [Slots -> SUBSET Nat]]

ServiceTypeOK ==
    /\ sync_pc \in {"run", "locked", "more", "wait", "run2", "syncing",
                    "exited"}
    /\ timer_expired \in BOOLEAN
    /\ quiesce_pc \in {"run", "more", "lock", "drain", "handoff", "exited"}
    /\ open_locks \in 0..NCpus
    /\ tx_exiting \in BOOLEAN /\ tx_threads \in 0..2
    /\ suspended \in BOOLEAN /\ kick_pending \in BOOLEAN
    /\ suspends \in Nat
    /\ stop \in {"no", "flush", "exit", "done"}

UsersTypeOK ==
    /\ pc \in [Threads -> UserStates]
    /\ th_cpu \in [Threads -> 0..NCpus] /\ th_txg \in [Threads -> Nat]
    /\ want \in [Threads -> Nat] /\ flag \in [Threads -> Flags]

\* Every variable of the pipeline has the type of its field in tx_state_t or
\* tx_cpu_t (tc_count[] and tx_threads never fall below zero), and every
\* thread is somewhere in the code.
TypeOK == TxgsTypeOK /\ PercpuTypeOK /\ ServiceTypeOK /\ UsersTypeOK

\* The oldest txg that is not yet on disk (tx_synced_txg is 0 until the first
\* sync after txg_init()).
Oldest == IF tx_synced_txg = 0 THEN FirstTxg ELSE tx_synced_txg + 1

\* The txgs in flight are consecutive, each is in exactly one state, and there
\* are never more of them than TXG_CONCURRENT_STATES, so that TXG_SIZE slots
\* are enough (what txg_verify() asserts, and the comment at the head of
\* txg.c: "There may be up to three active txgs").
PipelineOrder ==
    LET quiescing == IF tx_quiescing_txg \in {0, tx_open_txg}
                     THEN {} ELSE {tx_quiescing_txg}
        quiesced  == {tx_quiesced_txg} \ {0}
        syncing   == {tx_syncing_txg} \ {0}
        closed    == syncing \cup quiesced \cup quiescing
    IN  /\ closed = Oldest..(tx_open_txg - 1)
        /\ Cardinality(quiescing \cup quiesced) <= 1
        /\ \A s \in syncing, q \in quiesced \cup quiescing : s < q
        /\ tx_open_txg - Oldest < TXG_CONCURRENT_STATES

\* A transaction never changes a group that has been handed to the sync
\* thread: while its handle is held, its txg is the open one or the one whose
\* transactions are being waited for in txg_quiesce().
HoldersNotSyncing ==
    \A t \in Threads : th_txg[t] # 0 =>
        \/ th_txg[t] = tx_open_txg
        \/ th_txg[t] = tx_quiescing_txg /\ quiesce_pc = "drain"

\* "The txg is guaranteed to stay open until txg_rele_to_quiesce() is called
\* for the handle" (comment on txg_hold_open()).
StaysOpen ==
    \A t \in Threads : pc[t] \in HoldsOpenLock => th_txg[t] = tx_open_txg

\* No commit callback is left behind: those not yet dispatched belong to a txg
\* that is not yet synced, and lie in that txg's slot, where
\* txg_dispatch_callbacks() will look for them.
CallbacksNotLost ==
    \A c \in Cpus, g \in Slots : \A txg \in tc_callbacks[c][g] :
        Slot(txg) = g /\ txg >= Oldest

\* A commit callback is dispatched only when the txg of its transaction has
\* been synced.
CallbacksNotEarly ==
    [][\A c \in Cpus, g \in Slots :
        \A txg \in tc_callbacks[c][g] \ tc_callbacks'[c][g] :
            txg <= tx_synced_txg']_vars

\* txg_sync_stop() tells the threads to exit only when all that transactions
\* did is on disk: no hold and no commit callback is left.
StopFlushes ==
    stop \in {"exit", "done"} =>
        /\ \A t \in Threads : th_txg[t] = 0
        /\ \A c \in Cpus, g \in Slots : tc_callbacks[c][g] = {}

\* No wakeup is lost: a thread in txg_wait_synced_flags() returns.
WaitSyncedReturns ==
    \A t \in Threads :
        pc[t] \in {"sync_call", "sync_run", "sync_wait"} ~> pc[t] = "idle"

\* A thread in txg_wait_open() returns, whether or not it asked for the open
\* txg to be quiesced.
WaitOpenReturns ==
    \A t \in Threads :
        pc[t] \in {"open_run", "open_wait"} ~> pc[t] = "idle"

\* txg_sync_stop() returns: both threads notice tx_exiting and exit.
StopReturns == stop = "flush" ~> stop = "done"

\* "Pool suspended and the caller does not want to block; inform them
\* immediately" (txg.c), "If the pool suspends while waiting, abort and return
\* ESHUTDOWN" (txg.h): a TXG_WAIT_SUSPEND wait ends although the pool stays
\* suspended.
SuspendInforms ==
    \A t \in Threads :
        (pc[t] \in {"sync_call", "sync_run", "sync_wait"}
            /\ flag[t] = "SUSPEND" /\ suspended)
        ~> (pc[t] = "idle" \/ ~suspended)
=============================================================================
