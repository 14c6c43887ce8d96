----------------------------- MODULE TxgProofs -----------------------------
(***************************************************************************)
(* The safety properties of Txg, proved for every number of cpus, every    *)
(* finite set of threads and every first txg.  The bounds MaxTxg and       *)
(* MaxSuspends play no part in the proofs.                                 *)
(***************************************************************************)
EXTENDS Txg, FiniteSetTheorems, TLAPS

-----------------------------------------------------------------------------
(* The inductive invariant.                                                *)

\* The threads that hold the txg of slot g on cpu c.
Holders(c, g) ==
    {t \in Threads : th_cpu[t] = c /\ th_txg[t] # 0 /\ Slot(th_txg[t]) = g}

\* tc_count[] counts the handles.
CountsHolds ==
    \A c \in Cpus, g \in Slots : tc_count[c][g] = Cardinality(Holders(c, g))

\* A handle belongs to a cpu and is held by a thread that is inside a
\* transaction; a thread that has tc_open_lock is not on a cpu whose lock
\* the quiesce thread has taken.
Handles ==
    /\ \A t \in Threads : th_txg[t] # 0 =>
           th_cpu[t] \in Cpus /\ pc[t] \in HoldsOpenLock \cup {"held"}
    /\ \A t \in Threads :
           pc[t] \in HoldsOpenLock \cup {"held"} => th_txg[t] # 0
    /\ \A t \in Threads : pc[t] \in HoldsOpenLock => th_cpu[t] > open_locks
    /\ open_locks > 0 => quiesce_pc = "lock"

\* Whether a closed txg is before the sync thread.
Closing == tx_quiesced_txg # 0 \/ quiesce_pc \in {"drain", "handoff"}

\* Where the service threads are determines the state of each txg in flight.
Flight ==
    /\ sync_pc = "syncing" <=> tx_syncing_txg # 0
    /\ tx_syncing_txg # 0 => tx_syncing_txg = Oldest
    /\ quiesce_pc \in {"run", "more", "exited"} => tx_quiescing_txg = 0
    /\ quiesce_pc = "lock" =>
           tx_quiescing_txg = tx_open_txg /\ tx_quiesced_txg = 0
    /\ quiesce_pc \in {"drain", "handoff"} =>
           tx_quiescing_txg = tx_open_txg - 1 /\ tx_quiesced_txg = 0
    /\ tx_quiesced_txg # 0 => tx_quiesced_txg = tx_open_txg - 1
    /\ tx_open_txg = Oldest + (IF tx_syncing_txg # 0 THEN 1 ELSE 0)
                            + (IF Closing THEN 1 ELSE 0)

\* Commit callbacks that have not been dispatched lie in the slot of a txg in
\* flight.
Callbacks ==
    \A c \in Cpus, g \in Slots : \A txg \in tc_callbacks[c][g] :
        Slot(txg) = g /\ Oldest <= txg /\ txg <= tx_open_txg

\* tx_threads counts the service threads that have not exited.
ThreadCount ==
    tx_threads = (IF sync_pc = "exited" THEN 0 ELSE 1)
                 + (IF quiesce_pc = "exited" THEN 0 ELSE 1)

Waiting == {"sync_call", "sync_run", "sync_wait"}

\* Once txg_sync_stop() has been called no transaction is left, and each
\* callback left has a thread that waits for its txg whatever happens.
Stopping ==
    /\ stop # "no" => \A t \in Threads : pc[t] \in {"idle"} \cup Waiting
    /\ stop = "flush" =>
           \A c \in Cpus, g \in Slots : \A txg \in tc_callbacks[c][g] :
               \E t \in Threads :
                   pc[t] \in Waiting /\ flag[t] = "NONE" /\ want[t] >= txg
    /\ stop \in {"exit", "done"} =>
           \A c \in Cpus, g \in Slots : tc_callbacks[c][g] = {}

IInv ==
    /\ TypeOK /\ CountsHolds /\ Handles /\ StaysOpen /\ HoldersNotSyncing
    /\ Flight /\ Callbacks /\ ThreadCount /\ Stopping

-----------------------------------------------------------------------------
(* Facts about the data.                                                   *)

\* There are finitely many threads, so the holders of a txg can be counted.
LEMMA ThreadsFinite == IsFiniteSet(Threads)
  BY TxgAssumption, FS_Union, Zenon DEF Threads

\* ... on each cpu.
LEMMA HoldersFinite == \A c, g : IsFiniteSet(Holders(c, g))
  BY ThreadsFinite, FS_Subset, Zenon DEF Holders

\* A holder that leaves makes the holders one fewer.
LEMMA HolderLeaves ==
    ASSUME NEW S, NEW t \in S, IsFiniteSet(S)
    PROVE  Cardinality(S \ {t}) = Cardinality(S) - 1
  BY FS_RemoveElement, Zenon

\* A txg has a slot.
LEMMA SlotType == \A txg \in Nat : Slot(txg) \in Slots
  BY DEF Slot, Slots, TXG_SIZE

\* Two txgs in flight do not share a slot.
LEMMA SlotInjective ==
    ASSUME NEW a \in Nat, NEW b \in Nat, Slot(a) = Slot(b),
           a <= b, b - a < TXG_CONCURRENT_STATES
    PROVE  a = b
  BY DEF Slot, TXG_SIZE, TXG_CONCURRENT_STATES

\* A txg between the oldest in flight and the open one is one of the
\* TXG_CONCURRENT_STATES txgs in flight.
LEMMA WithinFlight ==
    ASSUME NEW oldest \in Nat, NEW open \in Nat, NEW txg \in Nat,
           oldest <= txg, txg <= open, open - oldest < TXG_CONCURRENT_STATES
    PROVE  txg - oldest < TXG_CONCURRENT_STATES
  BY DEF TXG_CONCURRENT_STATES

\* Txg 0 is never open, and at most TXG_CONCURRENT_STATES txgs are in flight.
LEMMA OpenPositive ==
    TypeOK /\ Flight =>
        /\ tx_open_txg > 0 /\ Oldest \in Nat \ {0}
        /\ Oldest <= tx_open_txg
        /\ tx_open_txg - Oldest < TXG_CONCURRENT_STATES
  BY TxgAssumption
     DEF TypeOK, TxgsTypeOK, Flight, Oldest, TXG_CONCURRENT_STATES

-----------------------------------------------------------------------------
(* The invariant holds initially, and every step preserves it.             *)

\* txg_init() establishes the invariant.
LEMMA InvInit == Init => IInv
<1> SUFFICES ASSUME Init
             PROVE  IInv
  BY Zenon
<1> USE TxgAssumption DEF Init
<1>1. TypeOK
  <2>1. TxgsTypeOK
    BY Zenon DEF TxgsTypeOK
  <2>2. PercpuTypeOK
    BY Zenon DEF PercpuTypeOK
  <2>3. ServiceTypeOK
    <3>1. open_locks \in 0..NCpus /\ tx_threads \in 0..2 /\ suspends \in Nat
      OBVIOUS
    <3> QED
      BY <3>1, Zenon DEF ServiceTypeOK
  <2>4. UsersTypeOK
    BY DEF UsersTypeOK, UserStates, Flags
  <2> QED
    BY <2>1, <2>2, <2>3, <2>4, Zenon DEF TypeOK
<1>2. \A c \in Cpus, g \in Slots : Holders(c, g) = {}
  BY Zenon DEF Holders
<1>3. CountsHolds
  BY <1>2, FS_EmptySet, Zenon DEF CountsHolds
<1>4. Handles /\ StaysOpen /\ HoldersNotSyncing
  BY DEF Handles, StaysOpen, HoldersNotSyncing, HoldsOpenLock
<1>5. Flight
  BY DEF Flight, Oldest, Closing
<1>6. Callbacks /\ ThreadCount /\ Stopping
  BY DEF Callbacks, ThreadCount, Stopping
<1> QED
  BY <1>1, <1>3, <1>4, <1>5, <1>6, Zenon DEF IInv

\* The txg numbers stay natural numbers.
LEMMA TxgsTypeStep ==
    TxgsTypeOK /\ UsersTypeOK /\ [Next]_vars => TxgsTypeOK'
<1> SUFFICES ASSUME TxgsTypeOK, UsersTypeOK, [Next]_vars
             PROVE  TxgsTypeOK'
  BY Zenon
<1> USE TxgAssumption DEF TxgsTypeOK, UsersTypeOK, Larger, TXG_DEFER_SIZE,
        Threads, pipeline, requests
<1>1. CASE \E busy \in BOOLEAN : SyncWaitQuiesce(busy)
  BY <1>1 DEF SyncWaitQuiesce
<1>2. CASE \E busy \in BOOLEAN : SyncBegin(busy)
  BY <1>2 DEF SyncBegin
<1>3. CASE \E late \in BOOLEAN : SyncEnd(late)
  BY <1>3 DEF SyncEnd
<1>4. CASE QuiesceBegin
  BY <1>4, Zenon DEF QuiesceBegin
<1>5. CASE QuiesceAdvance
  BY <1>5 DEF QuiesceAdvance
<1>6. CASE QuiesceHandoff
  BY <1>6, Zenon DEF QuiesceHandoff
<1>7. CASE \E t \in Waiters, txg \in {0, tx_open_txg - 1, tx_open_txg} :
             Kick(t, txg)
  BY <1>7 DEF Kick
<1>8. CASE \E t \in Waiters : WaitSyncedEnter(t)
  BY <1>8 DEF WaitSyncedEnter
<1>9. CASE \E t \in Waiters, should_quiesce \in BOOLEAN :
             WaitOpenEnter(t, should_quiesce)
  BY <1>9 DEF WaitOpenEnter
<1>10. CASE UNCHANGED <<pipeline, requests>>
  BY <1>10, Zenon
<1> QED
  BY <1>1, <1>2, <1>3, <1>4, <1>5, <1>6, <1>7, <1>8, <1>9, <1>10, Zenon
     DEF Next, SyncThread, QuiesceThread, Transaction, Waiter, SyncWaitMore,
         SyncContinue, SyncExit, SyncTimeout, QuiesceWait, QuiesceExit,
         QuiesceLockCpu, QuiesceDrained, HoldOpen, Delay, DelayOver,
         ReleToQuiesce, RegisterCallbacks, ReleToSync, WaitSyncedCall,
         WaitSyncedLoop, WaitSyncedSignal, WaitOpenLoop, StopCall,
         StopExiting, StopDone, Stopped, Suspend, WaitKick, Resume, vars,
         pipeline, requests, percpu, service, users, spa, ending

\* The service threads stay in their code.
LEMMA ServiceTypeStep ==
    ServiceTypeOK /\ ThreadCount /\ [Next]_vars => ServiceTypeOK'
<1> SUFFICES ASSUME ServiceTypeOK, ThreadCount, [Next]_vars
             PROVE  ServiceTypeOK'
  BY Zenon
<1> USE TxgAssumption DEF ServiceTypeOK, ThreadCount, SyncMore, QuiesceMore,
        SyncProceeds, WaitSyncedTurn, service, spa, ending
<1>1. CASE \E busy \in BOOLEAN : SyncWaitMore(busy)
  BY <1>1, Zenon DEF SyncWaitMore
<1>2. CASE \E busy \in BOOLEAN : SyncContinue(busy)
  BY <1>2, Zenon DEF SyncContinue
<1>3. CASE \E busy \in BOOLEAN : SyncWaitQuiesce(busy)
  BY <1>3, Zenon DEF SyncWaitQuiesce
<1>4. CASE \E busy \in BOOLEAN : SyncExit(busy)
  BY <1>4 DEF SyncExit
<1>5. CASE \E busy \in BOOLEAN : SyncBegin(busy)
  BY <1>5, Zenon DEF SyncBegin
<1>6. CASE \E late \in BOOLEAN : SyncEnd(late)
  BY <1>6, Zenon DEF SyncEnd
<1>7. CASE SyncTimeout
  BY <1>7, Zenon DEF SyncTimeout
<1>8. CASE QuiesceWait
  BY <1>8, Zenon DEF QuiesceWait
<1>9. CASE QuiesceExit
  BY <1>9 DEF QuiesceExit
<1>10. CASE QuiesceBegin
  BY <1>10, Zenon DEF QuiesceBegin
<1>11. CASE QuiesceLockCpu
  BY <1>11 DEF QuiesceLockCpu
<1>12. CASE QuiesceAdvance
  BY <1>12 DEF QuiesceAdvance
<1>13. CASE QuiesceDrained
  BY <1>13, Zenon DEF QuiesceDrained
<1>14. CASE QuiesceHandoff
  BY <1>14, Zenon DEF QuiesceHandoff
<1>15. CASE \E t \in Waiters, txg \in {0, tx_open_txg - 1, tx_open_txg} :
             Kick(t, txg)
  BY <1>15, Zenon DEF Kick
<1>16. CASE \E t \in Waiters : WaitSyncedEnter(t)
  BY <1>16 DEF WaitSyncedEnter
<1>17. CASE \E t \in Waiters : WaitSyncedLoop(t)
  BY <1>17 DEF WaitSyncedLoop
<1>18. CASE \E t \in Waiters, should_quiesce \in BOOLEAN :
             WaitOpenEnter(t, should_quiesce)
  BY <1>18 DEF WaitOpenEnter
<1>19. CASE \E t \in Waiters : WaitOpenLoop(t)
  BY <1>19 DEF WaitOpenLoop
<1>20. CASE \E t \in Waiters : StopCall(t)
  BY <1>20 DEF StopCall
<1>21. CASE StopExiting
  BY <1>21, Zenon DEF StopExiting
<1>22. CASE StopDone
  BY <1>22, Zenon DEF StopDone
<1>23. CASE Suspend
  BY <1>23 DEF Suspend
<1>24. CASE WaitKick
  BY <1>24, Zenon DEF WaitKick
<1>25. CASE Resume
  BY <1>25, Zenon DEF Resume
<1>26. CASE UNCHANGED <<service, spa, ending>>
  BY <1>26
<1> QED
  BY <1>1, <1>2, <1>3, <1>4, <1>5, <1>6, <1>7, <1>8, <1>9, <1>10, <1>11,
     <1>12, <1>13, <1>14, <1>15, <1>16, <1>17, <1>18, <1>19, <1>20, <1>21,
     <1>22, <1>23, <1>24, <1>25, <1>26, Zenon
     DEF Next, SyncThread, QuiesceThread, Transaction, Waiter, HoldOpen,
         Delay, DelayOver, ReleToQuiesce, RegisterCallbacks, ReleToSync,
         WaitSyncedCall, WaitSyncedSignal, Stopped, vars, pipeline, requests,
         percpu, service, users, spa, ending

\* The users of the pool stay in theirs.
LEMMA UsersTypeStep ==
    TypeOK /\ Flight /\ [Next]_vars => UsersTypeOK'
<1> SUFFICES ASSUME TypeOK, Flight, [Next]_vars
             PROVE  UsersTypeOK'
  BY Zenon
<1> USE TxgAssumption DEF TypeOK, TxgsTypeOK, UsersTypeOK, UserStates,
        HoldsOpenLock, Flags, Cpus, Return, SyncDone, QuiesceDone,
        WaitSyncedTurn, TXG_DEFER_SIZE, Threads, users
<1>1. CASE \E late \in BOOLEAN : SyncEnd(late)
  BY <1>1, Zenon DEF SyncEnd
<1>2. CASE QuiesceHandoff
  BY <1>2, Zenon DEF QuiesceHandoff
<1>3. CASE \E t \in Txers, c \in Cpus : HoldOpen(t, c)
  BY <1>3 DEF HoldOpen
<1>4. CASE \E t \in Txers : Delay(t)
  BY <1>4, Zenon DEF Delay
<1>5. CASE \E t \in Txers : DelayOver(t)
  BY <1>5, Zenon DEF DelayOver
<1>6. CASE \E t \in Txers : ReleToQuiesce(t)
  BY <1>6, Zenon DEF ReleToQuiesce
<1>7. CASE \E t \in Txers : ReleToSync(t)
  BY <1>7 DEF ReleToSync
<1>8. CASE \E t \in Waiters, txg \in {0, tx_open_txg - 1, tx_open_txg},
                 f \in WaitFlags :
             WaitSyncedCall(t, txg, f)
  BY <1>8, OpenPositive DEF WaitSyncedCall
<1>9. CASE \E t \in Waiters : WaitSyncedEnter(t)
  BY <1>9 DEF WaitSyncedEnter
<1>10. CASE \E t \in Waiters : WaitSyncedLoop(t)
  BY <1>10 DEF WaitSyncedLoop
<1>11. CASE \E t \in Waiters : WaitSyncedSignal(t)
  BY <1>11 DEF WaitSyncedSignal
<1>12. CASE \E t \in Waiters, should_quiesce \in BOOLEAN :
             WaitOpenEnter(t, should_quiesce)
  BY <1>12 DEF WaitOpenEnter
<1>13. CASE \E t \in Waiters : WaitOpenLoop(t)
  BY <1>13 DEF WaitOpenLoop
<1>14. CASE \E t \in Waiters : StopCall(t)
  BY <1>14 DEF StopCall
<1>15. CASE WaitKick
  BY <1>15, Zenon DEF WaitKick
<1>16. CASE UNCHANGED <<users>>
  BY <1>16, Zenon
<1> QED
  BY <1>1, <1>2, <1>3, <1>4, <1>5, <1>6, <1>7, <1>8, <1>9, <1>10, <1>11,
     <1>12, <1>13, <1>14, <1>15, <1>16, Zenon
     DEF Next, SyncThread, QuiesceThread, Transaction, Waiter, SyncWaitMore,
         SyncContinue, SyncWaitQuiesce, SyncExit, SyncBegin, SyncTimeout,
         QuiesceWait, QuiesceExit, QuiesceBegin, QuiesceLockCpu,
         QuiesceAdvance, QuiesceDrained, RegisterCallbacks, Kick,
         StopExiting, StopDone, Stopped, Suspend, Resume, vars, pipeline,
         requests, percpu, service, users, spa, ending

\* tx_threads goes on counting the service threads.
LEMMA ThreadCountStep ==
    ServiceTypeOK /\ ThreadCount /\ [Next]_vars => ThreadCount'
<1> SUFFICES ASSUME ServiceTypeOK, ThreadCount, [Next]_vars
             PROVE  ThreadCount'
  BY Zenon
<1> USE TxgAssumption DEF ServiceTypeOK, ThreadCount, SyncMore, QuiesceMore,
        SyncProceeds, WaitSyncedTurn, spa, ending
<1>1. CASE \E busy \in BOOLEAN : SyncWaitMore(busy)
  BY <1>1, Zenon DEF SyncWaitMore
<1>2. CASE \E busy \in BOOLEAN : SyncContinue(busy)
  BY <1>2, Zenon DEF SyncContinue
<1>3. CASE \E busy \in BOOLEAN : SyncWaitQuiesce(busy)
  BY <1>3, Zenon DEF SyncWaitQuiesce
<1>4. CASE \E busy \in BOOLEAN : SyncExit(busy)
  BY <1>4 DEF SyncExit
<1>5. CASE \E busy \in BOOLEAN : SyncBegin(busy)
  BY <1>5, Zenon DEF SyncBegin
<1>6. CASE \E late \in BOOLEAN : SyncEnd(late)
  BY <1>6, Zenon DEF SyncEnd
<1>7. CASE SyncTimeout
  BY <1>7, Zenon DEF SyncTimeout
<1>8. CASE QuiesceWait
  BY <1>8, Zenon DEF QuiesceWait
<1>9. CASE QuiesceExit
  BY <1>9 DEF QuiesceExit
<1>10. CASE QuiesceBegin
  BY <1>10, Zenon DEF QuiesceBegin
<1>11. CASE QuiesceLockCpu
  BY <1>11, Zenon DEF QuiesceLockCpu
<1>12. CASE QuiesceAdvance
  BY <1>12, Zenon DEF QuiesceAdvance
<1>13. CASE QuiesceDrained
  BY <1>13, Zenon DEF QuiesceDrained
<1>14. CASE QuiesceHandoff
  BY <1>14, Zenon DEF QuiesceHandoff
<1>15. CASE \E t \in Waiters, txg \in {0, tx_open_txg - 1, tx_open_txg} :
             Kick(t, txg)
  BY <1>15, Zenon DEF Kick
<1>16. CASE \E t \in Waiters : WaitSyncedEnter(t)
  BY <1>16, Zenon DEF WaitSyncedEnter
<1>17. CASE \E t \in Waiters : WaitSyncedLoop(t)
  BY <1>17, Zenon DEF WaitSyncedLoop
<1>18. CASE \E t \in Waiters, should_quiesce \in BOOLEAN :
             WaitOpenEnter(t, should_quiesce)
  BY <1>18, Zenon DEF WaitOpenEnter
<1>19. CASE \E t \in Waiters : WaitOpenLoop(t)
  BY <1>19, Zenon DEF WaitOpenLoop
<1>20. CASE StopExiting
  BY <1>20, Zenon DEF StopExiting
<1>21. CASE UNCHANGED <<sync_pc, quiesce_pc, tx_threads>>
  BY <1>21, Zenon
<1> QED
  BY <1>1, <1>2, <1>3, <1>4, <1>5, <1>6, <1>7, <1>8, <1>9, <1>10, <1>11,
     <1>12, <1>13, <1>14, <1>15, <1>16, <1>17, <1>18, <1>19, <1>20, <1>21,
     Zenon
     DEF Next, SyncThread, QuiesceThread, Transaction, Waiter, HoldOpen,
         Delay, DelayOver, ReleToQuiesce, RegisterCallbacks, ReleToSync,
         WaitSyncedCall, WaitSyncedSignal, StopCall, StopDone, Stopped,
         Suspend, WaitKick, Resume, vars, pipeline, requests, percpu,
         service, users, spa, ending

\* Handles stay with the threads that took them.
LEMMA HandlesStep ==
    TypeOK /\ Flight /\ Handles /\ [Next]_vars => Handles'
<1> SUFFICES ASSUME TypeOK, Flight, Handles, [Next]_vars
             PROVE  Handles'
  BY Zenon
<1> USE TxgAssumption DEF TypeOK, TxgsTypeOK, ServiceTypeOK, UsersTypeOK,
        Handles, OpenLockFree, HoldsOpenLock, Cpus, Return, SyncDone,
        QuiesceDone, QuiesceMore, WaitSyncedTurn, Threads, users, service
<1>1. CASE \E busy \in BOOLEAN : SyncWaitQuiesce(busy)
  BY <1>1, Zenon DEF SyncWaitQuiesce
<1>2. CASE \E busy \in BOOLEAN : SyncBegin(busy)
  BY <1>2, Zenon DEF SyncBegin
<1>3. CASE \E late \in BOOLEAN : SyncEnd(late)
  BY <1>3 DEF SyncEnd
<1>4. CASE QuiesceWait
  BY <1>4, Zenon DEF QuiesceWait
<1>5. CASE QuiesceExit
  BY <1>5, Zenon DEF QuiesceExit
<1>6. CASE QuiesceBegin
  BY <1>6, Zenon DEF QuiesceBegin
<1>7. CASE QuiesceLockCpu
  BY <1>7 DEF QuiesceLockCpu
<1>8. CASE QuiesceAdvance
  BY <1>8 DEF QuiesceAdvance
<1>9. CASE QuiesceDrained
  BY <1>9, Zenon DEF QuiesceDrained
<1>10. CASE QuiesceHandoff
  BY <1>10, Zenon DEF QuiesceHandoff
<1>11. CASE \E t \in Txers, c \in Cpus : HoldOpen(t, c)
  <2> PICK t \in Txers, c \in Cpus : HoldOpen(t, c)
    BY <1>11, Zenon
  <2>1. /\ t \in Threads /\ c > open_locks /\ tx_open_txg # 0
        /\ pc' = [pc EXCEPT ![t] = "open"]
        /\ th_cpu' = [th_cpu EXCEPT ![t] = c]
        /\ th_txg' = [th_txg EXCEPT ![t] = tx_open_txg]
        /\ UNCHANGED <<quiesce_pc, open_locks>>
    BY OpenPositive DEF HoldOpen
  <2> QED
    BY <2>1, Zenon
<1>12. CASE \E t \in Txers : Delay(t)
  BY <1>12 DEF Delay
<1>13. CASE \E t \in Txers : DelayOver(t)
  BY <1>13 DEF DelayOver
<1>14. CASE \E t \in Txers : ReleToQuiesce(t)
  BY <1>14 DEF ReleToQuiesce
<1>15. CASE \E t \in Txers : ReleToSync(t)
  BY <1>15 DEF ReleToSync
<1>16. CASE \E t \in Waiters, txg \in {0, tx_open_txg - 1, tx_open_txg},
                 f \in WaitFlags :
             WaitSyncedCall(t, txg, f)
  BY <1>16 DEF WaitSyncedCall
<1>17. CASE \E t \in Waiters : WaitSyncedEnter(t)
  BY <1>17 DEF WaitSyncedEnter
<1>18. CASE \E t \in Waiters : WaitSyncedLoop(t)
  BY <1>18 DEF WaitSyncedLoop
<1>19. CASE \E t \in Waiters : WaitSyncedSignal(t)
  BY <1>19 DEF WaitSyncedSignal
<1>20. CASE \E t \in Waiters, should_quiesce \in BOOLEAN :
             WaitOpenEnter(t, should_quiesce)
  BY <1>20 DEF WaitOpenEnter
<1>21. CASE \E t \in Waiters : WaitOpenLoop(t)
  BY <1>21 DEF WaitOpenLoop
<1>22. CASE \E t \in Waiters : StopCall(t)
  BY <1>22, Zenon DEF StopCall
<1>23. CASE StopExiting
  BY <1>23, Zenon DEF StopExiting
<1>24. CASE WaitKick
  BY <1>24, Zenon DEF WaitKick
<1>25. CASE UNCHANGED <<pc, th_cpu, th_txg, quiesce_pc, open_locks>>
  BY <1>25, Zenon
<1> QED
  BY <1>1, <1>2, <1>3, <1>4, <1>5, <1>6, <1>7, <1>8, <1>9, <1>10, <1>11,
     <1>12, <1>13, <1>14, <1>15, <1>16, <1>17, <1>18, <1>19, <1>20, <1>21,
     <1>22, <1>23, <1>24, <1>25, Zenon
     DEF Next, SyncThread, QuiesceThread, Transaction, Waiter, SyncWaitMore,
         SyncContinue, SyncExit, SyncTimeout, RegisterCallbacks, Kick,
         StopDone, Stopped, Suspend, Resume, vars, pipeline, requests,
         percpu, service, users, spa, ending

\* txg_hold_open() adds one handle and one count, txg_rele_to_sync() takes both
\* away.
LEMMA CountsStep ==
    TypeOK /\ Flight /\ Handles /\ CountsHolds /\ [Next]_vars => CountsHolds'
<1> SUFFICES ASSUME TypeOK, Flight, Handles, CountsHolds, [Next]_vars
             PROVE  CountsHolds'
  BY Zenon
<1>1. CASE \E t \in Txers, c \in Cpus : HoldOpen(t, c)
  <2> PICK t \in Txers, c \in Cpus : HoldOpen(t, c)
    BY <1>1, Zenon
  <2> PICK g \in Slots : g = Slot(tx_open_txg)
    BY SlotType, Zenon DEF TypeOK, TxgsTypeOK
  <2>1. t \in Threads /\ tx_open_txg # 0 /\ th_txg[t] = 0
    BY OpenPositive
       DEF TypeOK, TxgsTypeOK, UsersTypeOK, Handles, HoldOpen, Threads,
           HoldsOpenLock
  <2>2. Holders(c, g)' = Holders(c, g) \cup {t} /\ t \notin Holders(c, g)
    BY <2>1, Zenon DEF Holders, HoldOpen, TypeOK, UsersTypeOK
  <2>3. Cardinality(Holders(c, g)') = Cardinality(Holders(c, g)) + 1
    BY <2>2, HoldersFinite, FS_AddElement, Zenon
  <2>4. ASSUME NEW d \in Cpus, NEW h \in Slots, d # c \/ h # g
        PROVE  Holders(d, h)' = Holders(d, h)
    BY <2>1, <2>4, Zenon DEF Holders, HoldOpen, TypeOK, UsersTypeOK
  <2>5. tc_count' = [tc_count EXCEPT ![c][g] = @ + 1]
    BY Zenon DEF HoldOpen
  <2> QED
    <3>1. \A d \in Cpus, h \in Slots :
              d # c \/ h # g => tc_count'[d][h] = tc_count[d][h]
      BY <2>5, Zenon DEF TypeOK, PercpuTypeOK
    <3>2. tc_count'[c][g] = tc_count[c][g] + 1
      BY <2>5, Zenon DEF TypeOK, PercpuTypeOK
    <3>3. tc_count'[c][g] = Cardinality(Holders(c, g)')
      BY <2>3, <3>2, Zenon DEF CountsHolds
    <3>4. ASSUME NEW d \in Cpus, NEW h \in Slots
          PROVE  tc_count'[d][h] = Cardinality(Holders(d, h)')
      <4>1. CASE d = c /\ h = g
        BY <3>3, <4>1, Zenon
      <4>2. CASE d # c \/ h # g
        BY <2>4, <3>1, <4>2 DEF CountsHolds
      <4> QED
        BY <4>1, <4>2, Zenon
    <3> QED
      BY <3>4, Zenon DEF CountsHolds
<1>2. CASE \E t \in Txers : ReleToSync(t)
  <2> PICK t \in Txers : ReleToSync(t)
    BY <1>2, Zenon
  <2>1. t \in Threads /\ th_txg[t] # 0 /\ th_cpu[t] \in Cpus
    BY Zenon DEF Handles, ReleToSync, Threads, HoldsOpenLock
  <2> PICK c \in Cpus, g \in Slots : c = th_cpu[t] /\ g = Slot(th_txg[t])
    BY <2>1, SlotType, Zenon DEF TypeOK, UsersTypeOK
  <2>2. Holders(c, g)' = Holders(c, g) \ {t} /\ t \in Holders(c, g)
    BY <2>1, Zenon DEF Holders, ReleToSync, TypeOK, UsersTypeOK
  <2>3. Cardinality(Holders(c, g)') = Cardinality(Holders(c, g)) - 1
    BY <2>2, HoldersFinite, HolderLeaves, Zenon
  <2>4. ASSUME NEW d \in Cpus, NEW h \in Slots, d # c \/ h # g
        PROVE  Holders(d, h)' = Holders(d, h)
    BY <2>1, <2>4, Zenon DEF Holders, ReleToSync, TypeOK, UsersTypeOK
  <2>5. tc_count' = [tc_count EXCEPT ![c][g] = @ - 1]
    BY Zenon DEF ReleToSync
  <2> QED
    <3>1. \A d \in Cpus, h \in Slots :
              d # c \/ h # g => tc_count'[d][h] = tc_count[d][h]
      BY <2>5, Zenon DEF TypeOK, PercpuTypeOK
    <3>2. tc_count'[c][g] = tc_count[c][g] - 1
      BY <2>5, Zenon DEF TypeOK, PercpuTypeOK
    <3>3. tc_count'[c][g] = Cardinality(Holders(c, g)')
      BY <2>3, <3>2, Zenon DEF CountsHolds
    <3>4. ASSUME NEW d \in Cpus, NEW h \in Slots
          PROVE  tc_count'[d][h] = Cardinality(Holders(d, h)')
      <4>1. CASE d = c /\ h = g
        BY <3>3, <4>1, Zenon
      <4>2. CASE d # c \/ h # g
        BY <2>4, <3>1, <4>2 DEF CountsHolds
      <4> QED
        BY <4>1, <4>2, Zenon
    <3> QED
      BY <3>4, Zenon DEF CountsHolds
<1>3. CASE UNCHANGED <<tc_count, th_cpu, th_txg>>
  BY <1>3, Zenon DEF CountsHolds, Holders
<1> QED
  BY <1>1, <1>2, <1>3, Zenon
     DEF Next, SyncThread, QuiesceThread, Transaction, Waiter, SyncWaitMore,
         SyncContinue, SyncWaitQuiesce, SyncExit, SyncBegin, SyncEnd,
         SyncTimeout, QuiesceWait, QuiesceExit, QuiesceBegin, QuiesceLockCpu,
         QuiesceAdvance, QuiesceDrained, QuiesceHandoff, Delay, DelayOver,
         ReleToQuiesce, RegisterCallbacks, WaitSyncedCall, Kick,
         WaitSyncedEnter, WaitSyncedLoop, WaitSyncedSignal, WaitOpenEnter,
         WaitOpenLoop, StopCall, StopExiting, StopDone, Stopped, Suspend,
         WaitKick, Resume, vars, pipeline, requests, percpu, service, users,
         spa, ending

\* A count is a cardinality, so it does not fall below zero.
LEMMA CountType ==
    CountsHolds' => \A c \in Cpus, g \in Slots : tc_count'[c][g] \in Nat
<1>1. \A c, g : IsFiniteSet(Holders(c, g)')
  BY ThreadsFinite, FS_Subset, Zenon DEF Holders
<1> QED
  BY <1>1, FS_CardinalityType, Zenon DEF CountsHolds

\* Counts and callbacks keep their types.
LEMMA PercpuTypeStep ==
    TypeOK /\ Handles /\ CountsHolds' /\ [Next]_vars => PercpuTypeOK'
<1> SUFFICES ASSUME TypeOK, Handles, CountsHolds', [Next]_vars
             PROVE  PercpuTypeOK'
  BY Zenon
<1>1. CASE \E late \in BOOLEAN : SyncEnd(late)
  <2>1. \A c \in Cpus : [tc_callbacks[c] EXCEPT ![Slot(tx_syncing_txg)] = {}]
                        \in [Slots -> SUBSET Nat]
    BY Zenon DEF TypeOK, PercpuTypeOK
  <2>2. tc_callbacks' \in [Cpus -> [Slots -> SUBSET Nat]]
    BY <1>1, <2>1 DEF SyncEnd, Dispatched
  <2> QED
    BY <1>1, <2>2, Zenon DEF SyncEnd, TypeOK, PercpuTypeOK
<1>2. CASE \E t \in Txers, c \in Cpus : HoldOpen(t, c)
  <2>1. tc_count' \in [Cpus -> [Slots -> Int]]
    BY <1>2, SlotType DEF HoldOpen, TypeOK, TxgsTypeOK, PercpuTypeOK
  <2> QED
    BY <1>2, <2>1, CountType DEF HoldOpen, TypeOK, PercpuTypeOK
<1>3. CASE \E t \in Txers : RegisterCallbacks(t)
  BY <1>3, SlotType
     DEF RegisterCallbacks, TypeOK, PercpuTypeOK, UsersTypeOK, Handles, Threads
<1>4. CASE \E t \in Txers : ReleToSync(t)
  <2>1. tc_count' \in [Cpus -> [Slots -> Int]]
    BY <1>4, SlotType
       DEF ReleToSync, TypeOK, PercpuTypeOK, UsersTypeOK, Handles, Threads
  <2> QED
    BY <1>4, <2>1, CountType DEF ReleToSync, TypeOK, PercpuTypeOK
<1>5. CASE UNCHANGED <<tc_count, tc_callbacks>>
  BY <1>5, Zenon DEF TypeOK, PercpuTypeOK
<1> QED
  BY <1>1, <1>2, <1>3, <1>4, <1>5, Zenon
     DEF Next, SyncThread, QuiesceThread, Transaction, Waiter, SyncWaitMore,
         SyncContinue, SyncWaitQuiesce, SyncExit, SyncBegin, SyncTimeout,
         QuiesceWait, QuiesceExit, QuiesceBegin, QuiesceLockCpu,
         QuiesceAdvance, QuiesceDrained, QuiesceHandoff, Delay, DelayOver,
         ReleToQuiesce, WaitSyncedCall, Kick, WaitSyncedEnter,
         WaitSyncedLoop, WaitSyncedSignal, WaitOpenEnter, WaitOpenLoop,
         StopCall, StopExiting, StopDone, Stopped, Suspend, WaitKick, Resume,
         vars, pipeline, requests, percpu, service, users, spa, ending

\* The pipeline moves on in order.
LEMMA FlightStep ==
    TypeOK /\ Flight /\ [Next]_vars => Flight'
<1> SUFFICES ASSUME TypeOK, Flight, [Next]_vars
             PROVE  Flight'
  BY Zenon
<1> USE TxgAssumption DEF TypeOK, TxgsTypeOK, ServiceTypeOK, Flight, Oldest,
        Closing, SyncMore, QuiesceMore, SyncProceeds, MayQuiesce,
        WaitSyncedTurn, pipeline
<1>1. CASE \E busy \in BOOLEAN : SyncWaitMore(busy)
  BY <1>1, Zenon DEF SyncWaitMore
<1>2. CASE \E busy \in BOOLEAN : SyncContinue(busy)
  BY <1>2, Zenon DEF SyncContinue
<1>3. CASE \E busy \in BOOLEAN : SyncWaitQuiesce(busy)
  BY <1>3, Zenon DEF SyncWaitQuiesce
<1>4. CASE \E busy \in BOOLEAN : SyncExit(busy)
  BY <1>4, Zenon DEF SyncExit
<1>5. CASE \E busy \in BOOLEAN : SyncBegin(busy)
  BY <1>5 DEF SyncBegin
<1>6. CASE \E late \in BOOLEAN : SyncEnd(late)
  BY <1>6 DEF SyncEnd
<1>7. CASE SyncTimeout
  BY <1>7, Zenon DEF SyncTimeout
<1>8. CASE QuiesceWait
  BY <1>8, Zenon DEF QuiesceWait
<1>9. CASE QuiesceExit
  BY <1>9, Zenon DEF QuiesceExit
<1>10. CASE QuiesceBegin
  BY <1>10, Zenon DEF QuiesceBegin
<1>11. CASE QuiesceLockCpu
  BY <1>11, Zenon DEF QuiesceLockCpu
<1>12. CASE QuiesceAdvance
  BY <1>12 DEF QuiesceAdvance
<1>13. CASE QuiesceDrained
  BY <1>13, Zenon DEF QuiesceDrained
<1>14. CASE QuiesceHandoff
  BY <1>14 DEF QuiesceHandoff
<1>15. CASE \E t \in Waiters, txg \in {0, tx_open_txg - 1, tx_open_txg} :
             Kick(t, txg)
  BY <1>15 DEF Kick
<1>16. CASE \E t \in Waiters : WaitSyncedEnter(t)
  BY <1>16, Zenon DEF WaitSyncedEnter
<1>17. CASE \E t \in Waiters : WaitSyncedLoop(t)
  BY <1>17, Zenon DEF WaitSyncedLoop
<1>18. CASE \E t \in Waiters, should_quiesce \in BOOLEAN :
             WaitOpenEnter(t, should_quiesce)
  BY <1>18, Zenon DEF WaitOpenEnter
<1>19. CASE \E t \in Waiters : WaitOpenLoop(t)
  BY <1>19, Zenon DEF WaitOpenLoop
<1>20. CASE StopExiting
  BY <1>20, Zenon DEF StopExiting
<1>21. CASE UNCHANGED <<pipeline, sync_pc, quiesce_pc>>
  BY <1>21, Zenon
<1> QED
  BY <1>1, <1>2, <1>3, <1>4, <1>5, <1>6, <1>7, <1>8, <1>9, <1>10, <1>11,
     <1>12, <1>13, <1>14, <1>15, <1>16, <1>17, <1>18, <1>19, <1>20, <1>21,
     Zenon
     DEF Next, SyncThread, QuiesceThread, Transaction, Waiter, HoldOpen,
         Delay, DelayOver, ReleToQuiesce, RegisterCallbacks, ReleToSync,
         WaitSyncedCall, WaitSyncedSignal, StopCall, StopDone, Stopped,
         Suspend, WaitKick, Resume, vars, pipeline, requests, percpu,
         service, users, spa, ending

\* The open txg does not change while a thread has a tc_open_lock: the quiesce
\* thread needs all of them.
LEMMA StaysOpenStep ==
    TypeOK /\ Handles /\ StaysOpen /\ [Next]_vars => StaysOpen'
<1> SUFFICES ASSUME TypeOK, Handles, StaysOpen, [Next]_vars
             PROVE  StaysOpen'
  BY Zenon
<1> USE TxgAssumption DEF TypeOK, TxgsTypeOK, ServiceTypeOK, UsersTypeOK,
        Handles, StaysOpen, HoldsOpenLock, Cpus, AllOpenLocks, Return,
        SyncDone, QuiesceDone, WaitSyncedTurn, Threads, pipeline, users
<1>1. CASE \E late \in BOOLEAN : SyncEnd(late)
  BY <1>1, Zenon DEF SyncEnd
<1>2. CASE QuiesceAdvance
  BY <1>2 DEF QuiesceAdvance
<1>3. CASE QuiesceHandoff
  BY <1>3, Zenon DEF QuiesceHandoff
<1>4. CASE \E t \in Txers, c \in Cpus : HoldOpen(t, c)
  BY <1>4, Zenon DEF HoldOpen
<1>5. CASE \E t \in Txers : Delay(t)
  BY <1>5, Zenon DEF Delay
<1>6. CASE \E t \in Txers : DelayOver(t)
  BY <1>6, Zenon DEF DelayOver
<1>7. CASE \E t \in Txers : ReleToQuiesce(t)
  BY <1>7, Zenon DEF ReleToQuiesce
<1>8. CASE \E t \in Txers : ReleToSync(t)
  BY <1>8, Zenon DEF ReleToSync
<1>9. CASE \E t \in Waiters, txg \in {0, tx_open_txg - 1, tx_open_txg},
                 f \in WaitFlags :
             WaitSyncedCall(t, txg, f)
  BY <1>9, Zenon DEF WaitSyncedCall
<1>10. CASE \E t \in Waiters : WaitSyncedEnter(t)
  BY <1>10 DEF WaitSyncedEnter
<1>11. CASE \E t \in Waiters : WaitSyncedLoop(t)
  BY <1>11 DEF WaitSyncedLoop
<1>12. CASE \E t \in Waiters : WaitSyncedSignal(t)
  BY <1>12 DEF WaitSyncedSignal
<1>13. CASE \E t \in Waiters, should_quiesce \in BOOLEAN :
             WaitOpenEnter(t, should_quiesce)
  BY <1>13, Zenon DEF WaitOpenEnter
<1>14. CASE \E t \in Waiters : WaitOpenLoop(t)
  <2> PICK t \in Waiters : WaitOpenLoop(t)
    BY <1>14, Zenon
  <2>1. /\ \E to \in {"idle", "open_wait"} : pc' = [pc EXCEPT ![t] = to]
        /\ UNCHANGED <<th_txg, tx_open_txg>>
    BY Zenon DEF WaitOpenLoop
  <2> QED
    BY <2>1, Zenon
<1>15. CASE \E t \in Waiters : StopCall(t)
  BY <1>15, Zenon DEF StopCall
<1>16. CASE WaitKick
  BY <1>16, Zenon DEF WaitKick
<1>17. CASE UNCHANGED <<pc, th_txg, tx_open_txg>>
  BY <1>17, Zenon
<1> QED
  BY <1>1, <1>2, <1>3, <1>4, <1>5, <1>6, <1>7, <1>8, <1>9, <1>10, <1>11,
     <1>12, <1>13, <1>14, <1>15, <1>16, <1>17, Zenon
     DEF Next, SyncThread, QuiesceThread, Transaction, Waiter, SyncWaitMore,
         SyncContinue, SyncWaitQuiesce, SyncExit, SyncBegin, SyncTimeout,
         QuiesceWait, QuiesceExit, QuiesceBegin, QuiesceLockCpu,
         QuiesceDrained, RegisterCallbacks, Kick, StopExiting, StopDone,
         Stopped, Suspend, Resume, vars, pipeline, requests, percpu, service,
         users, spa, ending

\* A txg is handed over only when its last transaction has left it.
LEMMA HoldersStep ==
    TypeOK /\ Flight /\ CountsHolds /\ Handles /\ HoldersNotSyncing
    /\ [Next]_vars => HoldersNotSyncing'
<1> SUFFICES ASSUME TypeOK, Flight, CountsHolds, Handles, HoldersNotSyncing,
             [Next]_vars
             PROVE  HoldersNotSyncing'
  BY Zenon
<1>1. CASE \E busy \in BOOLEAN : SyncWaitQuiesce(busy)
  BY <1>1, Zenon DEF SyncWaitQuiesce, HoldersNotSyncing, Flight, TypeOK,
      TxgsTypeOK, ServiceTypeOK, UsersTypeOK, QuiesceMore, Threads, pipeline,
      users, service
<1>2. CASE \E busy \in BOOLEAN : SyncBegin(busy)
  BY <1>2, Zenon DEF SyncBegin, HoldersNotSyncing, Flight, TypeOK,
      TxgsTypeOK, ServiceTypeOK, UsersTypeOK, QuiesceMore, Threads, pipeline,
      users, service
<1>3. CASE QuiesceWait
  BY <1>3, Zenon DEF QuiesceWait, HoldersNotSyncing, Flight, TypeOK,
      TxgsTypeOK, ServiceTypeOK, UsersTypeOK, QuiesceMore, Threads, pipeline,
      users, service
<1>4. CASE QuiesceExit
  BY <1>4, Zenon DEF QuiesceExit, HoldersNotSyncing, Flight, TypeOK,
      TxgsTypeOK, ServiceTypeOK, UsersTypeOK, QuiesceMore, Threads, pipeline,
      users, service
<1>5. CASE QuiesceBegin
  BY <1>5, Zenon DEF QuiesceBegin, HoldersNotSyncing, Flight, TypeOK,
      TxgsTypeOK, ServiceTypeOK, UsersTypeOK, QuiesceMore, Threads, pipeline,
      users, service
<1>6. CASE QuiesceAdvance
  BY <1>6, Zenon DEF QuiesceAdvance, HoldersNotSyncing, Flight, TypeOK,
      TxgsTypeOK, ServiceTypeOK, UsersTypeOK, QuiesceMore, Threads, pipeline,
      users, service
<1>7. CASE QuiesceDrained
  <2> SUFFICES ASSUME NEW t \in Threads, th_txg[t] # 0
               PROVE  th_txg[t] = tx_open_txg
    BY <1>7, Zenon DEF QuiesceDrained, HoldersNotSyncing, pipeline, users
  <2>1. th_cpu[t] \in Cpus /\ th_txg[t] \in Nat
    BY Zenon DEF Handles, TypeOK, UsersTypeOK
  <2>2. CASE th_txg[t] = tx_quiescing_txg
    <3>1. Holders(th_cpu[t], Slot(th_txg[t])) = {}
      BY <1>7, <2>1, <2>2, SlotType, HoldersFinite, FS_EmptySet, Zenon
         DEF QuiesceDrained, Drained, CountsHolds
    <3> QED
      BY <3>1, Zenon DEF Holders
  <2> QED
    BY <2>2, Zenon DEF HoldersNotSyncing
<1>8. CASE QuiesceHandoff
  BY <1>8, Zenon DEF QuiesceHandoff, HoldersNotSyncing, Flight, TypeOK,
      TxgsTypeOK, ServiceTypeOK, UsersTypeOK, QuiesceMore, Threads, pipeline,
      users, service
<1>9. CASE \E t \in Txers, c \in Cpus : HoldOpen(t, c)
  BY <1>9 DEF HoldOpen, HoldersNotSyncing, Flight, TypeOK,
      TxgsTypeOK, ServiceTypeOK, UsersTypeOK, QuiesceMore, Threads, pipeline,
      users, service
<1>10. CASE \E t \in Txers : ReleToSync(t)
  BY <1>10 DEF ReleToSync, HoldersNotSyncing, Flight, TypeOK,
      TxgsTypeOK, ServiceTypeOK, UsersTypeOK, QuiesceMore, Threads, pipeline,
      users, service
<1>11. CASE \E t \in Waiters, should_quiesce \in BOOLEAN :
             WaitOpenEnter(t, should_quiesce)
  BY <1>11 DEF WaitOpenEnter, HoldersNotSyncing, Flight, TypeOK,
      TxgsTypeOK, ServiceTypeOK, UsersTypeOK, QuiesceMore, Threads, pipeline,
      users, service
<1>12. CASE \E t \in Waiters : WaitOpenLoop(t)
  BY <1>12, Zenon DEF WaitOpenLoop, HoldersNotSyncing, Flight, TypeOK,
      TxgsTypeOK, ServiceTypeOK, UsersTypeOK, QuiesceMore, Threads, pipeline,
      users, service
<1>13. CASE StopExiting
  BY <1>13, Zenon DEF StopExiting, HoldersNotSyncing, Flight, TypeOK,
      TxgsTypeOK, ServiceTypeOK, UsersTypeOK, QuiesceMore, Threads, pipeline,
      users, service
<1>14. CASE UNCHANGED <<th_txg, tx_open_txg, tx_quiescing_txg, quiesce_pc>>
  BY <1>14, Zenon DEF HoldersNotSyncing
<1> QED
  BY <1>1, <1>2, <1>3, <1>4, <1>5, <1>6, <1>7, <1>8, <1>9, <1>10, <1>11,
     <1>12, <1>13, <1>14, Zenon
     DEF Next, SyncThread, QuiesceThread, Transaction, Waiter, SyncWaitMore,
         SyncContinue, SyncExit, SyncEnd, SyncTimeout, QuiesceLockCpu, Delay,
         DelayOver, ReleToQuiesce, RegisterCallbacks, WaitSyncedCall, Kick,
         WaitSyncedEnter, WaitSyncedLoop, WaitSyncedSignal, StopCall,
         StopDone, Stopped, Suspend, WaitKick, Resume, vars, pipeline,
         requests, percpu, service, users, spa, ending

\* The end of a sync empties the slot of the txg that was synced.
LEMMA CallbacksStep ==
    TypeOK /\ Flight /\ Handles /\ HoldersNotSyncing /\ Callbacks
    /\ [Next]_vars => Callbacks'
<1> SUFFICES ASSUME TypeOK, Flight, Handles, HoldersNotSyncing, Callbacks,
             [Next]_vars
             PROVE  Callbacks'
  BY Zenon
<1>1. CASE \E late \in BOOLEAN : SyncEnd(late)
  <2> PICK late \in BOOLEAN : SyncEnd(late)
    BY <1>1, Zenon
  <2>1. tx_syncing_txg \in Nat /\ tx_syncing_txg = Oldest
        /\ tx_syncing_txg # 0 /\ Oldest' = tx_syncing_txg + 1
    BY Zenon DEF SyncEnd, Flight, TypeOK, TxgsTypeOK, Oldest
  <2>2. SUFFICES ASSUME NEW c \in Cpus, NEW g \in Slots,
                        NEW txg \in tc_callbacks'[c][g]
                 PROVE  Slot(txg) = g /\ Oldest' <= txg /\ txg <= tx_open_txg'
    BY Zenon DEF Callbacks
  <2>3. txg \in tc_callbacks[c][g] /\ g # Slot(tx_syncing_txg)
    BY <2>2, Zenon DEF SyncEnd, Dispatched, TypeOK, PercpuTypeOK
  <2>4. txg \in Nat /\ Slot(txg) = g /\ Oldest <= txg /\ txg <= tx_open_txg
    BY <2>3 DEF Callbacks, TypeOK, PercpuTypeOK
  <2> QED
    BY <2>1, <2>3, <2>4 DEF SyncEnd
<1>2. CASE QuiesceAdvance
  BY <1>2 DEF QuiesceAdvance, Callbacks, Oldest, TypeOK, TxgsTypeOK,
      PercpuTypeOK, percpu
<1>3. CASE \E t \in Txers : RegisterCallbacks(t)
  <2> PICK t \in Txers : RegisterCallbacks(t)
    BY <1>3, Zenon
  <2>1. /\ t \in Threads /\ th_cpu[t] \in Cpus
        /\ th_txg[t] \in Nat /\ Slot(th_txg[t]) \in Slots
        /\ Oldest <= th_txg[t] /\ th_txg[t] <= tx_open_txg
    <3>1. /\ t \in Threads /\ th_txg[t] \in Nat /\ th_txg[t] # 0
          /\ th_cpu[t] \in Cpus
      BY Zenon DEF RegisterCallbacks, Handles, TypeOK, UsersTypeOK, Threads
    <3>2. \/ th_txg[t] = tx_open_txg
          \/ th_txg[t] = tx_open_txg - 1 /\ Closing
      BY <3>1, Zenon DEF HoldersNotSyncing, Flight, Closing
    <3>3. Oldest <= th_txg[t] /\ th_txg[t] <= tx_open_txg
      BY <3>2, OpenPositive DEF Flight, TypeOK, TxgsTypeOK
    <3> QED
      BY <3>1, <3>3, SlotType, Zenon
  <2> PICK d \in Cpus, h \in Slots : d = th_cpu[t] /\ h = Slot(th_txg[t])
    BY <2>1, Zenon
  <2>2. \A c \in Cpus, g \in Slots : \A txg \in tc_callbacks'[c][g] :
            txg \in tc_callbacks[c][g] \/ (txg = th_txg[t] /\ g = h)
    <3>1. tc_callbacks' =
              [tc_callbacks EXCEPT ![d][h] = @ \cup {th_txg[t]}]
      BY Zenon DEF RegisterCallbacks
    <3>2. tc_callbacks'[d][h] = tc_callbacks[d][h] \cup {th_txg[t]}
      BY <3>1, Zenon DEF TypeOK, PercpuTypeOK
    <3>3. \A c \in Cpus, g \in Slots :
              c # d \/ g # h => tc_callbacks'[c][g] = tc_callbacks[c][g]
      BY <3>1, Zenon DEF TypeOK, PercpuTypeOK
    <3> SUFFICES ASSUME NEW c \in Cpus, NEW g \in Slots,
                        NEW txg \in tc_callbacks'[c][g]
                 PROVE  \/ txg \in tc_callbacks[c][g]
                        \/ txg = th_txg[t] /\ g = h
      BY Zenon
    <3>4. CASE c = d /\ g = h
      BY <3>2, <3>4, Zenon
    <3>5. CASE ~(c = d /\ g = h)
      <4>1. tc_callbacks'[c][g] = tc_callbacks[c][g]
        BY <3>3, <3>5, Zenon
      <4> QED
        BY <4>1, Zenon
    <3> QED
      BY <3>4, <3>5, Zenon
  <2> QED
    BY <2>1, <2>2 DEF RegisterCallbacks, Callbacks, Oldest, pipeline
<1>4. CASE UNCHANGED <<tc_callbacks, tx_open_txg, tx_synced_txg>>
  BY <1>4, Zenon DEF Callbacks, Oldest
<1> QED
  BY <1>1, <1>2, <1>3, <1>4, Zenon
     DEF Next, SyncThread, QuiesceThread, Transaction, Waiter, SyncWaitMore,
         SyncContinue, SyncWaitQuiesce, SyncExit, SyncBegin, SyncTimeout,
         QuiesceWait, QuiesceExit, QuiesceBegin, QuiesceLockCpu,
         QuiesceDrained, QuiesceHandoff, HoldOpen, Delay, DelayOver,
         ReleToQuiesce, ReleToSync, WaitSyncedCall, Kick, WaitSyncedEnter,
         WaitSyncedLoop, WaitSyncedSignal, WaitOpenEnter, WaitOpenLoop,
         StopCall, StopExiting, StopDone, Stopped, Suspend, WaitKick, Resume,
         vars, pipeline, requests, percpu, service, users, spa, ending

\* A thread in txg_sync_stop() leaves its wait only when the callbacks it waits
\* for are gone.
LEMMA StoppingStep ==
    TypeOK /\ Callbacks /\ Stopping /\ [Next]_vars => Stopping'
<1> SUFFICES ASSUME TypeOK, Callbacks, Stopping, [Next]_vars
             PROVE  Stopping'
  BY Zenon
<1> USE TxgAssumption DEF TypeOK
<1>1. CASE \E late \in BOOLEAN : SyncEnd(late)
  <2>1. \A c \in Cpus, g \in Slots :
            tc_callbacks'[c][g] \subseteq tc_callbacks[c][g]
    BY <1>1 DEF SyncEnd, Dispatched, PercpuTypeOK
  <2> QED
    BY <1>1, <2>1 DEF SyncEnd, Stopping, Waiting, UsersTypeOK, SyncDone, ending
<1>2. CASE QuiesceHandoff
  BY <1>2, Zenon DEF QuiesceHandoff, Stopping, Waiting, HoldsOpenLock,
      UsersTypeOK, ServiceTypeOK, SyncDone, QuiesceDone, Return, Threads,
      users, percpu, ending
<1>3. CASE \E t \in Txers, c \in Cpus : HoldOpen(t, c)
  BY <1>3, Zenon DEF HoldOpen, Stopping, Waiting, HoldsOpenLock,
      UsersTypeOK, ServiceTypeOK, SyncDone, QuiesceDone, Return, Threads,
      users, percpu, ending
<1>4. CASE \E t \in Txers : Delay(t)
  BY <1>4, Zenon DEF Delay, Stopping, Waiting, HoldsOpenLock,
      UsersTypeOK, ServiceTypeOK, SyncDone, QuiesceDone, Return, Threads,
      users, percpu, ending
<1>5. CASE \E t \in Txers : DelayOver(t)
  BY <1>5, Zenon DEF DelayOver, Stopping, Waiting, HoldsOpenLock,
      UsersTypeOK, ServiceTypeOK, SyncDone, QuiesceDone, Return, Threads,
      users, percpu, ending
<1>6. CASE \E t \in Txers : ReleToQuiesce(t)
  BY <1>6, Zenon DEF ReleToQuiesce, Stopping, Waiting, HoldsOpenLock,
      UsersTypeOK, ServiceTypeOK, SyncDone, QuiesceDone, Return, Threads,
      users, percpu, ending
<1>7. CASE \E t \in Txers : RegisterCallbacks(t)
  BY <1>7, Zenon DEF RegisterCallbacks, Stopping, Waiting, HoldsOpenLock,
      UsersTypeOK, ServiceTypeOK, SyncDone, QuiesceDone, Return, Threads,
      users, percpu, ending
<1>8. CASE \E t \in Txers : ReleToSync(t)
  BY <1>8, Zenon DEF ReleToSync, Stopping, Waiting, HoldsOpenLock,
      UsersTypeOK, ServiceTypeOK, SyncDone, QuiesceDone, Return, Threads,
      users, percpu, ending
<1>9. CASE \E t \in Waiters, txg \in {0, tx_open_txg - 1, tx_open_txg},
                 f \in WaitFlags :
             WaitSyncedCall(t, txg, f)
  BY <1>9, Zenon DEF WaitSyncedCall, Stopping, Waiting, HoldsOpenLock,
      UsersTypeOK, ServiceTypeOK, SyncDone, QuiesceDone, Return, Threads,
      users, percpu, ending
<1>10. CASE \E t \in Waiters : WaitSyncedEnter(t)
  <2> PICK t \in Waiters : WaitSyncedEnter(t)
    BY <1>10, Zenon
  <2>1. ASSUME stop = "flush", NEW c \in Cpus, NEW g \in Slots,
               NEW txg \in tc_callbacks[c][g]
        PROVE  \E u \in Threads : /\ pc'[u] \in Waiting /\ flag'[u] = "NONE"
                                  /\ want'[u] >= txg
    <3>1. /\ txg \in Nat /\ txg > tx_synced_txg /\ txg > 0
          /\ tx_synced_txg \in Nat
      BY TxgAssumption
         DEF Callbacks, Oldest, PercpuTypeOK, TxgsTypeOK
    <3>2. PICK u \in Threads :
              pc[u] \in Waiting /\ flag[u] = "NONE" /\ want[u] >= txg
      BY <2>1, Zenon DEF Stopping
    <3>3. CASE u = t
      <4>1. /\ want[t] \in Nat /\ want[t] > 0 /\ want[t] > tx_synced_txg
            /\ ~BreakOnSuspend(t)
        BY <3>1, <3>2, <3>3 DEF BreakOnSuspend, UsersTypeOK
      <4>2. pc'[t] = "sync_wait" /\ want'[t] = want[t] /\ flag'[t] = "NONE"
        <5>1. WaitSyncedTurn(t, want[t])
          BY <4>1 DEF WaitSyncedEnter
        <5>2. ~(tx_synced_txg >= want[t])
          BY <3>1, <4>1
        <5>3. /\ pc' = [pc EXCEPT ![t] = "sync_wait"]
              /\ want' = [want EXCEPT ![t] = want[t]] /\ flag' = flag
          BY <4>1, <5>1, <5>2, Zenon DEF WaitSyncedTurn
        <5> QED
          BY <3>2, <3>3, <5>3, Zenon DEF UsersTypeOK
      <4> QED
        BY <3>2, <3>3, <4>2, Zenon DEF Waiting
    <3>4. CASE u # t
      BY <3>2, <3>4, Zenon
         DEF WaitSyncedEnter, WaitSyncedTurn, Return, UsersTypeOK
    <3> QED
      BY <3>3, <3>4, Zenon
  <2> QED
    BY <2>1
       DEF WaitSyncedEnter, WaitSyncedTurn, Return, Stopping, Waiting,
           UsersTypeOK, Threads, percpu, ending
<1>11. CASE \E t \in Waiters : WaitSyncedLoop(t)
  <2> PICK t \in Waiters : WaitSyncedLoop(t)
    BY <1>11, Zenon
  <2>1. ASSUME stop = "flush", NEW c \in Cpus, NEW g \in Slots,
               NEW txg \in tc_callbacks[c][g]
        PROVE  \E u \in Threads : /\ pc'[u] \in Waiting /\ flag'[u] = "NONE"
                                  /\ want'[u] >= txg
    <3>1. /\ txg \in Nat /\ txg > tx_synced_txg /\ txg > 0
          /\ tx_synced_txg \in Nat
      BY TxgAssumption
         DEF Callbacks, Oldest, PercpuTypeOK, TxgsTypeOK
    <3>2. PICK u \in Threads :
              pc[u] \in Waiting /\ flag[u] = "NONE" /\ want[u] >= txg
      BY <2>1, Zenon DEF Stopping
    <3>3. CASE u = t
      <4>1. /\ want[t] \in Nat /\ want[t] > 0 /\ want[t] > tx_synced_txg
            /\ ~BreakOnSuspend(t)
        BY <3>1, <3>2, <3>3 DEF BreakOnSuspend, UsersTypeOK
      <4>2. pc'[t] = "sync_wait" /\ want'[t] = want[t] /\ flag'[t] = "NONE"
        <5>1. WaitSyncedTurn(t, want[t])
          BY <4>1, Zenon DEF WaitSyncedLoop
        <5>2. ~(tx_synced_txg >= want[t])
          BY <3>1, <4>1
        <5>3. /\ pc' = [pc EXCEPT ![t] = "sync_wait"]
              /\ want' = [want EXCEPT ![t] = want[t]] /\ flag' = flag
          BY <4>1, <5>1, <5>2, Zenon DEF WaitSyncedTurn
        <5> QED
          BY <3>2, <3>3, <5>3, Zenon DEF UsersTypeOK
      <4> QED
        BY <3>2, <3>3, <4>2, Zenon DEF Waiting
    <3>4. CASE u # t
      BY <3>2, <3>4, Zenon
         DEF WaitSyncedLoop, WaitSyncedTurn, Return, UsersTypeOK
    <3> QED
      BY <3>3, <3>4, Zenon
  <2> QED
    BY <2>1
       DEF WaitSyncedLoop, WaitSyncedTurn, Return, Stopping, Waiting,
           UsersTypeOK, Threads, percpu, ending
<1>12. CASE \E t \in Waiters : WaitSyncedSignal(t)
  BY <1>12 DEF WaitSyncedSignal, Stopping, Waiting, UsersTypeOK, Return,
      Threads, percpu, ending
<1>13. CASE \E t \in Waiters, should_quiesce \in BOOLEAN :
             WaitOpenEnter(t, should_quiesce)
  BY <1>13, Zenon DEF WaitOpenEnter, Stopping, Waiting, HoldsOpenLock,
      UsersTypeOK, ServiceTypeOK, SyncDone, QuiesceDone, Return, Threads,
      users, percpu, ending
<1>14. CASE \E t \in Waiters : WaitOpenLoop(t)
  BY <1>14, Zenon DEF WaitOpenLoop, Stopping, Waiting, HoldsOpenLock,
      UsersTypeOK, ServiceTypeOK, SyncDone, QuiesceDone, Return, Threads,
      users, percpu, ending
<1>15. CASE \E t \in Waiters : StopCall(t)
  <2> PICK t \in Waiters : StopCall(t)
    BY <1>15, Zenon
  <2>1. \A c \in Cpus, g \in Slots : \A txg \in tc_callbacks[c][g] :
            txg \in Nat /\ txg <= tx_open_txg
    BY DEF Callbacks, PercpuTypeOK
  <2> QED
    <3>1. \A u \in Threads : pc'[u] \in {"idle"} \cup Waiting
      BY Zenon DEF StopCall, Waiting, UsersTypeOK, Threads
    <3>2. /\ t \in Threads /\ pc'[t] \in Waiting /\ flag'[t] = "NONE"
          /\ want'[t] = tx_open_txg + TXG_DEFER_SIZE
      BY Zenon DEF StopCall, Waiting, UsersTypeOK, Threads
    <3>3. \A c \in Cpus, g \in Slots : \A txg \in tc_callbacks[c][g] :
              want'[t] >= txg
      BY <2>1, <3>2 DEF TxgsTypeOK, TXG_DEFER_SIZE
    <3> QED
      BY <3>1, <3>2, <3>3, Zenon DEF StopCall, Stopping, percpu
<1>16. CASE StopExiting
  <2>1. stop = "flush" /\ stop' = "exit" /\ UNCHANGED <<pc, tc_callbacks>>
        /\ \A t \in Threads : pc[t] = "idle"
    BY <1>16, Zenon DEF StopExiting, percpu, users
  <2>2. \A c \in Cpus, g \in Slots : tc_callbacks[c][g] = {}
    BY <2>1, Zenon DEF Stopping, Waiting
  <2> QED
    BY <2>1, <2>2, Zenon DEF Stopping
<1>17. CASE StopDone
  BY <1>17, Zenon DEF StopDone, Stopping, Waiting, HoldsOpenLock,
      UsersTypeOK, ServiceTypeOK, SyncDone, QuiesceDone, Return, Threads,
      users, percpu, ending
<1>18. CASE WaitKick
  BY <1>18, Zenon DEF WaitKick, Stopping, Waiting, HoldsOpenLock,
      UsersTypeOK, ServiceTypeOK, SyncDone, QuiesceDone, Return, Threads,
      users, percpu, ending
<1>19. CASE UNCHANGED <<pc, want, flag, stop, tc_callbacks>>
  BY <1>19, Zenon DEF Stopping
<1> QED
  BY <1>1, <1>2, <1>3, <1>4, <1>5, <1>6, <1>7, <1>8, <1>9, <1>10, <1>11,
     <1>12, <1>13, <1>14, <1>15, <1>16, <1>17, <1>18, <1>19, Zenon
     DEF Next, SyncThread, QuiesceThread, Transaction, Waiter, SyncWaitMore,
         SyncContinue, SyncWaitQuiesce, SyncExit, SyncBegin, SyncTimeout,
         QuiesceWait, QuiesceExit, QuiesceBegin, QuiesceLockCpu,
         QuiesceAdvance, QuiesceDrained, Kick, Stopped, Suspend, Resume,
         vars, pipeline, requests, percpu, service, users, spa, ending

\* Every step of every thread preserves the invariant.
LEMMA InvStep == IInv /\ [Next]_vars => IInv'
<1> SUFFICES ASSUME IInv, [Next]_vars
             PROVE  IInv'
  BY Zenon
<1> USE DEF IInv
<1>1. CountsHolds'
  BY CountsStep, Zenon
<1>2. TypeOK'
  <2>1. TxgsTypeOK' /\ ServiceTypeOK'
    BY TxgsTypeStep, ServiceTypeStep, Zenon DEF TypeOK
  <2>2. PercpuTypeOK' /\ UsersTypeOK'
    BY <1>1, PercpuTypeStep, UsersTypeStep, Zenon
  <2> QED
    BY <2>1, <2>2, Zenon DEF TypeOK
<1>3. Handles' /\ StaysOpen' /\ HoldersNotSyncing'
  BY HandlesStep, StaysOpenStep, HoldersStep, Zenon
<1>4. Flight' /\ Callbacks' /\ Stopping'
  BY FlightStep, CallbacksStep, StoppingStep, Zenon
<1>5. ThreadCount'
  BY ThreadCountStep, Zenon DEF TypeOK
<1> QED
  BY <1>1, <1>2, <1>3, <1>4, <1>5, Zenon

-----------------------------------------------------------------------------
(* The theorems.                                                           *)

\* The invariant above is inductive.
THEOREM Invariance == Spec => []IInv
  BY InvInit, InvStep, PTL DEF Spec

\* No count of handles or of threads falls below zero, and every thread stays
\* in its code, however many cpus and threads there are.
THEOREM TypeCorrect == Spec => []TypeOK
<1>1. IInv => TypeOK
  BY Zenon DEF IInv
<1> QED
  BY <1>1, Invariance, PTL

\* The txgs in flight are consecutive, each in one state, and no more than
\* TXG_CONCURRENT_STATES.
THEOREM PipelineOrdered == Spec => []PipelineOrder
<1>1. IInv => PipelineOrder
  <2> SUFFICES ASSUME IInv
               PROVE  PipelineOrder
    BY Zenon
  <2> USE DEF IInv
  <2> DEFINE quiescing == IF tx_quiescing_txg \in {0, tx_open_txg}
                          THEN {} ELSE {tx_quiescing_txg}
             quiesced == {tx_quiesced_txg} \ {0}
             syncing == {tx_syncing_txg} \ {0}
             coming == IF Closing THEN {tx_open_txg - 1} ELSE {}
  <2>1. quiescing \cup quiesced = coming
    <3>1. CASE quiesce_pc \in {"drain", "handoff"}
      <4>1. tx_quiescing_txg = tx_open_txg - 1 /\ tx_open_txg - 1 # 0
            /\ tx_quiesced_txg = 0 /\ Closing
        BY <3>1, OpenPositive DEF Flight, Closing, TypeOK, TxgsTypeOK
      <4>2. quiescing = {tx_open_txg - 1} /\ quiesced = {}
        BY <4>1 DEF TypeOK, TxgsTypeOK
      <4> QED
        BY <4>1, <4>2, Zenon
    <3>2. CASE quiesce_pc \notin {"drain", "handoff"} /\ tx_quiesced_txg # 0
      <4>1. quiescing = {} /\ coming = {tx_open_txg - 1}
        BY <3>2, Zenon DEF Flight, Closing, TypeOK, ServiceTypeOK
      <4> QED
        BY <3>2, <4>1, Zenon DEF Flight
    <3>3. CASE ~Closing
      <4>1. quiescing = {} /\ coming = {} /\ tx_quiesced_txg = 0
        BY <3>3, Zenon DEF Flight, Closing, TypeOK, ServiceTypeOK
      <4> QED
        BY <4>1, Zenon
    <3> QED
      BY <3>1, <3>2, <3>3, Zenon DEF Closing
  <2>2. Cardinality(quiescing \cup quiesced) <= 1
    <3>1. coming = {} \/ coming = {tx_open_txg - 1}
      BY Zenon
    <3>2. Cardinality(coming) \in {0, 1}
      BY <3>1, FS_EmptySet, FS_Singleton, Zenon
    <3> QED
      BY <2>1, <3>2
  <2>3. tx_open_txg - Oldest < TXG_CONCURRENT_STATES
    BY OpenPositive, Zenon
  <2>4. syncing \cup coming = Oldest..(tx_open_txg - 1)
    <3>1. CASE tx_syncing_txg # 0
      <4>1. syncing = {Oldest}
        BY <3>1, Zenon DEF Flight
      <4> QED
        BY <3>1, <4>1, OpenPositive DEF Flight, TypeOK, TxgsTypeOK
    <3>2. CASE tx_syncing_txg = 0
      <4>1. syncing = {}
        BY <3>2, Zenon
      <4>2. CASE Closing
        <5>1. Oldest = tx_open_txg - 1 /\ Oldest \in Nat
          BY <3>2, <4>2, OpenPositive DEF Flight, TypeOK, TxgsTypeOK
        <5>2. coming = {Oldest}
          BY <4>2, <5>1, Zenon
        <5>3. Oldest..Oldest = {Oldest}
          BY <5>1
        <5> QED
          BY <4>1, <5>1, <5>2, <5>3, Zenon
      <4>3. CASE ~Closing
        BY <3>2, <4>1, <4>3, OpenPositive DEF Flight, TypeOK, TxgsTypeOK
      <4> QED
        BY <4>2, <4>3, Zenon
    <3> QED
      BY <3>1, <3>2, Zenon
  <2>5. \A s \in syncing, q \in coming : s < q
    BY OpenPositive DEF Flight, TypeOK, TxgsTypeOK
  <2>6. syncing \cup quiesced \cup quiescing = syncing \cup coming
    BY <2>1, Zenon
  <2>7. \A s \in syncing, q \in quiesced \cup quiescing : s < q
    BY <2>1, <2>5, Zenon
  <2> QED
    BY <2>2, <2>3, <2>4, <2>6, <2>7, Zenon DEF PipelineOrder
<1> QED
  BY <1>1, Invariance, PTL

\* No transaction holds a txg that has been handed to the sync thread.
THEOREM NoHolderSyncing == Spec => []HoldersNotSyncing
<1>1. IInv => HoldersNotSyncing
  BY Zenon DEF IInv
<1> QED
  BY <1>1, Invariance, PTL

\* The txg that txg_hold_open() returned stays open until
\* txg_rele_to_quiesce().
THEOREM HoldKeepsOpen == Spec => []StaysOpen
<1>1. IInv => StaysOpen
  BY Zenon DEF IInv
<1> QED
  BY <1>1, Invariance, PTL

\* No commit callback is left in a slot that will not be looked at.
THEOREM NoCallbackLost == Spec => []CallbacksNotLost
<1>1. IInv => CallbacksNotLost
  BY Zenon DEF IInv, Callbacks, CallbacksNotLost
<1> QED
  BY <1>1, Invariance, PTL

\* No commit callback is dispatched before its txg is synced: the slots of the
\* txgs in flight are different, so emptying one touches no other txg.
THEOREM NoCallbackEarly == Spec => CallbacksNotEarly
<1> DEFINE Early == \A c \in Cpus, g \in Slots :
               \A txg \in tc_callbacks[c][g] \ tc_callbacks'[c][g] :
                   txg <= tx_synced_txg'
<1>1. IInv /\ [Next]_vars => [Early]_vars
  <2> SUFFICES ASSUME IInv, [Next]_vars, NEW c \in Cpus, NEW g \in Slots,
                      NEW txg \in tc_callbacks[c][g] \ tc_callbacks'[c][g]
               PROVE  txg <= tx_synced_txg'
    BY Zenon
  <2> USE DEF IInv
  <2>1. CASE \E late \in BOOLEAN : SyncEnd(late)
    <3>1. g = Slot(tx_syncing_txg) /\ tx_synced_txg' = tx_syncing_txg
      BY <2>1 DEF SyncEnd, Dispatched, TypeOK, PercpuTypeOK
    <3>2. /\ txg \in Nat /\ Slot(txg) = g
          /\ Oldest <= txg /\ txg <= tx_open_txg
      BY DEF Callbacks, TypeOK, PercpuTypeOK
    <3>3. tx_syncing_txg \in Nat /\ tx_syncing_txg = Oldest
      BY <2>1, Zenon DEF SyncEnd, Flight, TypeOK, TxgsTypeOK
    <3>4. tx_syncing_txg <= txg
          /\ txg - tx_syncing_txg < TXG_CONCURRENT_STATES
      <4>1. /\ tx_open_txg \in Nat /\ Oldest \in Nat
            /\ tx_open_txg - Oldest < TXG_CONCURRENT_STATES
        BY OpenPositive, Zenon DEF TypeOK, TxgsTypeOK
      <4> HIDE DEF IInv
      <4>2. txg - Oldest < TXG_CONCURRENT_STATES
        BY <3>2, <4>1, WithinFlight, Zenon
      <4> QED
        BY <3>2, <3>3, <4>2, Zenon
    <3> HIDE DEF IInv
    <3>5. txg = tx_syncing_txg
      BY <3>1, <3>2, <3>3, <3>4, SlotInjective, Zenon
    <3>6. txg <= txg
      BY <3>2
    <3> QED
      BY <3>1, <3>5, <3>6, Zenon
  <2>2. CASE \E t \in Txers : RegisterCallbacks(t)
    <3> PICK t \in Txers : RegisterCallbacks(t)
      BY <2>2, Zenon
    <3>1. th_cpu[t] \in Cpus /\ Slot(th_txg[t]) \in Slots
      BY SlotType, Zenon
         DEF RegisterCallbacks, Handles, TypeOK, UsersTypeOK, Threads
    <3>2. tc_callbacks[c][g] \subseteq tc_callbacks'[c][g]
      BY <3>1, Zenon DEF RegisterCallbacks, TypeOK, PercpuTypeOK
    <3> QED
      BY <3>2, Zenon
  <2>3. CASE UNCHANGED tc_callbacks
    BY <2>3, Zenon
  <2> QED
    BY <2>1, <2>2, <2>3, Zenon
      DEF Next, SyncThread, QuiesceThread, Transaction,
          Waiter, SyncWaitMore, SyncContinue, SyncWaitQuiesce, SyncExit,
          SyncBegin, SyncTimeout, QuiesceWait, QuiesceExit, QuiesceBegin,
          QuiesceLockCpu, QuiesceAdvance, QuiesceDrained, QuiesceHandoff,
          HoldOpen, Delay, DelayOver, ReleToQuiesce, ReleToSync,
          WaitSyncedCall, Kick, WaitSyncedEnter, WaitSyncedLoop,
          WaitSyncedSignal, WaitOpenEnter, WaitOpenLoop, StopCall,
          StopExiting, StopDone, Stopped, Suspend, WaitKick, Resume, vars,
          pipeline, requests, percpu, service, users, spa, ending
<1> QED
  BY <1>1, Invariance, PTL DEF Spec, CallbacksNotEarly

\* txg_sync_stop() stops the threads only when nothing is left to sync.
THEOREM StopIsClean == Spec => []StopFlushes
<1>1. IInv => StopFlushes
  BY Zenon DEF IInv, Stopping, StopFlushes, Handles, Waiting, HoldsOpenLock
<1> QED
  BY <1>1, Invariance, PTL

=============================================================================
