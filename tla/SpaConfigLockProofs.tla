------------------------ MODULE SpaConfigLockProofs -------------------------
(***************************************************************************)
(* The safety properties of SpaConfigLock, proved for any number of locks  *)
(* and any finite set of threads.                                          *)
(***************************************************************************)
EXTENDS SpaConfigLockReaders, SpaConfigLockWriters

\* spa_config_lock_init() establishes the invariant.
LEMMA InvInit == Init => IInv
<1> SUFFICES ASSUME Init
             PROVE  IInv
  OBVIOUS
<1> USE DEF Init
<1>1. Types
  BY DEF Types
<1>2. \A t \in Threads : Args(t) /\ Mutex(t) /\ TakeAlone(t)
  BY DEF Args, Mutex, TakeAlone, Taking, Guarding
<1>3. WriterHolds /\ WriterAlone /\ SleepersWillBeWoken
  BY DEF WriterHolds, WriterAlone, SleepersWillBeWoken, Threads
<1>4. CountIsExact
  <2>1. \A i \in Locks : Holders(i) = {} /\ Transient(i) = {} /\ Wanting(i) = {}
    BY DEF Holders, Transient, Wanting, Threads
  <2>2. \A i \in Locks : Cardinality(Holders(i)) = 0 /\ Cardinality(Transient(i)) = 0
                         /\ Cardinality(Wanting(i)) = 0
    BY <2>1, FS_EmptySet, SMTT(30)
  <2>3. \A i \in Locks : refs[i] = 0 /\ scl_write_wanted[i] = 0 /\ writer_bit[i] = FALSE
    OBVIOUS
  <2>4. \A i \in Locks : (Wanting(i) # {}) = FALSE
    BY <2>1
  <2> HIDE DEF Init
  <2>5. ASSUME NEW i \in Locks
        PROVE  /\ refs[i] = Cardinality(Holders(i)) + Cardinality(Transient(i))
               /\ scl_write_wanted[i] = Cardinality(Wanting(i))
    BY <2>2, <2>3
  <2>6. ASSUME NEW i \in Locks
        PROVE  writer_bit[i] = (Wanting(i) # {})
    BY <2>3, <2>4, Zenon
  <2> QED
    BY <2>5, <2>6, Zenon DEF CountIsExact
<1> QED
  BY <1>1, <1>2, <1>3, <1>4 DEF IInv

\* IInv is inductive.
LEMMA InvStep == IInv /\ [Next]_vars => IInv'
<1> SUFFICES ASSUME IInv, [Next]_vars
             PROVE  IInv'
  OBVIOUS
<1>1. CASE UNCHANGED vars
  <2> USE <1>1 DEF vars
  <2>1. \A t \in Threads : At(t)' = At(t)
    BY DEF At
  <2>2. \A i : Holders(i)' = Holders(i) /\ Transient(i)' = Transient(i)
               /\ Wanting(i)' = Wanting(i)
    BY <2>1 DEF Holders, Transient, Wanting, Threads
  <2>3. Types' /\ WriterHolds'
    BY DEF IInv, Types, WriterHolds
  <2>4. \A t \in Threads : Args(t)' /\ Mutex(t)' /\ TakeAlone(t)'
    <3> SUFFICES ASSUME NEW t \in Threads
                 PROVE  Args(t)' /\ Mutex(t)' /\ TakeAlone(t)'
      OBVIOUS
    <3>1. Args(t)' /\ Mutex(t)'
      BY <2>1 DEF IInv, Args, Mutex
    <3>2. Holders(At(t))' = Holders(At(t))
      BY <2>1 DEF Holders
    <3>3. TakeAlone(t)'
      BY <3>2 DEF IInv, TakeAlone
    <3> QED
      BY <3>1, <3>3
  <2>5. WriterAlone'
    BY <2>2 DEF IInv, WriterAlone
  <2>6. CountIsExact'
    BY <2>2 DEF IInv, CountIsExact
  <2>7. SleepersWillBeWoken'
    BY <2>1 DEF IInv, SleepersWillBeWoken
  <2> QED
    BY <2>3, <2>4, <2>5, <2>6, <2>7 DEF IInv
<1>2. CASE Next
  <2>1. PICK t \in Threads :
            \/ \E is \in SUBSET Locks, fn \in {"enter", "priority", "try"} : Call(t, is, fn)
            \/ \E is \in SUBSET Locks : Exit(t, is)
            \/ Atomic(t)
            \/ Section(t)
    BY <1>2 DEF Next
  <2>2. CASE \/ \E is \in SUBSET Locks, fn \in {"enter", "priority", "try"} : Call(t, is, fn)
             \/ \E is \in SUBSET Locks : Exit(t, is)
    BY <2>2, CallOK, StepKeeps
  <2>3. CASE Atomic(t)
    BY <2>3, StepKeeps, ReadFastOK, BackoffOK, UnwindOK, ExitReadOK, WriteTakeOK,
       ExitWriteOpenOK DEF Atomic
  <2>4. CASE Section(t)
    BY <2>4, StepKeeps, SignalOK, ReadLockedOK, WriteWantOK, WriteDrainOK, WriteTryOK,
       ExitSignalOK, ExitWriteOK DEF Section
  <2> QED
    BY <2>1, <2>2, <2>3, <2>4
<1> QED
  BY <1>1, <1>2

\* Every reachable state satisfies the invariant.
THEOREM Invariance == Spec => []IInv
  BY InvInit, InvStep, PTL DEF Spec

\* The types, and the bounds of the counts: scl_count never exceeds the number of
\* threads, so that a reference does not run into SCL_COUNT_WRITER.
LEMMA InvImpliesTypeOK == IInv => TypeOK
<1> SUFFICES ASSUME IInv
             PROVE  TypeOK
  OBVIOUS
<1>1. Types /\ CountIsExact /\ \A t \in Threads : Args(t)
  BY DEF IInv
<1>2. ASSUME NEW i \in Locks
      PROVE  refs[i] \in 0..Cardinality(Threads)
  <2>1. IsFiniteSet(Holders(i)) /\ IsFiniteSet(Transient(i))
    BY CountedFinite
  <2>2. Holders(i) \cap Transient(i) = {}
    <3> SUFFICES ASSUME NEW t \in Threads, i \in held[t], pc[t] = "backoff", At(t) = i
                 PROVE  FALSE
      BY DEF Holders, Transient
    <3>1. i \in todo[t] /\ todo[t] \cap held[t] = {}
      BY <1>1, AtInTodo DEF Args, Taking
    <3> QED
      BY <3>1
  <2>3. Cardinality(Holders(i) \cap Transient(i)) = 0
    BY <2>2, FS_EmptySet
  <2>4. Cardinality(Holders(i) \cup Transient(i)) =
            Cardinality(Holders(i)) + Cardinality(Transient(i))
    <3>1. Cardinality(Holders(i)) \in Nat /\ Cardinality(Transient(i)) \in Nat
      BY <2>1, FS_CardinalityType
    <3>2. Cardinality(Holders(i) \cup Transient(i)) =
              Cardinality(Holders(i)) + Cardinality(Transient(i))
                  - Cardinality(Holders(i) \cap Transient(i))
      BY <2>1, FS_Union
    <3> QED
      BY <2>3, <3>1, <3>2
  <2>5. Holders(i) \cup Transient(i) \in SUBSET Threads
    BY DEF Holders, Transient
  <2>6. Cardinality(Holders(i) \cup Transient(i)) <= Cardinality(Threads)
    BY <2>5, FS_Subset, SpaConfigAssumption
  <2>7. refs[i] \in Nat /\ Cardinality(Threads) \in Nat
    BY <1>1, CountsAreNat, FS_CardinalityType, SpaConfigAssumption
  <2> QED
    BY <1>1, <2>4, <2>6, <2>7 DEF CountIsExact
<1>3. ASSUME NEW i \in Locks
      PROVE  scl_write_wanted[i] \in 0..Cardinality(Writers)
  <2>1. IsFiniteSet(Writers)
    BY FS_Subset, SpaConfigAssumption DEF Threads
  <2>2. Cardinality(Wanting(i)) <= Cardinality(Writers)
    BY <2>1, FS_Subset DEF Wanting
  <2>3. scl_write_wanted[i] \in Nat /\ Cardinality(Writers) \in Nat
    BY <1>1, <2>1, CountsAreNat, FS_CardinalityType
  <2> QED
    BY <1>1, <2>2, <2>3 DEF CountIsExact
<1>4. refs \in [Locks -> 0..Cardinality(Threads)]
  BY <1>1, <1>2 DEF Types
<1>5. scl_write_wanted \in [Locks -> 0..Cardinality(Writers)]
  BY <1>1, <1>3 DEF Types
<1>6. pc \in [Threads -> {"idle", "enter", "backoff", "signal", "lock", "sleep",
                          "woken", "drain", "take", "unwind", "exit",
                          "exit_signal", "exit_write"}]
  BY <1>1 DEF Types, Taking, Leaving
<1> QED
  BY <1>1, <1>4, <1>5, <1>6 DEF TypeOK, Types

\* Whoever holds a configuration lock for writing holds it alone, whatever
\* spa_config_enter() and spa_config_tryenter() of other threads are in the middle of.
THEOREM WritersAreAlone == Spec => []WriterAlone
<1>1. IInv => WriterAlone
  BY DEF IInv
<1> QED
  BY <1>1, Invariance, PTL

\* scl_count and scl_write_wanted count the threads that hold, try and want the lock,
\* although the fast path of readers changes scl_count without scl_lock.
THEOREM CountsAreExact == Spec => []CountIsExact
<1>1. IInv => CountIsExact
  BY DEF IInv
<1> QED
  BY <1>1, Invariance, PTL

\* spa_config_exit() and a reader that backs off lose no wakeup.
THEOREM NoWakeupLost == Spec => []SleepersWillBeWoken
<1>1. IInv => SleepersWillBeWoken
  BY DEF IInv
<1> QED
  BY <1>1, Invariance, PTL

\* The variables keep their types, and the counts their bounds.
THEOREM TypesHold == Spec => []TypeOK
  BY InvImpliesTypeOK, Invariance, PTL

=============================================================================
