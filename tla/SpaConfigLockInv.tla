-------------------------- MODULE SpaConfigLockInv --------------------------
(***************************************************************************)
(* The inductive invariant of SpaConfigLock, and what a step has to        *)
(* respect to preserve it.                                                 *)
(***************************************************************************)
EXTENDS SpaConfigLock, FiniteSetTheorems, WellFoundedInduction, TLAPS

-----------------------------------------------------------------------------
(* The inductive invariant.                                                *)

\* The steps of a thread that takes locks, and of one that drops them.
Taking == {"enter", "backoff", "signal", "lock", "sleep", "woken", "drain", "take"}
Leaving == {"exit", "exit_signal", "exit_write"}

\* Between two steps that it takes with scl_lock held.
Guarding == {"drain", "take", "exit_write"}

\* The reference count may be 0, and this thread is about to tell the writers.
Signalling == {"signal", "exit_signal", "exit_write"}

\* The variables keep their types; the counts are bounded by CountIsExact.
Types ==
    /\ scl_lock \in [Locks -> Threads \cup {None}]
    /\ scl_writer \in [Locks -> Writers \cup {None}]
    /\ scl_write_wanted \in [Locks -> Int]
    /\ refs \in [Locks -> Int]
    /\ writer_bit \in [Locks -> BOOLEAN]
    /\ pc \in [Threads -> Taking \cup Leaving \cup {"idle", "unwind"}]
    /\ call \in [Threads -> {"enter", "priority", "try"}]
    /\ todo \in [Threads -> SUBSET Locks]
    /\ asked \in [Threads -> SUBSET Locks]
    /\ held \in [Threads -> SUBSET Locks]

\* What a thread still has to take it does not hold; what it has taken of the locks
\* it tried for, and what it still has to drop, it does.
Args(t) ==
    /\ pc[t] # "idle" => todo[t] # {}
    /\ pc[t] \in Taking => todo[t] \cap held[t] = {}
    /\ pc[t] \in Taking \cup {"unwind"} => asked[t] \ todo[t] \subseteq held[t]
    /\ pc[t] = "exit" => todo[t] \subseteq held[t]
    /\ pc[t] \in {"exit_signal", "exit_write"} =>
           todo[t] \ {At(t)} \subseteq held[t] /\ At(t) \notin held[t]
    /\ pc[t] \in {"backoff", "signal", "lock"} => t \in Readers
    /\ pc[t] \in Guarding => t \in Writers

\* scl_lock is held from one step of a section to the next.
Mutex(t) == pc[t] \in Guarding => scl_lock[At(t)] = t

\* A writer that saw no references is alone, although readers may come and back off.
TakeAlone(t) == pc[t] = "take" => Holders(At(t)) = {}

\* scl_writer names a thread that holds the lock.
WriterHolds == \A i \in Locks : scl_writer[i] # None => i \in held[scl_writer[i]]

IInv ==
    /\ Types
    /\ \A t \in Threads : Args(t) /\ Mutex(t) /\ TakeAlone(t)
    /\ WriterHolds /\ WriterAlone /\ CountIsExact /\ SleepersWillBeWoken

-----------------------------------------------------------------------------
(* What a step of thread t may do to the others.                           *)

One(b) == IF b THEN 1 ELSE 0

\* Whether a thread is one of Holders(j), Transient(j) and Wanting(j).
IsHolder(t, j) == j \in held[t]
IsTransient(t, j) == pc[t] = "backoff" /\ At(t) = j
IsWanting(t, j) ==
    /\ t \in Writers
    /\ \/ j \in held[t]
       \/ pc[t] \in {"drain", "take", "sleep", "woken"} /\ At(t) = j
       \/ pc[t] = "exit_write" /\ At(t) = j

\* It wakes them, and leaves a mutex that another one holds alone.
Others(t) ==
    /\ \A u \in Threads \ {t} :
           /\ todo'[u] = todo[u] /\ asked'[u] = asked[u] /\ held'[u] = held[u]
           /\ pc'[u] = pc[u] \/ (pc[u] = "sleep" /\ pc'[u] = "woken")
    /\ \A j \in Locks : scl_lock'[j] = scl_lock[j] \/ scl_lock[j] \in {None, t}

\* It gets a lock only where no writer is, or is about to be.
Gains(t) ==
    /\ \A j \in Locks : j \in held'[t] /\ j \notin held[t] =>
           /\ ~writer_bit[j] \/ scl_lock[j] \in {None, t}
           /\ \A u \in Writers : j \notin held[u]
           /\ t \in Writers => Holders(j) = {} /\ scl_writer'[j] = t
    /\ pc'[t] = "take" => Holders(At(t)') = {} /\ held'[t] = held[t]

\* It makes itself the writer of a lock it gets, and no longer of one it drops.
WriterStep(t) ==
    \A j \in Locks :
        /\ \/ scl_writer'[j] = scl_writer[j]
           \/ scl_writer'[j] = t /\ t \in Writers /\ j \in held'[t] /\ j \notin held[t]
           \/ scl_writer'[j] = None /\ scl_writer[j] = t /\ j \notin held'[t]
        /\ j \in held[t] /\ j \notin held'[t] => scl_writer'[j] # t

\* It keeps the books on itself.
CountStep(t) ==
    \A j \in Locks :
        /\ refs'[j] - refs[j] =
               (One(IsHolder(t, j))' - One(IsHolder(t, j)))
                   + (One(IsTransient(t, j))' - One(IsTransient(t, j)))
        /\ scl_write_wanted'[j] - scl_write_wanted[j] =
               One(IsWanting(t, j))' - One(IsWanting(t, j))
        /\ \/ writer_bit'[j] = writer_bit[j]
              /\ scl_write_wanted'[j] = scl_write_wanted[j]
           \/ writer_bit'[j] = (scl_write_wanted'[j] > 0)

\* It goes to signal when it takes the last reference, tells all who sleep when it
\* has signalled, and sleeps itself only when somebody will tell it.
SleepStep(t) ==
    /\ \A j \in Locks : refs[j] > 0 /\ refs'[j] <= 0 /\ writer_bit[j] =>
           pc'[t] \in Signalling /\ At(t)' = j
    /\ pc[t] \in Signalling =>
           \/ pc'[t] \in Signalling /\ At(t)' = At(t)
           \/ \A u \in Threads \ {t} : pc'[u] = "sleep" => At(u) # At(t)
    /\ \A j \in Locks : scl_write_wanted'[j] < scl_write_wanted[j] =>
           \A u \in Threads \ {t} : pc'[u] = "sleep" => At(u) # j
    /\ pc'[t] = "sleep" =>
           IF t \in Writers THEN refs'[At(t)'] > 0
                            ELSE scl_write_wanted'[At(t)'] > 0

StepOK(t) ==
    /\ Types' /\ Args(t)' /\ Mutex(t)'
    /\ Others(t) /\ Gains(t) /\ WriterStep(t) /\ CountStep(t) /\ SleepStep(t)

-----------------------------------------------------------------------------
(* The lock at which a thread is.                                          *)

\* A set of locks that is not empty has a least and a greatest one.
LEMMA MinMaxOfLocks ==
    ASSUME NEW S \in SUBSET Locks, S # {}
    PROVE  /\ Min(S) \in S /\ \A j \in S : Min(S) <= j
           /\ Max(S) \in S
<1>1. Locks \subseteq Nat
  BY SpaConfigAssumption DEF Locks
<1> DEFINE R == OpToRel(<, Nat)
<1>2. \A x, y \in Nat : <<y, x>> \in R <=> y < x
  BY DEF OpToRel
<1>3. \A T \in SUBSET Nat : T # {} => \E x \in T : \A y \in T : ~(<<y, x>> \in R)
  BY NatLessThanWellFounded, WFMin, Zenon
<1> HIDE DEF R
<1>4. \E x \in S : \A y \in S : x <= y
  <2>1. PICK x \in S : \A y \in S : ~(<<y, x>> \in R)
    BY <1>1, <1>3
  <2>2. ASSUME NEW y \in S
        PROVE  x <= y
    <3>1. x \in Nat /\ y \in Nat
      BY <1>1
    <3>2. ~(y < x)
      BY <1>2, <2>1, <3>1, Zenon
    <3> QED
      BY <3>1, <3>2
  <2> QED
    BY <2>2
<1>5. \E x \in S : \A y \in S : x >= y
  <2> DEFINE T == {j \in Nat : j < SCL_LOCKS /\ (SCL_LOCKS - 1) - j \in S}
  <2>1. T # {}
    <3>1. PICK s \in S : TRUE
      OBVIOUS
    <3>2. (SCL_LOCKS - 1) - s \in T
      BY SpaConfigAssumption DEF Locks
    <3> QED
      BY <3>2
  <2>2. PICK x \in T : \A y \in T : ~(<<y, x>> \in R)
    BY <1>3, <2>1, Zenon
  <2>3. ASSUME NEW s \in S
        PROVE  (SCL_LOCKS - 1) - x >= s
    <3>1. (SCL_LOCKS - 1) - s \in T /\ s \in Nat
      BY SpaConfigAssumption DEF Locks
    <3>2. ~((SCL_LOCKS - 1) - s < x)
      BY <1>2, <2>2, <3>1, Zenon
    <3> QED
      BY <3>1, <3>2, SpaConfigAssumption
  <2> QED
    BY <2>2, <2>3
<1>6. Min(S) \in S /\ \A j \in S : Min(S) <= j
  BY <1>4 DEF Min
<1>7. Max(S) \in S
  BY <1>5 DEF Max
<1> QED
  BY <1>6, <1>7

\* The lock is one of those still to be taken or dropped.
LEMMA AtInTodo ==
    ASSUME Types, NEW t \in Threads, todo[t] # {}
    PROVE  At(t) \in todo[t] /\ At(t) \in Locks
  BY MinMaxOfLocks DEF Types, At

\* It stays the same as long as nothing is taken or dropped.
LEMMA AtSame ==
    ASSUME NEW t \in Threads, todo'[t] = todo[t],
           pc'[t] \in Leaving <=> pc[t] \in Leaving
    PROVE  At(t)' = At(t)
  BY DEF At, Leaving

-----------------------------------------------------------------------------
(* The counts.                                                             *)

\* The cardinality of a set that can only gain or lose t.
LEMMA CardStep ==
    ASSUME NEW S, NEW T, NEW t, IsFiniteSet(S),
           \A u : u # t => (u \in S <=> u \in T)
    PROVE  /\ IsFiniteSet(T)
           /\ Cardinality(T) = Cardinality(S) + (One(t \in T) - One(t \in S))
<1>1. Cardinality(S) \in Nat
  BY FS_CardinalityType
<1>2. CASE t \in S /\ t \notin T
  <2>1. T = S \ {t}
    BY <1>2
  <2> QED
    BY <1>1, <1>2, <2>1, FS_RemoveElement DEF One
<1>3. CASE t \notin S /\ t \in T
  <2>1. T = S \cup {t}
    BY <1>3
  <2> QED
    BY <1>1, <1>3, <2>1, FS_AddElement DEF One
<1>4. CASE t \in S <=> t \in T
  <2>1. T = S
    BY <1>4
  <2> QED
    BY <1>1, <2>1 DEF One
<1> QED
  BY <1>2, <1>3, <1>4

\* The sets that are counted are finite.
LEMMA CountedFinite ==
    ASSUME NEW i \in Locks
    PROVE  IsFiniteSet(Holders(i)) /\ IsFiniteSet(Transient(i)) /\ IsFiniteSet(Wanting(i))
<1>1. /\ Holders(i) \in SUBSET Threads /\ Transient(i) \in SUBSET Threads
      /\ Wanting(i) \in SUBSET Threads
  BY DEF Holders, Transient, Wanting, Threads
<1> QED
  BY <1>1, FS_Subset, SpaConfigAssumption

\* The counts are natural numbers, and 0 where nobody is counted.
LEMMA CountsAreNat ==
    ASSUME CountIsExact, NEW i \in Locks
    PROVE  /\ refs[i] \in Nat /\ scl_write_wanted[i] \in Nat
           /\ refs[i] = 0 => Holders(i) = {}
           /\ scl_write_wanted[i] = 0 <=> Wanting(i) = {}
<1>1. /\ Cardinality(Holders(i)) \in Nat /\ Cardinality(Transient(i)) \in Nat
      /\ Cardinality(Wanting(i)) \in Nat
  BY CountedFinite, FS_CardinalityType
<1>2. /\ refs[i] = Cardinality(Holders(i)) + Cardinality(Transient(i))
      /\ scl_write_wanted[i] = Cardinality(Wanting(i))
  BY DEF CountIsExact
<1>3. /\ Cardinality(Holders(i)) = 0 => Holders(i) = {}
      /\ Cardinality(Wanting(i)) = 0 <=> Wanting(i) = {}
  BY CountedFinite, FS_EmptySet
<1> QED
  BY <1>1, <1>2, <1>3

-----------------------------------------------------------------------------
(* A step that does no more than StepOK says preserves the invariant.      *)

\* What the other threads are at.
LEMMA OthersAt ==
    ASSUME NEW t \in Threads, Others(t), NEW u \in Threads, u # t
    PROVE  /\ At(u)' = At(u)
           /\ \A j : /\ IsHolder(u, j)' <=> IsHolder(u, j)
                     /\ IsTransient(u, j)' <=> IsTransient(u, j)
                     /\ IsWanting(u, j)' <=> IsWanting(u, j)
<1>1. /\ todo'[u] = todo[u] /\ held'[u] = held[u]
      /\ pc'[u] = pc[u] \/ (pc[u] = "sleep" /\ pc'[u] = "woken")
  BY DEF Others
<1>2. At(u)' = At(u)
  BY <1>1, AtSame DEF Leaving
<1> QED
  BY <1>1, <1>2 DEF IsHolder, IsTransient, IsWanting

\* The counts stay exact.
LEMMA CountKeeps ==
    ASSUME IInv, NEW t \in Threads, StepOK(t)
    PROVE  CountIsExact'
<1> SUFFICES ASSUME NEW i \in Locks
             PROVE  /\ refs'[i] = Cardinality(Holders(i)') + Cardinality(Transient(i)')
                    /\ scl_write_wanted'[i] = Cardinality(Wanting(i)')
                    /\ writer_bit'[i] = (Wanting(i)' # {})
  BY DEF CountIsExact
<1>1. /\ refs[i] \in Int /\ scl_write_wanted[i] \in Int
      /\ refs'[i] \in Int /\ scl_write_wanted'[i] \in Int
  BY DEF IInv, StepOK, Types
<1>2. Others(t) /\ CountStep(t)
  BY DEF StepOK
<1>3. /\ \A u \in Threads : u \in Holders(i) <=> IsHolder(u, i)
      /\ \A u \in Threads : u \in Transient(i) <=> IsTransient(u, i)
      /\ \A u \in Threads : u \in Wanting(i) <=> IsWanting(u, i)
      /\ Holders(i) \subseteq Threads /\ Transient(i) \subseteq Threads
      /\ Wanting(i) \subseteq Threads
  BY DEF Holders, Transient, Wanting, IsHolder, IsTransient, IsWanting, Threads
<1>4. /\ \A u \in Threads : u \in Holders(i)' <=> IsHolder(u, i)'
      /\ \A u \in Threads : u \in Transient(i)' <=> IsTransient(u, i)'
      /\ \A u \in Threads : u \in Wanting(i)' <=> IsWanting(u, i)'
      /\ Holders(i)' \subseteq Threads /\ Transient(i)' \subseteq Threads
      /\ Wanting(i)' \subseteq Threads
  BY DEF Holders, Transient, Wanting, IsHolder, IsTransient, IsWanting, Threads
<1>5. /\ \A u : u # t => (u \in Holders(i) <=> u \in Holders(i)')
      /\ \A u : u # t => (u \in Transient(i) <=> u \in Transient(i)')
      /\ \A u : u # t => (u \in Wanting(i) <=> u \in Wanting(i)')
  BY <1>2, <1>3, <1>4, OthersAt
<1> DEFINE dh == One(t \in Holders(i)') - One(t \in Holders(i))
           dt == One(t \in Transient(i)') - One(t \in Transient(i))
           dw == One(t \in Wanting(i)') - One(t \in Wanting(i))
<1>6. Cardinality(Holders(i)') = Cardinality(Holders(i)) + dh
  BY <1>5, CountedFinite, CardStep
<1>7. Cardinality(Transient(i)') = Cardinality(Transient(i)) + dt
  BY <1>5, CountedFinite, CardStep
<1>8. /\ IsFiniteSet(Wanting(i)')
      /\ Cardinality(Wanting(i)') = Cardinality(Wanting(i)) + dw
  BY <1>5, CountedFinite, CardStep
<1>9. /\ Cardinality(Holders(i)) \in Nat /\ Cardinality(Transient(i)) \in Nat
      /\ Cardinality(Wanting(i)) \in Nat /\ Cardinality(Wanting(i)') \in Nat
  BY <1>8, CountedFinite, FS_CardinalityType
<1>10. /\ refs[i] = Cardinality(Holders(i)) + Cardinality(Transient(i))
       /\ scl_write_wanted[i] = Cardinality(Wanting(i))
       /\ writer_bit[i] = (Wanting(i) # {})
  BY DEF IInv, CountIsExact
<1>11. /\ refs'[i] - refs[i] = dh + dt
       /\ scl_write_wanted'[i] - scl_write_wanted[i] = dw
  BY <1>2, <1>3, <1>4 DEF CountStep, One
<1>12. dh \in Int /\ dt \in Int /\ dw \in Int
  BY DEF One
<1> HIDE DEF dh, dt, dw
<1>13. refs'[i] = Cardinality(Holders(i)') + Cardinality(Transient(i)')
  <2>1. refs'[i] = refs[i] + (dh + dt)
    BY <1>1, <1>11, <1>12
  <2> QED
    BY <1>6, <1>7, <1>9, <1>10, <1>12, <2>1
<1>14. scl_write_wanted'[i] = Cardinality(Wanting(i)')
  <2>1. scl_write_wanted'[i] = scl_write_wanted[i] + dw
    BY <1>1, <1>11, <1>12
  <2> QED
    BY <1>8, <1>10, <2>1
<1>15. writer_bit'[i] = (Wanting(i)' # {})
  <2>1. /\ Cardinality(Wanting(i)') = 0 <=> Wanting(i)' = {}
        /\ Cardinality(Wanting(i)) = 0 <=> Wanting(i) = {}
    BY <1>8, CountedFinite, FS_EmptySet
  <2>2. CASE writer_bit'[i] = writer_bit[i] /\ scl_write_wanted'[i] = scl_write_wanted[i]
    BY <1>10, <1>14, <2>1, <2>2
  <2>3. CASE writer_bit'[i] = (scl_write_wanted'[i] > 0)
    <3>1. scl_write_wanted'[i] > 0 <=> Wanting(i)' # {}
      BY <1>9, <1>14, <2>1
    <3> QED
      BY <2>3, <3>1
  <2> QED
    BY <1>2, <2>2, <2>3 DEF CountStep
<1> QED
  BY <1>13, <1>14, <1>15

\* A writer stays alone.
LEMMA AloneKeeps ==
    ASSUME IInv, NEW t \in Threads, StepOK(t)
    PROVE  WriterHolds' /\ WriterAlone' /\ \A u \in Threads : TakeAlone(u)'
<1> USE SpaConfigAssumption
<1>1. Others(t) /\ Gains(t) /\ WriterStep(t)
  BY DEF StepOK
<1>2. /\ Types /\ WriterHolds /\ WriterAlone /\ CountIsExact
      /\ \A u \in Threads : Args(u) /\ Mutex(u) /\ TakeAlone(u)
  BY DEF IInv
<1>3. \A u \in Threads, j \in Locks : u # t => (j \in held'[u] <=> j \in held[u])
  BY <1>1 DEF Others
<1>4. WriterHolds'
  BY <1>1, <1>2, <1>3 DEF WriterHolds, WriterStep, Types, Threads
<1>5. WriterAlone'
  <2> SUFFICES ASSUME NEW i \in Locks, NEW u \in Writers, i \in held'[u]
               PROVE  Holders(i)' = {u} /\ scl_writer'[i] = u
    BY DEF WriterAlone
  <2>1. u \in Threads
    BY DEF Threads
  <2>2. CASE u = t /\ i \notin held[t]
    <3>1. Holders(i) = {} /\ scl_writer'[i] = t
      BY <1>1, <2>2 DEF Gains
    <3>2. \A v \in Threads : i \notin held[v]
      BY <3>1 DEF Holders
    <3> QED
      BY <1>3, <2>1, <2>2, <3>1, <3>2 DEF Holders
  <2>3. CASE u = t /\ i \in held[t]
    <3>1. Holders(i) = {t} /\ scl_writer[i] = t
      BY <1>2, <2>3 DEF WriterAlone
    <3>2. \A v \in Threads : i \in held[v] => v = t
      BY <3>1 DEF Holders
    <3>3. scl_writer'[i] = t
      BY <1>1, <2>3, <3>1 DEF WriterStep
    <3> QED
      BY <1>3, <2>1, <2>3, <3>2, <3>3 DEF Holders
  <2>4. CASE u # t
    <3>1. i \in held[u]
      BY <1>3, <2>1, <2>4
    <3>2. Holders(i) = {u} /\ scl_writer[i] = u
      BY <1>2, <3>1 DEF WriterAlone
    <3>3. \A v \in Threads : i \in held[v] => v = u
      BY <3>2 DEF Holders
    <3>4. i \notin held'[t]
      BY <1>1, <2>4, <3>1, <3>3 DEF Gains
    <3>5. scl_writer'[i] = u
      BY <1>1, <2>4, <3>2, <3>4 DEF WriterStep
    <3> QED
      BY <1>3, <2>1, <3>1, <3>3, <3>4, <3>5 DEF Holders
  <2> QED
    BY <2>2, <2>3, <2>4
<1>6. ASSUME NEW u \in Threads, pc'[u] = "take"
      PROVE  Holders(At(u))' = {}
  <2>1. CASE u = t
    <3>1. Holders(At(u)') = {} /\ held'[t] = held[t]
      BY <1>1, <1>6, <2>1 DEF Gains
    <3>2. \A v \in Threads : held'[v] = held[v]
      BY <1>1, <3>1 DEF Others
    <3> QED
      BY <3>1, <3>2 DEF Holders
  <2>2. CASE u # t
    <3> DEFINE j == At(u)
    <3>1. pc[u] = "take" /\ At(u)' = j
      BY <1>1, <1>6, <2>2, OthersAt DEF Others
    <3>2. j \in Locks
      BY <1>2, <3>1, AtInTodo DEF Args
    <3>3. u \in Writers /\ scl_lock[j] = u /\ Holders(j) = {}
      BY <1>2, <3>1 DEF Args, Mutex, TakeAlone, Guarding
    <3>4. u \in Wanting(j)
      BY <3>1, <3>3 DEF Wanting
    <3>5. writer_bit[j]
      BY <1>2, <3>2, <3>4, Zenon DEF CountIsExact
    <3> HIDE DEF j
    <3>6. scl_lock[j] \notin {None, t}
      BY <2>2, <3>3
    <3>7. \A v \in Threads : j \notin held[v]
      BY <3>3 DEF Holders
    <3>8. j \notin held'[t]
      BY <1>1, <3>2, <3>5, <3>6, <3>7 DEF Gains
    <3> QED
      BY <1>3, <3>1, <3>2, <3>7, <3>8 DEF Holders
  <2> QED
    BY <2>1, <2>2
<1> QED
  BY <1>4, <1>5, <1>6 DEF TakeAlone

\* Nobody sleeps for ever.
LEMMA SleepersKeep ==
    ASSUME IInv, NEW t \in Threads, StepOK(t), CountIsExact'
    PROVE  SleepersWillBeWoken'
<1>1. Others(t) /\ SleepStep(t)
  BY DEF StepOK
<1>2. /\ Types /\ CountIsExact /\ SleepersWillBeWoken
      /\ \A u \in Threads : Args(u)
  BY DEF IInv
<1> SUFFICES ASSUME NEW u \in Threads, pc'[u] = "sleep"
             PROVE  IF u \in Writers
                    THEN \/ refs'[At(u)'] > 0
                         \/ \E v \in Threads : pc'[v] \in Signalling /\ At(v)' = At(u)'
                    ELSE scl_write_wanted'[At(u)'] > 0
  BY DEF SleepersWillBeWoken, Signalling
<1>3. CASE u = t
  BY <1>1, <1>3 DEF SleepStep
<1>4. CASE u # t
  <2> DEFINE j == At(u)
  <2>1. pc[u] = "sleep" /\ At(u)' = j
    BY <1>1, <1>4, OthersAt DEF Others
  <2>2. j \in Locks
    BY <1>2, <2>1, AtInTodo DEF Args
  <2>3. CASE u \in Writers
    <3>1. u \in Wanting(j)
      BY <2>1, <2>3 DEF Wanting
    <3>2. writer_bit[j]
      BY <1>2, <2>2, <3>1, Zenon DEF CountIsExact
    <3>3. refs[j] > 0 \/ \E v \in Threads : pc[v] \in Signalling /\ At(v) = j
      BY <1>2, <2>1, <2>3 DEF SleepersWillBeWoken, Signalling
    <3> HIDE DEF j
    <3>4. refs'[j] \in Int
      BY <2>2 DEF StepOK, Types
    <3>5. CASE refs[j] > 0
      BY <1>1, <2>1, <2>2, <2>3, <3>2, <3>4, <3>5 DEF SleepStep
    <3>6. CASE \E v \in Threads : pc[v] \in Signalling /\ At(v) = j
      <4>1. PICK v \in Threads : pc[v] \in Signalling /\ At(v) = j
        BY <3>6
      <4>2. CASE v = t
        <5>1. ~(pc'[u] = "sleep" => At(u) # At(t))
          BY <4>1, <4>2 DEF j
        <5>2. pc'[t] \in Signalling /\ At(t)' = At(t)
          BY <1>1, <1>4, <4>1, <4>2, <5>1 DEF SleepStep
        <5> QED
          BY <2>1, <2>3, <4>1, <4>2, <5>2
      <4>3. CASE v # t
        <5>1. pc'[v] = pc[v]
          BY <1>1, <4>1, <4>3 DEF Others, Signalling
        <5>2. At(v)' = At(v)
          BY <1>1, <4>3, OthersAt
        <5> QED
          BY <2>1, <2>3, <4>1, <5>1, <5>2
      <4> QED
        BY <4>2, <4>3
    <3> QED
      BY <3>3, <3>5, <3>6
  <2>4. CASE u \notin Writers
    <3>1. scl_write_wanted[j] > 0
      BY <1>2, <2>1, <2>4 DEF SleepersWillBeWoken
    <3>2. ~(scl_write_wanted'[j] < scl_write_wanted[j])
      BY <1>1, <1>4, <2>2 DEF SleepStep
    <3>3. scl_write_wanted'[j] \in Int /\ scl_write_wanted[j] \in Int
      BY <1>2, <2>2 DEF StepOK, Types
    <3>4. scl_write_wanted'[j] > 0
      BY <3>1, <3>2, <3>3
    <3> QED
      BY <2>1, <2>4, <3>4
  <2> QED
    BY <2>3, <2>4
<1> QED
  BY <1>3, <1>4

\* The whole invariant.
LEMMA StepKeeps ==
    ASSUME IInv, NEW t \in Threads, StepOK(t)
    PROVE  IInv'
<1> USE SpaConfigAssumption
<1>1. Others(t) /\ Types' /\ Args(t)' /\ Mutex(t)'
  BY DEF StepOK
<1>2. CountIsExact'
  BY CountKeeps
<1>3. WriterHolds' /\ WriterAlone' /\ \A u \in Threads : TakeAlone(u)'
  BY AloneKeeps
<1>4. SleepersWillBeWoken'
  BY <1>2, SleepersKeep
<1>5. ASSUME NEW u \in Threads, u # t
      PROVE  Args(u)' /\ Mutex(u)'
  <2>1. /\ todo'[u] = todo[u] /\ asked'[u] = asked[u] /\ held'[u] = held[u]
        /\ pc'[u] = pc[u] \/ (pc[u] = "sleep" /\ pc'[u] = "woken")
    BY <1>1, <1>5 DEF Others
  <2>2. At(u)' = At(u)
    BY <1>1, <1>5, OthersAt
  <2>3. Types /\ Args(u) /\ Mutex(u)
    BY SMTT(30) DEF IInv
  <2>4. Args(u)'
    BY <2>1, <2>2, <2>3 DEF Args, Taking, Guarding
  <2>5. Mutex(u)'
    <3> SUFFICES ASSUME pc'[u] \in Guarding
                 PROVE  scl_lock'[At(u)] = u
      BY <2>2 DEF Mutex
    <3>1. pc[u] \in Guarding
      BY <2>1 DEF Guarding
    <3>2. At(u) \in Locks
      BY <2>3, <3>1, AtInTodo DEF Args, Guarding
    <3>3. scl_lock[At(u)] = u /\ u # None
      BY <2>3, <3>1 DEF Mutex
    <3> QED
      BY <1>1, <1>5, <3>2, <3>3 DEF Others
  <2> QED
    BY <2>4, <2>5
<1> QED
  BY <1>1, <1>2, <1>3, <1>4, <1>5 DEF IInv

-----------------------------------------------------------------------------
(* What the actions have in common.                                        *)

\* What the invariant says about a thread that is in the middle of a call.
LEMMA InCall ==
    ASSUME IInv, NEW t \in Threads, pc[t] # "idle"
    PROVE  /\ At(t) \in todo[t] /\ At(t) \in Locks
           /\ Types /\ Args(t) /\ Mutex(t)
           /\ refs[At(t)] \in Nat /\ scl_write_wanted[At(t)] \in Nat
<1>1. Types /\ Args(t) /\ Mutex(t) /\ CountIsExact
  BY DEF IInv
<1>2. At(t) \in todo[t] /\ At(t) \in Locks
  BY <1>1, AtInTodo DEF Args
<1> QED
  BY <1>1, <1>2, CountsAreNat

\* A lock without the writer bit, or without a scl_writer, has no writer.
LEMMA NoWriter ==
    ASSUME IInv, NEW i \in Locks, ~writer_bit[i] \/ scl_writer[i] = None,
           NEW u \in Writers
    PROVE  i \notin held[u]
<1> SUFFICES ASSUME i \in held[u]
             PROVE  FALSE
  OBVIOUS
<1>1. u \in Wanting(i)
  BY DEF Wanting
<1>2. writer_bit[i]
  BY <1>1, Zenon DEF IInv, CountIsExact
<1>3. scl_writer[i] = u /\ u # None
  BY SpaConfigAssumption DEF IInv, WriterAlone, Threads
<1> QED
  BY <1>2, <1>3

\* A thread that has got the lock goes on or returns.
LEMMA TookStep ==
    ASSUME IInv, NEW t \in Threads, pc[t] \in Taking, Took(t, At(t))
    PROVE  /\ At(t) \notin held[t]
           /\ \A j : IsHolder(t, j)' <=> (j = At(t) \/ IsHolder(t, j))
           /\ \A j : ~IsTransient(t, j)'
           /\ \A j : IsWanting(t, j)' <=> t \in Writers /\ (j = At(t) \/ j \in held[t])
           /\ Args(t)' /\ pc'[t] \in {"idle", "enter"}
           /\ \A u \in Threads \ {t} :
                  /\ todo'[u] = todo[u] /\ asked'[u] = asked[u] /\ held'[u] = held[u]
                  /\ pc'[u] = pc[u]
           /\ pc' \in [Threads -> Taking \cup Leaving \cup {"idle", "unwind"}]
           /\ call' \in [Threads -> {"enter", "priority", "try"}]
           /\ todo' \in [Threads -> SUBSET Locks]
           /\ asked' \in [Threads -> SUBSET Locks]
           /\ held' \in [Threads -> SUBSET Locks]
<1> DEFINE i == At(t)
<1>1. i \in todo[t] /\ i \in Locks /\ Types /\ Args(t)
  BY InCall DEF Taking
<1> HIDE DEF i
<1>2. /\ held' = [held EXCEPT ![t] = @ \cup {i}]
      /\ todo' = [todo EXCEPT ![t] = @ \ {i}]
      /\ \/ /\ todo[t] = {i}
            /\ pc' = [pc EXCEPT ![t] = "idle"] /\ asked' = [asked EXCEPT ![t] = {}]
            /\ call' = [call EXCEPT ![t] = "enter"]
         \/ /\ todo[t] # {i}
            /\ pc' = [pc EXCEPT ![t] = "enter"] /\ asked' = asked /\ call' = call
  BY DEF Took, Goto, Forget, i
<1>3. i \notin held[t] /\ asked[t] \ todo[t] \subseteq held[t]
  BY <1>1 DEF Args
<1>4. held'[t] = held[t] \cup {i} /\ todo'[t] = todo[t] \ {i}
  BY <1>1, <1>2 DEF Types
<1>5. \/ pc'[t] = "idle"
      \/ pc'[t] = "enter" /\ todo'[t] # {} /\ asked'[t] = asked[t]
  BY <1>1, <1>2, <1>4 DEF Types
<1>6. Args(t)'
  <2>1. CASE pc'[t] = "idle"
    BY <2>1 DEF Args, Taking, Guarding
  <2>2. CASE pc'[t] = "enter" /\ todo'[t] # {} /\ asked'[t] = asked[t]
    <3>1. todo'[t] \cap held'[t] = {}
      BY <1>1, <1>4 DEF Args
    <3>2. asked'[t] \ todo'[t] \subseteq held'[t]
      BY <1>3, <1>4, <2>2
    <3> QED
      BY <2>2, <3>1, <3>2 DEF Args, Taking, Guarding
  <2> QED
    BY <1>5, <2>1, <2>2
<1>7. \A j : /\ IsHolder(t, j)' <=> (j = i \/ IsHolder(t, j))
             /\ ~IsTransient(t, j)'
             /\ IsWanting(t, j)' <=> t \in Writers /\ (j = i \/ j \in held[t])
  BY <1>4, <1>5 DEF IsHolder, IsTransient, IsWanting
<1>8. \A u \in Threads \ {t} :
          /\ todo'[u] = todo[u] /\ asked'[u] = asked[u] /\ held'[u] = held[u]
          /\ pc'[u] = pc[u]
  BY <1>1, <1>2 DEF Types
<1>9. /\ pc' \in [Threads -> Taking \cup Leaving \cup {"idle", "unwind"}]
      /\ call' \in [Threads -> {"enter", "priority", "try"}]
      /\ todo' \in [Threads -> SUBSET Locks]
      /\ asked' \in [Threads -> SUBSET Locks]
      /\ held' \in [Threads -> SUBSET Locks]
  BY <1>1, <1>2 DEF Types, Taking
<1> QED
  BY <1>3, <1>5, <1>6, <1>7, <1>8, <1>9 DEF i

=============================================================================
