------------------------ MODULE SpaConfigLockReaders ------------------------
(***************************************************************************)
(* The calls, and the steps of readers, do no more than StepOK says.       *)
(***************************************************************************)
EXTENDS SpaConfigLockInv

\* The calls.
LEMMA CallOK ==
    ASSUME IInv, NEW t \in Threads, NEW is \in SUBSET Locks,
           \/ \E fn \in {"enter", "priority", "try"} : Call(t, is, fn)
           \/ Exit(t, is)
    PROVE  StepOK(t)
<1>1. /\ pc[t] = "idle" /\ is # {} /\ UNCHANGED <<locks, held>>
      /\ todo' = [todo EXCEPT ![t] = is]
      /\ \/ /\ pc' = [pc EXCEPT ![t] = "enter"]
            /\ \A i \in is, j \in held[t] : j < i
            /\ asked' = [asked EXCEPT ![t] = is] \/ asked' = [asked EXCEPT ![t] = {}]
            /\ \E fn \in {"enter", "priority", "try"} : call' = [call EXCEPT ![t] = fn]
         \/ /\ pc' = [pc EXCEPT ![t] = "exit"]
            /\ is \subseteq held[t] /\ asked' = asked /\ call' = call
  BY DEF Call, Exit, Goto
<1>2. Types
  BY DEF IInv
<1>3. Types'
  BY <1>1, <1>2 DEF Types, locks, Taking, Leaving
<1>4. /\ todo'[t] = is /\ held' = held
      /\ \/ /\ pc'[t] = "enter" /\ is \cap held[t] = {}
            /\ asked'[t] \subseteq is
         \/ pc'[t] = "exit" /\ is \subseteq held[t]
  <2>1. Locks \subseteq Int
    BY SpaConfigAssumption DEF Locks
  <2>2. (\A i \in is, j \in held[t] : j < i) => is \cap held[t] = {}
    <3> SUFFICES ASSUME \A i \in is, j \in held[t] : j < i,
                        NEW x \in is \cap held[t]
                 PROVE  FALSE
      OBVIOUS
    <3>1. x < x /\ x \in Int
      BY <2>1
    <3> QED
      BY <3>1
  <2> QED
    BY <1>1, <1>2, <2>2 DEF Types
<1>5. Args(t)' /\ Mutex(t)'
  BY <1>1, <1>4 DEF Args, Mutex, Taking, Guarding
<1>6. Others(t)
  BY <1>1, <1>2 DEF Others, Types, locks
<1>7. Gains(t) /\ WriterStep(t)
  BY <1>1, <1>4 DEF Gains, WriterStep, locks
<1>8. CountStep(t)
  <2>1. \A j : /\ IsHolder(t, j)' <=> IsHolder(t, j)
               /\ ~IsTransient(t, j)' /\ ~IsTransient(t, j)
               /\ IsWanting(t, j)' <=> IsWanting(t, j)
    BY <1>1, <1>4 DEF IsHolder, IsTransient, IsWanting
  <2> QED
    BY <1>1, <1>2, <2>1 DEF CountStep, One, locks, Types
<1>9. SleepStep(t)
  BY <1>1, <1>2, <1>4 DEF SleepStep, Signalling, locks, Types
<1> QED
  BY <1>3, <1>5, <1>6, <1>7, <1>8, <1>9 DEF StepOK

\* The reference of spa_config_enter() and spa_config_tryenter().
LEMMA ReadFastOK ==
    ASSUME IInv, NEW t \in Threads, ReadFast(t)
    PROVE  StepOK(t)
<1> DEFINE i == At(t)
<1>1. /\ pc[t] = "enter" /\ t \in Readers /\ t \notin Writers
      /\ refs' = [refs EXCEPT ![i] = @ + 1]
      /\ UNCHANGED <<scl_lock, scl_writer, scl_write_wanted, writer_bit>>
  BY SpaConfigAssumption DEF ReadFast
<1>2. /\ i \in todo[t] /\ i \in Locks /\ Types /\ Args(t) /\ refs[i] \in Nat
  BY <1>1, InCall
<1>3. \A j \in Locks : refs'[j] = IF j = i THEN refs[j] + 1 ELSE refs[j]
  BY <1>1, <1>2 DEF Types
<1>4. \A j : ~IsTransient(t, j) /\ ~IsWanting(t, j) /\ ~IsWanting(t, j)'
  BY <1>1 DEF IsTransient, IsWanting
<1>5. CASE writer_bit[i]
  <2>1. pc' = [pc EXCEPT ![t] = "backoff"] /\ UNCHANGED <<todo, call, asked, held>>
    BY <1>5 DEF ReadFast, Goto
  <2>2. pc'[t] = "backoff" /\ At(t)' = i
    BY <1>1, <1>2, <2>1, AtSame DEF Types, Leaving
  <2> HIDE DEF i
  <2>3. Types'
    BY <1>1, <1>2, <2>1 DEF Types, Taking
  <2>4. Args(t)' /\ Mutex(t)'
    BY <1>1, <1>2, <2>1, <2>2 DEF Args, Mutex, Taking, Guarding
  <2>5. Others(t)
    BY <1>1, <1>2, <2>1 DEF Others, Types
  <2>6. Gains(t) /\ WriterStep(t)
    BY <1>1, <2>1, <2>2 DEF Gains, WriterStep
  <2>7. \A j : /\ IsTransient(t, j)' <=> j = i
               /\ IsHolder(t, j)' <=> IsHolder(t, j)
    BY <2>1, <2>2 DEF IsTransient, IsHolder
  <2>8. CountStep(t)
    BY <1>1, <1>2, <1>3, <1>4, <2>7 DEF CountStep, One, Types
  <2>9. SleepStep(t)
    BY <1>1, <1>2, <1>3, <2>2 DEF SleepStep, Signalling, Types
  <2> QED
    BY <2>3, <2>4, <2>5, <2>6, <2>8, <2>9 DEF StepOK
<1>6. CASE ~writer_bit[i]
  <2>1. Took(t, At(t))
    BY <1>6 DEF ReadFast
  <2>2. /\ i \notin held[t] /\ pc'[t] \in {"idle", "enter"}
        /\ \A j : IsHolder(t, j)' <=> (j = i \/ IsHolder(t, j))
        /\ \A j : ~IsTransient(t, j)'
    BY <1>1, <2>1, TookStep DEF Taking
  <2> HIDE DEF i
  <2>3. Types' /\ Args(t)' /\ Mutex(t)'
    BY <1>1, <1>2, <1>3, <2>1, <2>2, TookStep DEF Types, Taking, Mutex, Guarding
  <2>4. Others(t)
    BY <1>1, <2>1, TookStep DEF Others, Taking
  <2>5. \A u \in Writers : i \notin held[u]
    BY <1>2, <1>6, NoWriter
  <2>6. Gains(t) /\ WriterStep(t)
    BY <1>1, <1>6, <2>2, <2>5 DEF Gains, WriterStep, IsHolder
  <2>7. CountStep(t)
    BY <1>1, <1>2, <1>3, <1>4, <2>2 DEF CountStep, One, Types, IsHolder
  <2>8. SleepStep(t)
    BY <1>1, <1>2, <1>3, <2>2 DEF SleepStep, Signalling, Types
  <2> QED
    BY <2>3, <2>4, <2>6, <2>7, <2>8 DEF StepOK
<1> QED
  BY <1>5, <1>6

\* The reference is given back: by a reader that backs off, or that leaves.
LEMMA BackoffOK ==
    ASSUME IInv, NEW t \in Threads, Backoff(t)
    PROVE  StepOK(t)
<1> DEFINE i == At(t)
<1>1. /\ pc[t] = "backoff"
      /\ refs' = [refs EXCEPT ![i] = @ - 1]
      /\ pc' = [pc EXCEPT ![t] = IF LastOut(i) THEN "signal" ELSE Refused(t)]
      /\ UNCHANGED <<scl_lock, scl_writer, scl_write_wanted, writer_bit, todo, call, asked, held>>
  BY DEF Backoff, Goto
<1>2. /\ i \in todo[t] /\ i \in Locks /\ Types /\ Args(t) /\ refs[i] \in Nat
  BY <1>1, InCall
<1>3. /\ pc'[t] = IF LastOut(i) THEN "signal" ELSE Refused(t)
      /\ Refused(t) \in {"unwind", "lock"}
  BY <1>1, <1>2 DEF Types, Refused
<1>4. At(t)' = i
  BY <1>1, <1>3, AtSame DEF Leaving
<1>5. t \in Readers /\ t \notin Writers
  BY <1>1, <1>2, SpaConfigAssumption DEF Args
<1>6. \A j : /\ IsTransient(t, j) <=> j = i
             /\ ~IsTransient(t, j)' /\ ~IsWanting(t, j) /\ ~IsWanting(t, j)'
             /\ IsHolder(t, j)' <=> IsHolder(t, j)
  BY <1>1, <1>3, <1>5 DEF IsTransient, IsWanting, IsHolder
<1> HIDE DEF i
<1>7. \A j \in Locks : refs'[j] = IF j = i THEN refs[j] - 1 ELSE refs[j]
  BY <1>1, <1>2 DEF Types
<1>8. Types'
  BY <1>1, <1>2, <1>3 DEF Types, Taking
<1>9. Args(t)' /\ Mutex(t)'
  BY <1>1, <1>2, <1>3, <1>5 DEF Args, Mutex, Taking, Guarding
<1>10. Others(t)
  BY <1>1, <1>2 DEF Others, Types
<1>11. Gains(t) /\ WriterStep(t)
  BY <1>1, <1>3 DEF Gains, WriterStep
<1>12. CountStep(t)
  BY <1>1, <1>2, <1>6, <1>7 DEF CountStep, One, Types
<1>13. SleepStep(t)
  BY <1>1, <1>2, <1>3, <1>4, <1>7 DEF SleepStep, Signalling, Types, LastOut
<1> QED
  BY <1>8, <1>9, <1>10, <1>11, <1>12, <1>13 DEF StepOK

\* The last reader out, of those that backed off, wakes the writers.
LEMMA SignalOK ==
    ASSUME IInv, NEW t \in Threads, Signal(t)
    PROVE  StepOK(t)
<1> DEFINE i == At(t)
<1>1. /\ pc[t] = "signal"
      /\ Broadcast(i, t, Refused(t))
      /\ UNCHANGED <<locks, todo, call, asked, held>>
  BY DEF Signal
<1>2. /\ i \in todo[t] /\ i \in Locks /\ Types /\ Args(t)
  BY <1>1, InCall
<1>3. /\ pc'[t] \in {"unwind", "lock"}
      /\ \A u \in Threads \ {t} :
             /\ pc'[u] = pc[u] \/ (pc[u] = "sleep" /\ pc'[u] = "woken")
             /\ pc'[u] = "sleep" => At(u) # i
  BY <1>1 DEF Broadcast, Refused
<1>4. t \in Readers /\ t \notin Writers
  BY <1>1, <1>2, SpaConfigAssumption DEF Args
<1>5. \A j : /\ ~IsTransient(t, j) /\ ~IsTransient(t, j)'
             /\ ~IsWanting(t, j) /\ ~IsWanting(t, j)'
             /\ IsHolder(t, j)' <=> IsHolder(t, j)
  BY <1>1, <1>3, <1>4 DEF IsTransient, IsWanting, IsHolder
<1>6. Types'
  <2>1. pc' \in [Threads -> Taking \cup Leaving \cup {"idle", "unwind"}]
    BY <1>1, <1>2 DEF Types, Broadcast, Refused, Taking
  <2> QED
    BY <1>1, <1>2, <2>1 DEF Types, locks
<1>7. Args(t)' /\ Mutex(t)'
  BY <1>1, <1>2, <1>3, <1>4 DEF Args, Mutex, Taking, Guarding
<1>8. Others(t)
  BY <1>1, <1>3 DEF Others, locks
<1>9. Gains(t) /\ WriterStep(t)
  BY <1>1, <1>3 DEF Gains, WriterStep, locks
<1>10. CountStep(t)
  BY <1>1, <1>2, <1>5 DEF CountStep, One, Types, locks
<1>11. SleepStep(t)
  BY <1>1, <1>2, <1>3 DEF SleepStep, Signalling, Types, locks
<1> QED
  BY <1>6, <1>7, <1>8, <1>9, <1>10, <1>11 DEF StepOK

\* A reader under scl_lock.
LEMMA ReadLockedOK ==
    ASSUME IInv, NEW t \in Threads, ReadLocked(t)
    PROVE  StepOK(t)
<1> DEFINE i == At(t)
<1>1. /\ pc[t] \in {"lock", "woken", "enter"} /\ t \in Readers /\ t \notin Writers
      /\ scl_lock[i] = None
      /\ UNCHANGED <<scl_lock, scl_writer, scl_write_wanted, writer_bit>>
  BY SpaConfigAssumption DEF ReadLocked
<1>2. /\ i \in todo[t] /\ i \in Locks /\ Types /\ Args(t)
      /\ refs[i] \in Nat /\ scl_write_wanted[i] \in Nat
  BY <1>1, InCall
<1>3. \A j : ~IsTransient(t, j) /\ ~IsWanting(t, j) /\ ~IsWanting(t, j)'
  BY <1>1 DEF IsTransient, IsWanting
<1>4. CASE ReadWaits(t, i)
  <2>1. pc' = [pc EXCEPT ![t] = "sleep"] /\ UNCHANGED <<refs, todo, call, asked, held>>
    BY <1>4 DEF ReadLocked, Goto
  <2>2. pc'[t] = "sleep" /\ At(t)' = i
    BY <1>1, <1>2, <2>1, AtSame DEF Types, Leaving
  <2>3. scl_write_wanted[i] > 0
    <3>1. CASE scl_writer[i] # None
      <4>1. scl_writer[i] \in Writers /\ i \in held[scl_writer[i]]
        BY <1>2, <3>1 DEF IInv, WriterHolds, Types
      <4>2. scl_writer[i] \in Wanting(i)
        BY <4>1 DEF Wanting
      <4> QED
        BY <1>2, <4>2, CountsAreNat DEF IInv
    <3>2. CASE scl_write_wanted[i] > 0
      BY <3>2
    <3> QED
      BY <1>4, <3>1, <3>2 DEF ReadWaits
  <2> HIDE DEF i
  <2>4. Types'
    BY <1>1, <1>2, <2>1 DEF Types, Taking
  <2>5. Args(t)' /\ Mutex(t)'
    BY <1>1, <1>2, <2>1, <2>2 DEF Args, Mutex, Taking, Guarding
  <2>6. Others(t)
    BY <1>1, <1>2, <2>1 DEF Others, Types
  <2>7. Gains(t) /\ WriterStep(t)
    BY <1>1, <2>1, <2>2 DEF Gains, WriterStep
  <2>8. \A j : ~IsTransient(t, j)' /\ (IsHolder(t, j)' <=> IsHolder(t, j))
    BY <2>1, <2>2 DEF IsTransient, IsHolder
  <2>9. CountStep(t)
    BY <1>1, <1>2, <1>3, <2>1, <2>8 DEF CountStep, One, Types
  <2>10. SleepStep(t)
    BY <1>1, <1>2, <2>1, <2>2, <2>3 DEF SleepStep, Signalling, Types
  <2> QED
    BY <2>4, <2>5, <2>6, <2>7, <2>9, <2>10 DEF StepOK
<1>5. CASE ~ReadWaits(t, i)
  <2>1. Took(t, At(t)) /\ refs' = [refs EXCEPT ![i] = @ + 1]
    BY <1>5 DEF ReadLocked
  <2>2. /\ i \notin held[t] /\ pc'[t] \in {"idle", "enter"}
        /\ \A j : IsHolder(t, j)' <=> (j = i \/ IsHolder(t, j))
        /\ \A j : ~IsTransient(t, j)'
    BY <1>1, <2>1, TookStep DEF Taking
  <2>3. \A u \in Writers : i \notin held[u]
    BY <1>2, <1>5, NoWriter DEF ReadWaits
  <2> HIDE DEF i
  <2>4. \A j \in Locks : refs'[j] = IF j = i THEN refs[j] + 1 ELSE refs[j]
    BY <1>2, <2>1 DEF Types
  <2>5. Types' /\ Args(t)' /\ Mutex(t)'
    BY <1>1, <1>2, <2>1, <2>2, TookStep DEF Types, Taking, Mutex, Guarding
  <2>6. Others(t)
    BY <1>1, <2>1, TookStep DEF Others, Taking
  <2>7. Gains(t) /\ WriterStep(t)
    BY <1>1, <2>2, <2>3 DEF Gains, WriterStep, IsHolder
  <2>8. CountStep(t)
    BY <1>1, <1>2, <1>3, <2>2, <2>4 DEF CountStep, One, Types, IsHolder
  <2>9. SleepStep(t)
    BY <1>1, <1>2, <2>2, <2>4 DEF SleepStep, Signalling, Types
  <2> QED
    BY <2>5, <2>6, <2>7, <2>8, <2>9 DEF StepOK
<1> QED
  BY <1>4, <1>5

\* spa_config_tryenter() gives back what it has got.
LEMMA UnwindOK ==
    ASSUME IInv, NEW t \in Threads, Unwind(t)
    PROVE  StepOK(t)
<1> DEFINE got == {j \in asked[t] : j < At(t)}
<1>1. /\ pc[t] = "unwind"
      /\ todo' = [todo EXCEPT ![t] = got]
      /\ pc' = [pc EXCEPT ![t] = IF got = {} THEN "idle" ELSE "exit"]
      /\ asked' = [asked EXCEPT ![t] = {}] /\ call' = [call EXCEPT ![t] = "enter"]
      /\ UNCHANGED <<locks, held>>
  BY DEF Unwind, Goto, Forget
<1>2. /\ todo[t] # {} /\ Types /\ Args(t)
  BY <1>1, InCall
<1>3. got \subseteq Locks /\ got \subseteq held[t]
  <2>1. At(t) = Min(todo[t])
    BY <1>1 DEF At
  <2>2. \A j \in todo[t] : At(t) <= j
    BY <1>2, <2>1, MinMaxOfLocks DEF Types
  <2>3. ASSUME NEW j \in got
        PROVE  j \notin todo[t]
    <3>1. j \in Locks /\ At(t) \in Locks
      BY <1>2, AtInTodo DEF Types
    <3>2. j \in Int /\ At(t) \in Int
      BY <3>1, SpaConfigAssumption DEF Locks
    <3> QED
      BY <2>2, <2>3, <3>2
  <2> QED
    BY <1>1, <1>2, <2>3 DEF Args, Types
<1> HIDE DEF got
<1>4. /\ todo'[t] = got /\ held' = held
      /\ \/ pc'[t] = "idle"
         \/ pc'[t] = "exit" /\ got # {}
  BY <1>1, <1>2 DEF Types
<1>5. Types'
  BY <1>1, <1>2, <1>3 DEF Types, locks, Leaving
<1>6. Args(t)' /\ Mutex(t)'
  BY <1>3, <1>4 DEF Args, Mutex, Taking, Guarding
<1>7. Others(t)
  BY <1>1, <1>2 DEF Others, Types, locks
<1>8. Gains(t) /\ WriterStep(t)
  BY <1>1, <1>4 DEF Gains, WriterStep, locks
<1>9. \A j : /\ IsHolder(t, j)' <=> IsHolder(t, j)
             /\ ~IsTransient(t, j)' /\ ~IsTransient(t, j)
             /\ IsWanting(t, j)' <=> IsWanting(t, j)
  BY <1>1, <1>4 DEF IsTransient, IsWanting, IsHolder
<1>10. CountStep(t)
  BY <1>1, <1>2, <1>9 DEF CountStep, One, Types, locks
<1>11. SleepStep(t)
  BY <1>1, <1>2, <1>4 DEF SleepStep, Signalling, Types, locks
<1> QED
  BY <1>5, <1>6, <1>7, <1>8, <1>10, <1>11 DEF StepOK

\* spa_config_exit_read().
LEMMA ExitReadOK ==
    ASSUME IInv, NEW t \in Threads, ExitRead(t)
    PROVE  StepOK(t)
<1> DEFINE i == At(t)
<1>1. /\ pc[t] = "exit" /\ scl_writer[i] # t
      /\ refs' = [refs EXCEPT ![i] = @ - 1]
      /\ held' = [held EXCEPT ![t] = @ \ {i}]
      /\ \/ /\ LastOut(i) /\ pc' = [pc EXCEPT ![t] = "exit_signal"] /\ todo' = todo
         \/ /\ ~LastOut(i) /\ pc' = [pc EXCEPT ![t] = Left(t, i)]
            /\ todo' = [todo EXCEPT ![t] = @ \ {i}]
      /\ UNCHANGED <<scl_lock, scl_writer, scl_write_wanted, writer_bit, call, asked>>
  BY DEF ExitRead, Goto
<1>2. /\ i \in todo[t] /\ i \in Locks /\ Types /\ Args(t) /\ refs[i] \in Nat
  BY <1>1, InCall
<1>3. i \in held[t] /\ todo[t] \subseteq held[t] /\ held'[t] = held[t] \ {i}
  BY <1>1, <1>2 DEF Args, Types
<1>4. t \notin Writers
  BY <1>1, <1>2, <1>3 DEF IInv, WriterAlone
<1>5. \/ /\ LastOut(i) /\ pc'[t] = "exit_signal" /\ todo'[t] = todo[t] /\ At(t)' = i
      \/ /\ ~LastOut(i) /\ todo'[t] = todo[t] \ {i}
         /\ \/ pc'[t] = "idle"
            \/ pc'[t] = "exit" /\ todo'[t] # {}
  <2>1. CASE LastOut(i)
    BY <1>1, <1>2, <2>1, AtSame DEF Types, Leaving
  <2>2. CASE ~LastOut(i)
    BY <1>1, <1>2, <2>2 DEF Types, Left
  <2> QED
    BY <2>1, <2>2
<1>6. \A j : /\ ~IsTransient(t, j) /\ ~IsTransient(t, j)'
             /\ ~IsWanting(t, j) /\ ~IsWanting(t, j)'
             /\ IsHolder(t, j)' <=> j # i /\ IsHolder(t, j)
  BY <1>1, <1>3, <1>4, <1>5 DEF IsTransient, IsWanting, IsHolder
<1> HIDE DEF i
<1>7. \A j \in Locks : refs'[j] = IF j = i THEN refs[j] - 1 ELSE refs[j]
  BY <1>1, <1>2 DEF Types
<1>8. Types'
  BY <1>1, <1>2, SMTT(30) DEF Types, Taking, Leaving, Left
<1>9. Args(t)' /\ Mutex(t)'
  BY <1>2, <1>3, <1>5 DEF Args, Mutex, Taking, Guarding
<1>10. Others(t)
  BY <1>1, <1>2, SMTT(30) DEF Others, Types
<1>11. Gains(t) /\ WriterStep(t)
  BY <1>1, <1>3, <1>5 DEF Gains, WriterStep
<1>12. CountStep(t)
  BY <1>1, <1>2, <1>3, <1>6, <1>7 DEF CountStep, One, Types, IsHolder
<1>13. SleepStep(t)
  BY <1>1, <1>2, <1>5, <1>7 DEF SleepStep, Signalling, Types, LastOut
<1> QED
  BY <1>8, <1>9, <1>10, <1>11, <1>12, <1>13 DEF StepOK

\* The last reader out wakes the writers.
LEMMA ExitSignalOK ==
    ASSUME IInv, NEW t \in Threads, ExitSignal(t)
    PROVE  StepOK(t)
<1> DEFINE i == At(t)
<1>1. /\ pc[t] = "exit_signal"
      /\ Broadcast(i, t, Left(t, i))
      /\ todo' = [todo EXCEPT ![t] = @ \ {i}]
      /\ UNCHANGED <<locks, call, asked, held>>
  BY DEF ExitSignal
<1>2. /\ i \in todo[t] /\ i \in Locks /\ Types /\ Args(t)
  BY <1>1, InCall
<1>3. /\ \/ pc'[t] = "idle"
         \/ pc'[t] = "exit" /\ todo[t] # {i}
      /\ todo'[t] = todo[t] \ {i}
      /\ \A u \in Threads \ {t} :
             /\ pc'[u] = pc[u] \/ (pc[u] = "sleep" /\ pc'[u] = "woken")
             /\ pc'[u] = "sleep" => At(u) # i
  BY <1>1, <1>2 DEF Broadcast, Left, Types
<1>4. \A j : /\ ~IsTransient(t, j) /\ ~IsTransient(t, j)'
             /\ IsWanting(t, j)' <=> IsWanting(t, j)
             /\ IsHolder(t, j)' <=> IsHolder(t, j)
  BY <1>1, <1>3 DEF IsTransient, IsWanting, IsHolder
<1>5. Types'
  <2>1. pc' \in [Threads -> Taking \cup Leaving \cup {"idle", "unwind"}]
    BY <1>1, <1>2 DEF Types, Broadcast, Left, Taking, Leaving
  <2> QED
    BY <1>1, <1>2, <2>1 DEF Types, locks
<1>6. Args(t)' /\ Mutex(t)'
  BY <1>1, <1>2, <1>3 DEF Args, Mutex, Taking, Guarding
<1>7. Others(t)
  BY <1>1, <1>2, <1>3 DEF Others, locks, Types
<1>8. Gains(t) /\ WriterStep(t)
  BY <1>1, <1>3 DEF Gains, WriterStep, locks
<1>9. CountStep(t)
  BY <1>1, <1>2, <1>4 DEF CountStep, One, Types, locks
<1>10. SleepStep(t)
  BY <1>1, <1>2, <1>3 DEF SleepStep, Signalling, Types, locks
<1> QED
  BY <1>5, <1>6, <1>7, <1>8, <1>9, <1>10 DEF StepOK

=============================================================================
