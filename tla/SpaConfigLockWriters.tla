------------------------ MODULE SpaConfigLockWriters ------------------------
(***************************************************************************)
(* The steps that writers take do no more than StepOK says.                *)
(***************************************************************************)
EXTENDS SpaConfigLockInv

\* A writer announces itself.
LEMMA WriteWantOK ==
    ASSUME IInv, NEW t \in Threads, WriteWant(t)
    PROVE  StepOK(t)
<1> DEFINE i == At(t)
<1>1. /\ pc[t] = "enter" /\ t \in Writers /\ scl_lock[i] = None
      /\ scl_lock' = [scl_lock EXCEPT ![i] = t]
      /\ scl_write_wanted' = [scl_write_wanted EXCEPT ![i] = @ + 1]
      /\ writer_bit' = [writer_bit EXCEPT ![i] = TRUE]
      /\ pc' = [pc EXCEPT ![t] = "drain"]
      /\ UNCHANGED <<scl_writer, refs, todo, call, asked, held>>
  BY DEF WriteWant, Goto
<1>2. /\ i \in todo[t] /\ i \in Locks /\ Types /\ Args(t)
      /\ scl_write_wanted[i] \in Nat
  BY <1>1, InCall
<1>3. pc'[t] = "drain" /\ At(t)' = i
  BY <1>1, <1>2, AtSame DEF Types, Leaving
<1>4. i \notin held[t]
  BY <1>1, <1>2 DEF Args, Taking
<1>5. \A j : /\ ~IsTransient(t, j) /\ ~IsTransient(t, j)'
             /\ IsWanting(t, j) <=> j \in held[t]
             /\ IsWanting(t, j)' <=> j = i \/ j \in held[t]
             /\ IsHolder(t, j)' <=> IsHolder(t, j)
  BY <1>1, <1>3 DEF IsTransient, IsWanting, IsHolder
<1> HIDE DEF i
<1>6. \A j \in Locks :
          /\ scl_write_wanted'[j] =
                 IF j = i THEN scl_write_wanted[j] + 1 ELSE scl_write_wanted[j]
          /\ j # i => writer_bit'[j] = writer_bit[j]
          /\ scl_lock'[j] = IF j = i THEN t ELSE scl_lock[j]
  BY <1>1, <1>2, Zenon DEF Types
<1>7. writer_bit'[i] = (scl_write_wanted'[i] > 0)
  <2>1. scl_write_wanted'[i] > 0
    BY <1>2, <1>6
  <2> QED
    BY <1>1, <1>2, <2>1, Zenon DEF Types
<1>8. Types'
  BY <1>1, <1>2 DEF Types, Taking
<1>9. Args(t)' /\ Mutex(t)'
  BY <1>1, <1>2, <1>3, <1>6, Zenon DEF Args, Mutex, Taking, Guarding
<1>10. Others(t)
  BY <1>1, <1>2, <1>6 DEF Others, Types
<1>11. Gains(t) /\ WriterStep(t)
  BY <1>1, <1>3 DEF Gains, WriterStep
<1>12. CountStep(t)
  <2>1. \A j \in Locks :
            /\ One(IsHolder(t, j))' = One(IsHolder(t, j))
            /\ One(IsTransient(t, j))' = 0 /\ One(IsTransient(t, j)) = 0
            /\ One(IsWanting(t, j))' - One(IsWanting(t, j)) = IF j = i THEN 1 ELSE 0
    BY <1>4, <1>5 DEF One
  <2>2. \A j \in Locks : refs'[j] = refs[j] /\ refs[j] \in Int /\ One(IsHolder(t, j)) \in Int
    BY <1>1, <1>2 DEF Types, One
  <2>3. \A j \in Locks : scl_write_wanted[j] \in Int
    BY <1>2 DEF Types
  <2> QED
    BY <1>6, <1>7, <2>1, <2>2, <2>3 DEF CountStep
<1>13. SleepStep(t)
  BY <1>1, <1>2, <1>3, <1>6 DEF SleepStep, Signalling, Types
<1> QED
  BY <1>8, <1>9, <1>10, <1>11, <1>12, <1>13 DEF StepOK

\* A writer looks at the references.
LEMMA WriteDrainOK ==
    ASSUME IInv, NEW t \in Threads, WriteDrain(t)
    PROVE  StepOK(t)
<1> DEFINE i == At(t)
<1>1. /\ pc[t] \in {"drain", "woken"}
      /\ scl_lock[i] \in {None, t}
      /\ \/ /\ refs[i] # 0 /\ pc' = [pc EXCEPT ![t] = "sleep"]
            /\ scl_lock' = [scl_lock EXCEPT ![i] = None]
         \/ /\ refs[i] = 0 /\ pc' = [pc EXCEPT ![t] = "take"]
            /\ scl_lock' = [scl_lock EXCEPT ![i] = t]
      /\ UNCHANGED <<scl_writer, scl_write_wanted, refs, writer_bit, todo, call, asked, held>>
  BY DEF WriteDrain, Goto
<1>2. /\ i \in todo[t] /\ i \in Locks /\ Types /\ Args(t) /\ refs[i] \in Nat
  BY <1>1, InCall
<1>3. t \in Writers
  BY <1>2 DEF WriteDrain, Args, Guarding
<1>4. /\ At(t)' = i
      /\ \/ refs[i] # 0 /\ pc'[t] = "sleep"
         \/ refs[i] = 0 /\ pc'[t] = "take" /\ scl_lock'[i] = t
  <2>1. \/ refs[i] # 0 /\ pc'[t] = "sleep"
        \/ refs[i] = 0 /\ pc'[t] = "take" /\ scl_lock'[i] = t
    BY <1>1, <1>2 DEF Types
  <2>2. At(t)' = i
    BY <1>1, <2>1, AtSame DEF Leaving
  <2> QED
    BY <2>1, <2>2
<1>5. refs[i] = 0 => Holders(i) = {}
  BY <1>2, CountsAreNat DEF IInv
<1>6. \A j : /\ ~IsTransient(t, j) /\ ~IsTransient(t, j)'
             /\ IsWanting(t, j)' <=> IsWanting(t, j)
             /\ IsHolder(t, j)' <=> IsHolder(t, j)
  BY <1>1, <1>4 DEF IsTransient, IsWanting, IsHolder
<1> HIDE DEF i
<1>7. \A j \in Locks : j # i => scl_lock'[j] = scl_lock[j]
  BY <1>1, <1>2 DEF Types
<1>8. Types'
  BY <1>1, <1>2 DEF Types, Taking
<1>9. Args(t)' /\ Mutex(t)'
  BY <1>1, <1>2, <1>3, <1>4 DEF Args, Mutex, Taking, Guarding
<1>10. Others(t)
  BY <1>1, <1>2, <1>7 DEF Others, Types
<1>11. Gains(t) /\ WriterStep(t)
  BY <1>1, <1>4, <1>5 DEF Gains, WriterStep
<1>12. CountStep(t)
  BY <1>1, <1>2, <1>6 DEF CountStep, One, Types
<1>13. SleepStep(t)
  BY <1>1, <1>2, <1>3, <1>4 DEF SleepStep, Signalling, Types
<1> QED
  BY <1>8, <1>9, <1>10, <1>11, <1>12, <1>13 DEF StepOK

\* A writer gets the lock.
LEMMA WriteTakeOK ==
    ASSUME IInv, NEW t \in Threads, WriteTake(t)
    PROVE  StepOK(t)
<1> DEFINE i == At(t)
<1>1. /\ pc[t] = "take" /\ scl_lock[i] = t
      /\ scl_writer' = [scl_writer EXCEPT ![i] = t]
      /\ refs' = [refs EXCEPT ![i] = @ + 1]
      /\ scl_lock' = [scl_lock EXCEPT ![i] = None]
      /\ Took(t, At(t))
      /\ UNCHANGED <<scl_write_wanted, writer_bit>>
  BY DEF WriteTake
<1>2. /\ i \in todo[t] /\ i \in Locks /\ Types /\ Args(t) /\ refs[i] \in Nat
  BY <1>1, InCall
<1>3. t \in Writers /\ Holders(i) = {}
  BY <1>1, <1>2 DEF Args, Guarding, IInv, TakeAlone
<1>4. /\ i \notin held[t] /\ pc'[t] \in {"idle", "enter"}
      /\ \A j : IsHolder(t, j)' <=> (j = i \/ IsHolder(t, j))
      /\ \A j : ~IsTransient(t, j)'
      /\ \A j : IsWanting(t, j)' <=> (j = i \/ j \in held[t])
  BY <1>1, <1>3, TookStep DEF Taking
<1>5. \A j : /\ ~IsTransient(t, j)
             /\ IsWanting(t, j) <=> (j = i \/ j \in held[t])
  BY <1>1, <1>3 DEF IsTransient, IsWanting
<1>6. \A u \in Writers : i \notin held[u]
  BY <1>3 DEF Holders, Threads
<1> HIDE DEF i
<1>7. \A j \in Locks :
          /\ refs'[j] = IF j = i THEN refs[j] + 1 ELSE refs[j]
          /\ scl_writer'[j] = IF j = i THEN t ELSE scl_writer[j]
          /\ scl_lock'[j] = IF j = i THEN None ELSE scl_lock[j]
  BY <1>1, <1>2 DEF Types
<1>8. Types' /\ Args(t)' /\ Mutex(t)'
  <2>1. /\ refs' \in [Locks -> Int] /\ scl_writer' \in [Locks -> Writers \cup {None}]
        /\ scl_lock' \in [Locks -> Threads \cup {None}]
    BY <1>1, <1>2, <1>3 DEF Types
  <2> QED
    BY <1>1, <1>2, <1>4, <2>1, TookStep DEF Types, Taking, Mutex, Guarding
<1>9. Others(t)
  <2>1. \A u \in Threads \ {t} :
            /\ todo'[u] = todo[u] /\ asked'[u] = asked[u] /\ held'[u] = held[u]
            /\ pc'[u] = pc[u]
    BY <1>1, TookStep DEF Taking
  <2> QED
    BY <1>1, <1>7, <2>1 DEF Others
<1>10. Gains(t) /\ WriterStep(t)
  BY <1>1, <1>3, <1>4, <1>6, <1>7 DEF Gains, WriterStep, IsHolder
<1>11. CountStep(t)
  BY <1>1, <1>2, <1>4, <1>5, <1>7 DEF CountStep, One, Types, IsHolder
<1>12. SleepStep(t)
  BY <1>1, <1>2, <1>4, <1>7 DEF SleepStep, Signalling, Types
<1> QED
  BY <1>8, <1>9, <1>10, <1>11, <1>12 DEF StepOK

\* A writer tries its luck.
LEMMA WriteTryOK ==
    ASSUME IInv, NEW t \in Threads, WriteTry(t)
    PROVE  StepOK(t)
<1> DEFINE i == At(t)
<1>1. /\ pc[t] = "enter" /\ t \in Writers
      /\ scl_lock[i] = None /\ scl_lock' = scl_lock
  BY DEF WriteTry
<1>2. /\ i \in todo[t] /\ i \in Locks /\ Types /\ Args(t)
      /\ refs[i] \in Nat /\ scl_write_wanted[i] \in Nat
  BY <1>1, InCall
<1>3. \A j : ~IsTransient(t, j) /\ (IsWanting(t, j) <=> j \in held[t])
  BY <1>1 DEF IsTransient, IsWanting
<1>4. CASE refs[i] = 0 /\ ~writer_bit[i]
  <2>1. /\ Took(t, At(t))
        /\ refs' = [refs EXCEPT ![i] = 1]
        /\ writer_bit' = [writer_bit EXCEPT ![i] = TRUE]
        /\ scl_write_wanted' = [scl_write_wanted EXCEPT ![i] = @ + 1]
        /\ scl_writer' = [scl_writer EXCEPT ![i] = t]
    BY <1>4 DEF WriteTry
  <2>2. /\ i \notin held[t] /\ pc'[t] \in {"idle", "enter"}
        /\ \A j : IsHolder(t, j)' <=> (j = i \/ IsHolder(t, j))
        /\ \A j : ~IsTransient(t, j)'
        /\ \A j : IsWanting(t, j)' <=> (j = i \/ j \in held[t])
    BY <1>1, <2>1, TookStep DEF Taking
  <2>3. Holders(i) = {}
    BY <1>2, <1>4, CountsAreNat DEF IInv
  <2>4. \A u \in Writers : i \notin held[u]
    BY <2>3 DEF Holders, Threads
  <2> HIDE DEF i
  <2>5. \A j \in Locks :
            /\ refs'[j] = IF j = i THEN 1 ELSE refs[j]
            /\ scl_writer'[j] = IF j = i THEN t ELSE scl_writer[j]
            /\ scl_write_wanted'[j] =
                   IF j = i THEN scl_write_wanted[j] + 1 ELSE scl_write_wanted[j]
            /\ j # i => writer_bit'[j] = writer_bit[j]
    BY <1>2, <2>1, Zenon DEF Types
  <2>6. writer_bit'[i] = (scl_write_wanted'[i] > 0)
    <3>1. scl_write_wanted'[i] > 0
      BY <1>2, <2>5
    <3> QED
      BY <1>2, <2>1, <3>1, Zenon DEF Types
  <2>7. Types' /\ Args(t)' /\ Mutex(t)'
    <3>1. /\ refs' \in [Locks -> Int] /\ scl_writer' \in [Locks -> Writers \cup {None}]
          /\ writer_bit' \in [Locks -> BOOLEAN] /\ scl_write_wanted' \in [Locks -> Int]
      BY <1>1, <1>2, <2>1 DEF Types
    <3> QED
      BY <1>1, <1>2, <2>1, <2>2, <3>1, TookStep DEF Types, Taking, Mutex, Guarding
  <2>8. Others(t)
    BY <1>1, <2>1, TookStep, SMTT(30) DEF Others, Taking
  <2>9. Gains(t) /\ WriterStep(t)
    BY <1>1, <1>4, <2>2, <2>3, <2>4, <2>5 DEF Gains, WriterStep, IsHolder
  <2>10. CountStep(t)
    <3>1. \A j \in Locks :
              /\ One(IsHolder(t, j))' - One(IsHolder(t, j)) = IF j = i THEN 1 ELSE 0
              /\ One(IsTransient(t, j))' = 0 /\ One(IsTransient(t, j)) = 0
              /\ One(IsWanting(t, j))' - One(IsWanting(t, j)) = IF j = i THEN 1 ELSE 0
      BY <1>3, <2>2 DEF One, IsHolder
    <3>2. \A j \in Locks : scl_write_wanted[j] \in Int /\ refs[j] \in Int
      BY <1>2 DEF Types
    <3> QED
      BY <1>4, <2>5, <2>6, <3>1, <3>2 DEF CountStep
  <2>11. SleepStep(t)
    BY <1>1, <1>2, <1>4, <2>2, <2>5 DEF SleepStep, Signalling, Types
  <2> QED
    BY <2>7, <2>8, <2>9, <2>10, <2>11 DEF StepOK
<1>5. CASE ~(refs[i] = 0 /\ ~writer_bit[i])
  <2>1. /\ pc' = [pc EXCEPT ![t] = "unwind"]
        /\ UNCHANGED <<scl_writer, scl_write_wanted, refs, writer_bit, todo, call, asked, held>>
    BY <1>5 DEF WriteTry, Goto
  <2>2. pc'[t] = "unwind"
    BY <1>2, <2>1 DEF Types
  <2> HIDE DEF i
  <2>3. Types'
    BY <1>1, <1>2, <2>1 DEF Types
  <2>4. Args(t)' /\ Mutex(t)'
    BY <1>1, <1>2, <2>1, <2>2 DEF Args, Mutex, Taking, Guarding
  <2>5. Others(t)
    BY <1>1, <1>2, <2>1 DEF Others, Types
  <2>6. Gains(t) /\ WriterStep(t)
    BY <2>1, <2>2 DEF Gains, WriterStep
  <2>7. \A j : /\ IsHolder(t, j)' <=> IsHolder(t, j)
               /\ ~IsTransient(t, j)' /\ (IsWanting(t, j)' <=> j \in held[t])
    BY <1>1, <2>1, <2>2 DEF IsTransient, IsWanting, IsHolder
  <2>8. CountStep(t)
    BY <1>2, <1>3, <2>1, <2>7 DEF CountStep, One, Types
  <2>9. SleepStep(t)
    BY <1>1, <1>2, <2>1, <2>2 DEF SleepStep, Signalling, Types
  <2> QED
    BY <2>3, <2>4, <2>5, <2>6, <2>8, <2>9 DEF StepOK
<1> QED
  BY <1>4, <1>5

\* A writer drops its reference.
LEMMA ExitWriteOK ==
    ASSUME IInv, NEW t \in Threads, ExitWrite(t)
    PROVE  StepOK(t)
<1> DEFINE i == At(t)
<1>1. /\ pc[t] = "exit" /\ scl_writer[i] = t /\ scl_lock[i] = None
      /\ scl_lock' = [scl_lock EXCEPT ![i] = t]
      /\ scl_writer' = [scl_writer EXCEPT ![i] = None]
      /\ refs' = [refs EXCEPT ![i] = @ - 1]
      /\ held' = [held EXCEPT ![t] = @ \ {i}]
      /\ pc' = [pc EXCEPT ![t] = "exit_write"]
      /\ UNCHANGED <<scl_write_wanted, writer_bit, todo, call, asked>>
  BY DEF ExitWrite, Goto
<1>2. /\ i \in todo[t] /\ i \in Locks /\ Types /\ Args(t) /\ refs[i] \in Nat
  BY <1>1, InCall
<1>3. i \in held[t] /\ todo[t] \subseteq held[t] /\ held'[t] = held[t] \ {i}
  BY <1>1, <1>2 DEF Args, Types
<1>4. t \in Writers /\ t # None
  BY <1>1, <1>2, SpaConfigAssumption DEF Types
<1>5. pc'[t] = "exit_write" /\ At(t)' = i
  BY <1>1, <1>2, AtSame DEF Types, Leaving
<1>6. \A j : /\ ~IsTransient(t, j) /\ ~IsTransient(t, j)'
             /\ IsWanting(t, j)' <=> IsWanting(t, j)
             /\ IsHolder(t, j)' <=> j # i /\ IsHolder(t, j)
  BY <1>1, <1>3, <1>4, <1>5 DEF IsTransient, IsWanting, IsHolder
<1> HIDE DEF i
<1>7. \A j \in Locks :
          /\ refs'[j] = IF j = i THEN refs[j] - 1 ELSE refs[j]
          /\ scl_writer'[j] = IF j = i THEN None ELSE scl_writer[j]
          /\ scl_lock'[j] = IF j = i THEN t ELSE scl_lock[j]
  BY <1>1, <1>2 DEF Types
<1>8. Types'
  BY <1>1, <1>2 DEF Types, Taking, Leaving
<1>9. Args(t)' /\ Mutex(t)'
  BY <1>1, <1>2, <1>3, <1>4, <1>5, <1>7 DEF Args, Mutex, Taking, Guarding
<1>10. Others(t)
  BY <1>1, <1>2, <1>7 DEF Others, Types
<1>11. Gains(t) /\ WriterStep(t)
  BY <1>1, <1>3, <1>4, <1>5, <1>7 DEF Gains, WriterStep
<1>12. CountStep(t)
  BY <1>1, <1>2, <1>3, <1>6, <1>7 DEF CountStep, One, Types, IsHolder
<1>13. SleepStep(t)
  BY <1>1, <1>2, <1>5, <1>7 DEF SleepStep, Signalling, Types
<1> QED
  BY <1>8, <1>9, <1>10, <1>11, <1>12, <1>13 DEF StepOK

\* A writer opens the lock to readers, and wakes everybody.
LEMMA ExitWriteOpenOK ==
    ASSUME IInv, NEW t \in Threads, ExitWriteOpen(t)
    PROVE  StepOK(t)
<1> DEFINE i == At(t)
<1>1. /\ pc[t] = "exit_write" /\ scl_lock[i] = t
      /\ scl_lock' = [scl_lock EXCEPT ![i] = None]
      /\ scl_write_wanted' = [scl_write_wanted EXCEPT ![i] = @ - 1]
      /\ writer_bit' = [writer_bit EXCEPT ![i] = scl_write_wanted[i] > 1]
      /\ Broadcast(i, t, Left(t, i))
      /\ todo' = [todo EXCEPT ![t] = @ \ {i}]
      /\ UNCHANGED <<scl_writer, refs, call, asked, held>>
  BY DEF ExitWriteOpen
<1>2. /\ i \in todo[t] /\ i \in Locks /\ Types /\ Args(t) /\ scl_write_wanted[i] \in Nat
  BY <1>1, InCall
<1>3. /\ \/ pc'[t] = "idle"
         \/ pc'[t] = "exit" /\ todo[t] # {i}
      /\ todo'[t] = todo[t] \ {i}
      /\ \A u \in Threads \ {t} :
             /\ pc'[u] = pc[u] \/ (pc[u] = "sleep" /\ pc'[u] = "woken")
             /\ pc'[u] = "sleep" => At(u) # i
  BY <1>1, <1>2 DEF Broadcast, Left, Types
<1>4. t \in Writers /\ i \notin held[t]
  BY <1>1, <1>2 DEF Args, Guarding
<1>5. \A j : /\ ~IsTransient(t, j) /\ ~IsTransient(t, j)'
             /\ IsWanting(t, j) <=> j = i \/ j \in held[t]
             /\ IsWanting(t, j)' <=> j \in held[t]
             /\ IsHolder(t, j)' <=> IsHolder(t, j)
  BY <1>1, <1>3, <1>4 DEF IsTransient, IsWanting, IsHolder
<1>6. Types'
  <2>1. pc' \in [Threads -> Taking \cup Leaving \cup {"idle", "unwind"}]
    BY <1>1, <1>2 DEF Types, Broadcast, Left, Taking, Leaving
  <2>2. scl_lock' \in [Locks -> Threads \cup {None}] /\ scl_write_wanted' \in [Locks -> Int]
    BY <1>1, <1>2 DEF Types
  <2>3. writer_bit' \in [Locks -> BOOLEAN]
    BY <1>1, <1>2 DEF Types
  <2>4. todo' \in [Threads -> SUBSET Locks]
    BY <1>1, <1>2 DEF Types
  <2> QED
    BY <1>1, <1>2, <2>1, <2>2, <2>3, <2>4 DEF Types
<1>7. \A j \in Locks :
          /\ scl_write_wanted'[j] =
                 IF j = i THEN scl_write_wanted[j] - 1 ELSE scl_write_wanted[j]
          /\ j # i => writer_bit'[j] = writer_bit[j] /\ scl_lock'[j] = scl_lock[j]
  BY <1>1, <1>2 DEF Types
<1>8. writer_bit'[i] = (scl_write_wanted'[i] > 0)
  <2>1. writer_bit'[i] = (scl_write_wanted[i] > 1)
    BY <1>1, <1>2 DEF Types
  <2>2. scl_write_wanted[i] > 1 <=> scl_write_wanted'[i] > 0
    BY <1>2, <1>7
  <2> QED
    BY <2>1, <2>2
<1>9. Args(t)' /\ Mutex(t)'
  BY <1>1, <1>2, <1>3 DEF Args, Mutex, Taking, Guarding
<1> HIDE DEF i
<1>10. Others(t)
  BY <1>1, <1>2, <1>3, <1>7 DEF Others, Types
<1>11. Gains(t) /\ WriterStep(t)
  BY <1>1, <1>3 DEF Gains, WriterStep
<1>12. CountStep(t)
  <2>1. \A j \in Locks :
            /\ One(IsHolder(t, j))' = One(IsHolder(t, j))
            /\ One(IsTransient(t, j))' = 0 /\ One(IsTransient(t, j)) = 0
            /\ One(IsWanting(t, j))' - One(IsWanting(t, j)) = IF j = i THEN -1 ELSE 0
    BY <1>4, <1>5 DEF One
  <2>2. \A j \in Locks : refs'[j] = refs[j] /\ refs[j] \in Int /\ One(IsHolder(t, j)) \in Int
    BY <1>1, <1>2 DEF Types, One
  <2>3. \A j \in Locks : scl_write_wanted[j] \in Int
    BY <1>2 DEF Types
  <2> QED
    BY <1>7, <1>8, <2>1, <2>2, <2>3 DEF CountStep
<1>13. SleepStep(t)
  <2>1. At(t) = i
    BY DEF i
  <2> QED
    BY <1>1, <1>2, <1>3, <1>7, <2>1 DEF SleepStep, Signalling, Types
<1> QED
  BY <1>6, <1>9, <1>10, <1>11, <1>12, <1>13 DEF StepOK

=============================================================================
