--------------------------- MODULE SpaConfigLock ---------------------------
(***************************************************************************)
(* The pool configuration locks (spa_config_enter() and friends,           *)
(* module/zfs/spa_misc.c): an array of reader/writer locks taken in        *)
(* ascending order, whose readers come and go with one atomic operation    *)
(* on scl_count unless a writer wants the lock.                            *)
(*                                                                         *)
(* An action is one atomic operation, or a section under scl_lock; the     *)
(* sections in which an atomic operation of another thread can fall        *)
(* between two of their own are split and hold scl_lock in between.        *)
(***************************************************************************)
EXTENDS Integers, FiniteSets, FiniteSetsExt

CONSTANTS
    SCL_LOCKS,   \* number of locks
    Readers,     \* threads that ask for locks as RW_READER
    Writers,     \* threads that ask for locks as RW_WRITER
    PrioReaders, \* those readers that also use spa_config_enter_priority()
    Triers,      \* threads that also use spa_config_tryenter()
    None

Threads == Readers \cup Writers
Locks == 0..(SCL_LOCKS - 1)

ASSUME SpaConfigAssumption ==
    /\ SCL_LOCKS \in Nat \ {0}
    /\ IsFiniteSet(Threads)
    /\ None \notin Threads
    /\ Triers \subseteq Threads
    /\ PrioReaders \subseteq Readers
    /\ Writers \cap Readers = {}

VARIABLES
    scl_lock,          \* [Locks -> holder of the mutex]
    scl_writer,        \* [Locks -> thread that holds the lock for writing]
    scl_write_wanted,  \* [Locks -> number of writers that want or hold it]
    refs,              \* [Locks -> scl_count without its top bit]
    writer_bit,        \* [Locks -> SCL_COUNT_WRITER, the top bit]
    pc,
    todo,              \* [Threads -> the locks still to be taken or dropped]
    call,              \* [Threads -> which function it has called]
    asked,             \* [Threads -> what its spa_config_tryenter() asked for]
    held               \* [Threads -> the locks it holds]

locks == <<scl_lock, scl_writer, scl_write_wanted, refs, writer_bit>>
vars == <<scl_lock, scl_writer, scl_write_wanted, refs, writer_bit, pc, todo,
          call, asked, held>>

Init ==
    /\ scl_lock = [i \in Locks |-> None]
    /\ scl_writer = [i \in Locks |-> None]
    /\ scl_write_wanted = [i \in Locks |-> 0]
    /\ refs = [i \in Locks |-> 0]
    /\ writer_bit = [i \in Locks |-> FALSE]
    /\ pc = [t \in Threads |-> "idle"]
    /\ todo = [t \in Threads |-> {}]
    /\ call = [t \in Threads |-> "enter"]
    /\ asked = [t \in Threads |-> {}]
    /\ held = [t \in Threads |-> {}]

Goto(t, p) == pc' = [pc EXCEPT ![t] = p]

\* The lock at which a thread is.
At(t) == IF pc[t] \in {"exit", "exit_signal", "exit_write"} THEN Max(todo[t])
         ELSE Min(todo[t])

Broadcast(i, t, p) ==
    pc' = [u \in Threads |->
              IF u = t THEN p
              ELSE IF pc[u] = "sleep" /\ At(u) = i THEN "woken" ELSE pc[u]]

\* The arguments are gone when the function returns.
Forget(t) ==
    /\ call' = [call EXCEPT ![t] = "enter"]
    /\ asked' = [asked EXCEPT ![t] = {}]

\* Go on with the next lock, or return.
Took(t, i) ==
    /\ held' = [held EXCEPT ![t] = @ \cup {i}]
    /\ todo' = [todo EXCEPT ![t] = @ \ {i}]
    /\ IF todo[t] = {i}
       THEN Goto(t, "idle") /\ Forget(t)
       ELSE Goto(t, "enter") /\ UNCHANGED <<call, asked>>

-----------------------------------------------------------------------------
(* spa_config_enter(), spa_config_tryenter().                              *)

\* Locks are taken in ascending order, also by nested calls.
Call(t, is, fn) ==
    /\ pc[t] = "idle" /\ is # {}
    /\ fn = "priority" => t \in PrioReaders
    /\ fn = "try" => t \in Triers
    /\ \A i \in is, j \in held[t] : j < i
    /\ todo' = [todo EXCEPT ![t] = is]
    /\ call' = [call EXCEPT ![t] = fn]
    /\ asked' = [asked EXCEPT ![t] = IF fn = "try" THEN is ELSE {}]
    /\ Goto(t, "enter")
    /\ UNCHANGED <<locks, held>>

\* atomic_inc_32_nv(): without the writer bit that is all.
ReadFast(t) ==
    LET i == At(t)
    IN  /\ pc[t] = "enter" /\ t \in Readers /\ call[t] # "priority"
        /\ refs' = [refs EXCEPT ![i] = @ + 1]
        /\ IF writer_bit[i] THEN Goto(t, "backoff") /\ UNCHANGED <<todo, call, asked, held>>
                            ELSE Took(t, i)
        /\ UNCHANGED <<scl_lock, scl_writer, scl_write_wanted, writer_bit>>

\* A mutated form: the reader tries its luck again.
RefusedSpins(t) == IF call[t] = "try" THEN "unwind" ELSE "enter"

\* Where a reader that met a writer goes on: it waits, or gives back the
\* locks it has got.
Refused(t) == IF call[t] = "try" THEN "unwind" ELSE "lock"

\* A mutated form: nobody is told that the last reference is gone.
LastOutNever(i) == FALSE

\* The last reference is gone and a writer waits for that.
LastOut(i) == refs[i] = 1 /\ writer_bit[i]

\* A mutated form: the reference is not given back.
BackoffKeepsRef(t) ==
    LET i == At(t)
    IN  /\ pc[t] = "backoff"
        /\ Goto(t, IF LastOut(i) THEN "signal" ELSE Refused(t))
        /\ UNCHANGED <<locks, todo, call, asked, held>>

\* spa_config_exit_read() of the reference taken by ReadFast.
Backoff(t) ==
    LET i == At(t)
    IN  /\ pc[t] = "backoff"
        /\ refs' = [refs EXCEPT ![i] = @ - 1]
        /\ Goto(t, IF LastOut(i) THEN "signal" ELSE Refused(t))
        /\ UNCHANGED <<scl_lock, scl_writer, scl_write_wanted, writer_bit, todo,
                       call, asked, held>>

Signal(t) ==
    LET i == At(t)
    IN  /\ pc[t] = "signal" /\ scl_lock[i] = None
        /\ Broadcast(i, t, Refused(t))
        /\ UNCHANGED <<locks, todo, call, asked, held>>

\* A reader waits for a writer to leave and, unless it has priority, for the
\* writers that wait.
ReadWaits(t, i) ==
    scl_writer[i] # None \/ (call[t] # "priority" /\ scl_write_wanted[i] > 0)

ReadLocked(t) ==
    LET i == At(t)
    IN  /\ \/ pc[t] \in {"lock", "woken"}
           \/ pc[t] = "enter" /\ call[t] = "priority"
        /\ t \in Readers /\ scl_lock[i] = None
        /\ IF ReadWaits(t, i)
           THEN Goto(t, "sleep") /\ UNCHANGED <<refs, todo, call, asked, held>>
           ELSE refs' = [refs EXCEPT ![i] = @ + 1] /\ Took(t, i)
        /\ UNCHANGED <<scl_lock, scl_writer, scl_write_wanted, writer_bit>>

\* A writer announces itself ...
WriteWant(t) ==
    LET i == At(t)
    IN  /\ pc[t] = "enter" /\ t \in Writers /\ call[t] # "try"
        /\ scl_lock[i] = None
        /\ scl_lock' = [scl_lock EXCEPT ![i] = t]
        /\ scl_write_wanted' = [scl_write_wanted EXCEPT ![i] = @ + 1]
        /\ writer_bit' = [writer_bit EXCEPT ![i] = TRUE]
        /\ Goto(t, "drain")
        /\ UNCHANGED <<scl_writer, refs, todo, call, asked, held>>

\* A mutated form: the readers that are in are not waited for.
WriteDrainNot(t) ==
    LET i == At(t)
    IN  /\ \/ pc[t] = "drain" /\ scl_lock[i] = t
           \/ pc[t] = "woken" /\ t \in Writers /\ scl_lock[i] = None
        /\ scl_lock' = [scl_lock EXCEPT ![i] = t]
        /\ Goto(t, "take")
        /\ UNCHANGED <<scl_writer, scl_write_wanted, refs, writer_bit, todo, call,
                       asked, held>>

\* ... waits until there are no references left ...
WriteDrain(t) ==
    LET i == At(t)
    IN  /\ \/ pc[t] = "drain" /\ scl_lock[i] = t
           \/ pc[t] = "woken" /\ t \in Writers /\ scl_lock[i] = None
        /\ IF refs[i] # 0
           THEN Goto(t, "sleep") /\ scl_lock' = [scl_lock EXCEPT ![i] = None]
           ELSE Goto(t, "take") /\ scl_lock' = [scl_lock EXCEPT ![i] = t]
        /\ UNCHANGED <<scl_writer, scl_write_wanted, refs, writer_bit, todo, call,
                       asked, held>>

\* ... and takes one of its own: readers that back off may have come meanwhile.
WriteTake(t) ==
    LET i == At(t)
    IN  /\ pc[t] = "take" /\ scl_lock[i] = t
        /\ scl_writer' = [scl_writer EXCEPT ![i] = t]
        /\ refs' = [refs EXCEPT ![i] = @ + 1]
        /\ Took(t, i)
        /\ scl_lock' = [scl_lock EXCEPT ![i] = None]
        /\ UNCHANGED <<scl_write_wanted, writer_bit>>

\* The compare-and-swap of spa_config_tryenter(): no references, no bit.
WriteTry(t) ==
    LET i == At(t)
    IN  /\ pc[t] = "enter" /\ t \in Writers /\ call[t] = "try"
        /\ scl_lock[i] = None
        /\ IF refs[i] = 0 /\ ~writer_bit[i]
           THEN /\ refs' = [refs EXCEPT ![i] = 1]
                /\ writer_bit' = [writer_bit EXCEPT ![i] = TRUE]
                /\ scl_write_wanted' = [scl_write_wanted EXCEPT ![i] = @ + 1]
                /\ scl_writer' = [scl_writer EXCEPT ![i] = t]
                /\ Took(t, i)
           ELSE /\ Goto(t, "unwind")
                /\ UNCHANGED <<scl_writer, scl_write_wanted, refs, writer_bit,
                               todo, call, asked, held>>
        /\ UNCHANGED scl_lock

\* spa_config_tryenter() failed: it drops what this thread holds below the
\* lock that it could not get.
Unwind(t) ==
    LET got == {j \in asked[t] : j < At(t)}
    IN  /\ pc[t] = "unwind"
        /\ todo' = [todo EXCEPT ![t] = got]
        /\ Goto(t, IF got = {} THEN "idle" ELSE "exit")
        /\ Forget(t)
        /\ UNCHANGED <<locks, held>>

-----------------------------------------------------------------------------
(* spa_config_exit(), in descending order.                                 *)

Exit(t, is) ==
    /\ pc[t] = "idle" /\ is # {} /\ is \subseteq held[t]
    /\ todo' = [todo EXCEPT ![t] = is]
    /\ Goto(t, "exit")
    /\ UNCHANGED <<locks, call, asked, held>>

Left(t, i) == IF todo[t] = {i} THEN "idle" ELSE "exit"

\* spa_config_exit_read().  A thread that has to signal keeps the lock in todo
\* until it has.
ExitRead(t) ==
    LET i == At(t)
    IN  /\ pc[t] = "exit" /\ scl_writer[i] # t
        /\ refs' = [refs EXCEPT ![i] = @ - 1]
        /\ held' = [held EXCEPT ![t] = @ \ {i}]
        /\ IF LastOut(i)
           THEN Goto(t, "exit_signal") /\ UNCHANGED todo
           ELSE Goto(t, Left(t, i)) /\ todo' = [todo EXCEPT ![t] = @ \ {i}]
        /\ UNCHANGED <<scl_lock, scl_writer, scl_write_wanted, writer_bit,
                       call, asked>>

ExitSignal(t) ==
    LET i == At(t)
    IN  /\ pc[t] = "exit_signal" /\ scl_lock[i] = None
        /\ Broadcast(i, t, Left(t, i))
        /\ todo' = [todo EXCEPT ![t] = @ \ {i}]
        /\ UNCHANGED <<locks, call, asked, held>>

\* A writer drops its reference ...
ExitWrite(t) ==
    LET i == At(t)
    IN  /\ pc[t] = "exit" /\ scl_writer[i] = t
        /\ scl_lock[i] = None
        /\ scl_lock' = [scl_lock EXCEPT ![i] = t]
        /\ scl_writer' = [scl_writer EXCEPT ![i] = None]
        /\ refs' = [refs EXCEPT ![i] = @ - 1]
        /\ held' = [held EXCEPT ![t] = @ \ {i}]
        /\ Goto(t, "exit_write")
        /\ UNCHANGED <<scl_write_wanted, writer_bit, todo, call, asked>>

\* ... and opens the lock to readers when no other writer wants it.
ExitWriteOpen(t) ==
    LET i == At(t)
    IN  /\ pc[t] = "exit_write" /\ scl_lock[i] = t
        /\ scl_lock' = [scl_lock EXCEPT ![i] = None]
        /\ scl_write_wanted' = [scl_write_wanted EXCEPT ![i] = @ - 1]
        /\ writer_bit' = [writer_bit EXCEPT ![i] = scl_write_wanted[i] > 1]
        /\ Broadcast(i, t, Left(t, i))
        /\ todo' = [todo EXCEPT ![t] = @ \ {i}]
        /\ UNCHANGED <<scl_writer, refs, call, asked, held>>

-----------------------------------------------------------------------------
\* What a thread does on its own, and what it needs scl_lock for.
Atomic(t) == ReadFast(t) \/ Backoff(t) \/ Unwind(t) \/ ExitRead(t) \/ WriteTake(t)
             \/ ExitWriteOpen(t)

Section(t) ==
    \/ Signal(t) \/ ReadLocked(t) \/ WriteWant(t) \/ WriteDrain(t) \/ WriteTry(t)
    \/ ExitSignal(t) \/ ExitWrite(t)

Next ==
    \E t \in Threads :
        \/ \E is \in SUBSET Locks, fn \in {"enter", "priority", "try"} :
               Call(t, is, fn)
        \/ \E is \in SUBSET Locks : Exit(t, is)
        \/ Atomic(t)
        \/ Section(t)

Spec == Init /\ [][Next]_vars

\* Threads run, a mutex is handed to those who wait for it, and holders leave.
FairSpec ==
    /\ Spec
    /\ \A t \in Threads :
           /\ SF_vars(Atomic(t) \/ Section(t))
           /\ SF_vars(Exit(t, held[t]))

-----------------------------------------------------------------------------
(* Properties.                                                             *)

\* The references of readers that will back off.
Transient(i) == {t \in Threads : pc[t] = "backoff" /\ At(t) = i}
Holders(i) == {t \in Threads : i \in held[t]}

\* The writers that have announced themselves and not left.
Wanting(i) ==
    {t \in Writers :
        \/ i \in held[t]
        \/ pc[t] \in {"drain", "take", "sleep", "woken"} /\ At(t) = i
        \/ pc[t] = "exit_write" /\ At(t) = i}

\* The variables keep their types.
TypeOK ==
    /\ scl_lock \in [Locks -> Threads \cup {None}]
    /\ scl_writer \in [Locks -> Writers \cup {None}]
    /\ scl_write_wanted \in [Locks -> 0..Cardinality(Writers)]
    /\ refs \in [Locks -> 0..Cardinality(Threads)]
    /\ writer_bit \in [Locks -> BOOLEAN]
    /\ pc \in [Threads -> {"idle", "enter", "backoff", "signal", "lock", "sleep",
                            "woken", "drain", "take", "unwind", "exit",
                            "exit_signal", "exit_write"}]
    /\ call \in [Threads -> {"enter", "priority", "try"}]
    /\ todo \in [Threads -> SUBSET Locks] /\ asked \in [Threads -> SUBSET Locks]
    /\ held \in [Threads -> SUBSET Locks]

\* A thread that holds a lock for writing holds it alone, whatever the atomic
\* operations of readers that back off do to the count meanwhile.
WriterAlone ==
    \A i \in Locks, t \in Writers :
        i \in held[t] => Holders(i) = {t} /\ scl_writer[i] = t

\* scl_count tells the truth: it counts the holders and the readers on their
\* way out, and the bit is set as long as a writer wants or has the lock (but
\* for the moment when the last one clears it).
CountIsExact ==
    \A i \in Locks :
        /\ refs[i] = Cardinality(Holders(i)) + Cardinality(Transient(i))
        /\ scl_write_wanted[i] = Cardinality(Wanting(i))
        /\ writer_bit[i] = (Wanting(i) # {})

\* No wakeup is lost: a writer sleeps only while a reference is left or the
\* thread that dropped the last one is about to signal, or the lock is being
\* opened; a reader only while a writer wants the lock.
SleepersWillBeWoken ==
    \A t \in Threads : pc[t] = "sleep" =>
        LET i == At(t)
        IN  IF t \in Writers
            THEN \/ refs[i] > 0
                 \/ \E u \in Threads : /\ pc[u] \in {"signal", "exit_signal",
                                                     "exit_write"}
                                       /\ At(u) = i
            ELSE scl_write_wanted[i] > 0

\* Readers that try, and readers with priority, can keep a writer waiting: in the
\* end they stop coming.
IntrudersStop ==
    <>[](\A t \in Readers : call[t] = "enter")

\* Writers are not starved by readers: when one sleeps for a lock, a writer gets
\* it, or one above it (readers that hold the lock may have to wait there).
WritersEnter ==
    IntrudersStop =>
        \A i \in Locks :
            (\E t \in Writers : pc[t] = "sleep" /\ At(t) = i)
                ~> \E u \in Writers, j \in Locks : j >= i /\ j \in held[u]
=============================================================================
