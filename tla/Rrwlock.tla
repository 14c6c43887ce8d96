------------------------------ MODULE Rrwlock ------------------------------
(***************************************************************************)
(* Re-entrant reader/writer locks (rrwlock_t) and arrays of them, one for  *)
(* each group of threads, whose writers take all of them (rrmlock_t):      *)
(* module/zfs/rrwlock.c.  With one lock in the array this is rrwlock_t.    *)
(*                                                                         *)
(* One action is one section under rr_lock.                                *)
(***************************************************************************)
EXTENDS Integers, FiniteSets, FiniteSetsExt

CONSTANTS
    RRM_NUM_LOCKS,
    Readers, Writers,
    Tags,
    PrioReaders,      \* the readers that use rrw_enter_read_prio()
    TD_LOCK,          \* [Readers -> the lock of each reader]
    MaxDepth,         \* bound: read locks held by a thread
    None

Threads == Readers \cup Writers
Locks == 0..(RRM_NUM_LOCKS - 1)

ASSUME RrwAssumption ==
    /\ RRM_NUM_LOCKS \in Nat \ {0}
    /\ Readers \cap Writers = {} /\ PrioReaders \subseteq Readers
    /\ IsFiniteSet(Threads) /\ IsFiniteSet(Tags)
    /\ TD_LOCK \in [Readers -> Locks]
    /\ MaxDepth \in Nat
    /\ None \notin Threads

VARIABLES
    rr_track_all,      \* set by rrw_init() for good
    rr_writer,         \* [Locks -> thread or None]
    rr_writer_wanted,  \* [Locks -> BOOLEAN]
    rr_anon_rcount,    \* [Locks -> Nat]
    rr_linked_rcount,  \* [Locks -> Nat]
    nodes,             \* [Readers -> [Tags -> number of rrw_node_ts]]
    holds,             \* [Readers -> [Tags -> read locks it has and will exit]]
    pc,
    at                 \* [Threads -> the lock it is at]

vars == <<rr_track_all, rr_writer, rr_writer_wanted, rr_anon_rcount,
          rr_linked_rcount, nodes, holds, pc, at>>

Init ==
    /\ rr_track_all \in BOOLEAN
    /\ rr_writer = [i \in Locks |-> None]
    /\ rr_writer_wanted = [i \in Locks |-> FALSE]
    /\ rr_anon_rcount = [i \in Locks |-> 0]
    /\ rr_linked_rcount = [i \in Locks |-> 0]
    /\ nodes = [t \in Readers |-> [g \in Tags |-> 0]]
    /\ holds = [t \in Readers |-> [g \in Tags |-> 0]]
    /\ pc = [t \in Threads |-> "idle"]
    /\ at = [t \in Threads |-> IF t \in Readers THEN TD_LOCK[t] ELSE 0]

Total(f) == FoldSet(LAMBDA g, n : n + f[g], 0, Tags)

\* cv_broadcast() of lock i, by t, which goes on to p.
Broadcast(i, t, p) ==
    pc' = [u \in Threads |->
              IF u = t THEN p
              ELSE IF pc[u] = "sleep" /\ at[u] = i THEN "woken" ELSE pc[u]]

\* rrn_find(): does this thread hold the lock for reading, as far as it knows?
Found(t, i) == rr_linked_rcount[i] # 0 /\ \E g \in Tags : nodes[t][g] > 0

\* A mutated form: re-entrant readers are not let through.
ReaderWaitsReentrant(t, i) ==
    \/ rr_writer[i] # None
    \/ rr_writer_wanted[i] /\ rr_anon_rcount[i] = 0 /\ t \notin PrioReaders

\* A mutated form: writers that wait are passed.
ReaderWaitsHeldOnly(t, i) == rr_writer[i] # None

\* A reader waits for a writer, and for one that waits, unless it may be a
\* re-entrant one: anonymous readers could be anybody.
ReaderWaits(t, i) ==
    \/ rr_writer[i] # None
    \/ /\ rr_writer_wanted[i] /\ rr_anon_rcount[i] = 0
       /\ t \notin PrioReaders /\ ~Found(t, i)

\* Whether a new reader gets a node.
Tracked(i) == rr_writer_wanted[i] \/ rr_track_all

EnterRead(t, g) ==
    LET i == at[t]
    IN  /\ \/ pc[t] = "idle" /\ Total(holds[t]) < MaxDepth
           \/ pc[t] = "woken"
        /\ IF ReaderWaits(t, i)
           THEN /\ pc' = [pc EXCEPT ![t] = "sleep"]
                /\ UNCHANGED <<rr_anon_rcount, rr_linked_rcount, nodes, holds>>
           ELSE /\ IF Tracked(i)
                   THEN /\ nodes' = [nodes EXCEPT ![t][g] = @ + 1]
                        /\ rr_linked_rcount' = [rr_linked_rcount EXCEPT ![i] = @ + 1]
                        /\ UNCHANGED rr_anon_rcount
                   ELSE /\ rr_anon_rcount' = [rr_anon_rcount EXCEPT ![i] = @ + 1]
                        /\ UNCHANGED <<nodes, rr_linked_rcount>>
                /\ holds' = [holds EXCEPT ![t][g] = @ + 1]
                /\ pc' = [pc EXCEPT ![t] = "idle"]
        /\ UNCHANGED <<rr_track_all, rr_writer, rr_writer_wanted, at>>

\* A mutated form: linked readers are not waited for.
WriterWaitsAnon(i) == rr_anon_rcount[i] > 0 \/ rr_writer[i] # None

WriterWaits(i) ==
    rr_anon_rcount[i] > 0 \/ rr_linked_rcount[i] > 0 \/ rr_writer[i] # None

\* rrm_enter_write() takes one lock after another.
EnterWrite(t) ==
    LET i == at[t]
    IN  /\ pc[t] \in {"idle", "enter", "woken"}
        /\ rr_writer[i] # t
        /\ IF WriterWaits(i)
           THEN /\ rr_writer_wanted' = [rr_writer_wanted EXCEPT ![i] = TRUE]
                /\ pc' = [pc EXCEPT ![t] = "sleep"]
                /\ UNCHANGED <<rr_writer, at>>
           ELSE /\ rr_writer_wanted' = [rr_writer_wanted EXCEPT ![i] = FALSE]
                /\ rr_writer' = [rr_writer EXCEPT ![i] = t]
                /\ at' = [at EXCEPT ![t] = (i + 1) % RRM_NUM_LOCKS]
                /\ pc' = [pc EXCEPT ![t] = IF i = RRM_NUM_LOCKS - 1
                                           THEN "held" ELSE "enter"]
        /\ UNCHANGED <<rr_track_all, rr_anon_rcount, rr_linked_rcount, nodes, holds>>

\* rrn_find_and_remove(): a node with the same tag goes first, whichever of its
\* locks this thread gives back.
ExitsLinked(t, g) == rr_linked_rcount[at[t]] # 0 /\ nodes[t][g] > 0

\* A mutated form: the node goes, but the other count is dropped.
ExitReadWrongCount(t, g) ==
    LET i == at[t]
    IN  /\ pc[t] = "idle" /\ holds[t][g] > 0
        /\ holds' = [holds EXCEPT ![t][g] = @ - 1]
        /\ nodes' = [nodes EXCEPT ![t][g] = IF ExitsLinked(t, g) THEN @ - 1 ELSE @]
        /\ rr_anon_rcount' = [rr_anon_rcount EXCEPT ![i] = @ - 1]
        /\ IF rr_anon_rcount[i] = 1 THEN Broadcast(i, t, "idle") ELSE UNCHANGED pc
        /\ UNCHANGED <<rr_track_all, rr_writer, rr_writer_wanted, rr_linked_rcount, at>>

\* rrw_exit() by a reader.
ExitRead(t, g) ==
    LET i     == at[t]
        count == IF ExitsLinked(t, g) THEN rr_linked_rcount[i]
                                      ELSE rr_anon_rcount[i]
    IN  /\ pc[t] = "idle" /\ holds[t][g] > 0
        /\ holds' = [holds EXCEPT ![t][g] = @ - 1]
        /\ IF ExitsLinked(t, g)
           THEN /\ nodes' = [nodes EXCEPT ![t][g] = @ - 1]
                /\ rr_linked_rcount' = [rr_linked_rcount EXCEPT ![i] = @ - 1]
                /\ UNCHANGED rr_anon_rcount
           ELSE /\ rr_anon_rcount' = [rr_anon_rcount EXCEPT ![i] = @ - 1]
                /\ UNCHANGED <<nodes, rr_linked_rcount>>
        /\ IF count = 1 THEN Broadcast(i, t, "idle") ELSE UNCHANGED pc
        /\ UNCHANGED <<rr_track_all, rr_writer, rr_writer_wanted, at>>

ExitWrite(t) ==
    LET i == at[t]
    IN  /\ pc[t] \in {"held", "exit"}
        /\ rr_writer' = [rr_writer EXCEPT ![i] = None]
        /\ at' = [at EXCEPT ![t] = (i + 1) % RRM_NUM_LOCKS]
        /\ Broadcast(i, t, IF i = RRM_NUM_LOCKS - 1 THEN "idle" ELSE "exit")
        /\ UNCHANGED <<rr_track_all, rr_writer_wanted, rr_anon_rcount, rr_linked_rcount, nodes,
                       holds>>

Next ==
    \/ \E t \in Readers, g \in Tags : EnterRead(t, g) \/ ExitRead(t, g)
    \/ \E t \in Writers : EnterWrite(t) \/ ExitWrite(t)

Spec == Init /\ [][Next]_vars

\* Woken threads run, and every lock that is held is given back.
FairSpec ==
    /\ Spec
    /\ \A t \in Readers :
           /\ WF_vars(pc[t] = "woken" /\ \E g \in Tags : EnterRead(t, g))
           /\ SF_vars(Total(holds[t]) = 1 /\ \E g \in Tags : ExitRead(t, g))
           /\ SF_vars(Total(holds[t]) > 1 /\ \E g \in Tags : ExitRead(t, g))
    /\ \A t \in Writers :
           /\ WF_vars(pc[t] # "idle" /\ EnterWrite(t))
           /\ WF_vars(ExitWrite(t))

-----------------------------------------------------------------------------
(* Properties.                                                             *)

Of(i) == {t \in Readers : TD_LOCK[t] = i}
SumOver(ts, f(_)) == FoldSet(LAMBDA t, n : n + f(t), 0, ts)

\* The variables keep their types.
TypeOK ==
    /\ rr_track_all \in BOOLEAN
    /\ rr_writer \in [Locks -> Writers \cup {None}]
    /\ rr_writer_wanted \in [Locks -> BOOLEAN]
    /\ rr_anon_rcount \in [Locks -> Nat] /\ rr_linked_rcount \in [Locks -> Nat]
    /\ nodes \in [Readers -> [Tags -> Nat]] /\ holds \in [Readers -> [Tags -> Nat]]
    /\ pc \in [Threads -> {"idle", "sleep", "woken", "enter", "held", "exit"}]
    /\ at \in [Threads -> Locks]

\* The two counters together count the read locks that are held, although a
\* thread may have got some of them anonymously and others with a node, and may
\* give them back in any order.
CountsMatchHolds ==
    \A i \in Locks :
        /\ rr_anon_rcount[i] + rr_linked_rcount[i] =
               SumOver(Of(i), LAMBDA t : Total(holds[t]))
        /\ rr_linked_rcount[i] = SumOver(Of(i), LAMBDA t : Total(nodes[t]))

\* While a writer has a lock no reader has it, whether its readers are counted
\* as anonymous or linked.
WriterExcludesReaders ==
    \A i \in Locks : rr_writer[i] # None =>
        \A t \in Of(i) : Total(holds[t]) = 0

\* A thread that already has the lock for reading is never put to sleep by a
\* writer that waits: that would be a deadlock.
ReentrantNeverSleeps ==
    \A t \in Readers : pc[t] \in {"sleep", "woken"} => Total(holds[t]) = 0

\* Readers with priority are let past writers that wait, and so can keep them
\* waiting: in the end they stop coming.
PrioReadersStop == <>[](\A t \in PrioReaders : Total(holds[t]) = 0)

\* "Hence, we do not starve writers" (rrwlock.c): when a writer sleeps, a writer
\* enters, although readers that are in may enter again and again.
WritersEnter ==
    PrioReadersStop =>
        \A t \in Writers : pc[t] = "sleep" ~> \E u \in Writers : pc[u] = "held"
=============================================================================
