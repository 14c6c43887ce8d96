----------------------------- MODULE RangeLock -----------------------------
(***************************************************************************)
(* What a file range lock promises: ranges held for writing overlap no     *)
(* other held range.  RangeLockTree (zfs_rlock.c) implements it.           *)
(***************************************************************************)
EXTENDS Integers

CONSTANTS Threads, Points

VARIABLE held    \* [Threads -> the lock each thread holds]

Unlocked == [type |-> "NONE", pts |-> {}]

Locks == [type : {"READER", "WRITER"}, pts : (SUBSET Points) \ {{}}]

Conflict(a, b) ==
    /\ "WRITER" \in {a.type, b.type}
    /\ a.pts \cap b.pts # {}

Init == held = [t \in Threads |-> Unlocked]

Acquire(t) ==
    /\ held[t] = Unlocked
    /\ held'[t] \in Locks
    /\ \A u \in Threads \ {t} : ~Conflict(held[u], held'[t])
    /\ held' = [held EXCEPT ![t] = held'[t]]

Release(t) ==
    /\ held[t] # Unlocked
    /\ held' = [held EXCEPT ![t] = Unlocked]

\* A writer gives up a part of its range.
Reduce(t) ==
    /\ held[t].type = "WRITER"
    /\ held'[t] \in Locks
    /\ held'[t].type = "WRITER" /\ held'[t].pts \subseteq held[t].pts
    /\ held' = [held EXCEPT ![t] = held'[t]]

Next == \E t \in Threads : Acquire(t) \/ Release(t) \/ Reduce(t)

Spec == Init /\ [][Next]_held
=============================================================================
