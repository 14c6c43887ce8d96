--------------------------- MODULE RangeLockTree ---------------------------
(***************************************************************************)
(* File range locks (module/zfs/zfs_rlock.c): the tree of locked ranges,   *)
(* in which overlapping readers share reference-counted proxies, and the   *)
(* callback by which a znode turns an append into a write at the end of    *)
(* the file (zfs_znode_os.c).                                              *)
(*                                                                         *)
(* One action is one section under rl_lock.  A range lock in the tree is   *)
(* known by its offset, which stays the same until it is removed or        *)
(* reduced.                                                                *)
(***************************************************************************)
EXTENDS Integers, FiniteSets, FiniteSetsExt

CONSTANTS
    Threads,
    UINT64_MAX,  \* the end of the longest range
    MaxSize,     \* the largest file size
    MaxAppend,   \* the longest append; MaxSize + MaxAppend does not overflow
    PAGE_SIZE,
    ZvolTypes,   \* the lock types asked of a lock without a callback ...
    ZnodeTypes   \* ... and of one with

ASSUME RangeLockAssumption ==
    /\ IsFiniteSet(Threads)
    /\ UINT64_MAX \in Nat \ {0} /\ PAGE_SIZE \in Nat \ {0}
    /\ MaxSize \in Nat /\ MaxAppend \in Nat
    /\ MaxSize + MaxAppend <= UINT64_MAX
    /\ ZvolTypes \subseteq {"READER", "WRITER"}
    /\ ZnodeTypes \subseteq {"READER", "WRITER", "APPEND"}

Offsets == 0..(UINT64_MAX - 1)

VARIABLES
    tree,     \* rl_tree: offset -> zfs_locked_range_t
    pc,       \* [Threads -> where a thread is]
    req,      \* [Threads -> the arguments of its zfs_rangelock_enter()]
    lr,       \* [Threads -> the lock it holds, the caller's handle]
    wait_on,  \* [Threads -> offset of the lock on whose cv it waits]
    z_size,   \* the size of the file, which the callback reads
    rl_cb     \* whether zfs_rangelock_init() was given a callback

vars == <<tree, pc, req, lr, wait_on, z_size, rl_cb>>

None == -1

NoReq == [off |-> 0, len |-> 0, type |-> "NONE", nonblock |-> FALSE]
NoLock == [off |-> 0, len |-> 0, type |-> "NONE", count |-> 0]

Init ==
    /\ tree = [o \in {} |-> 0]
    /\ pc = [t \in Threads |-> "idle"]
    /\ req = [t \in Threads |-> NoReq]
    /\ lr = [t \in Threads |-> NoLock]
    /\ wait_on = [t \in Threads |-> None]
    /\ z_size = 0
    /\ rl_cb \in BOOLEAN

Types == IF rl_cb THEN ZnodeTypes ELSE ZvolTypes

-----------------------------------------------------------------------------
(* The tree.                                                               *)

Node(len, count, type, proxy) ==
    [len |-> len, count |-> count, type |-> type, proxy |-> proxy,
     write_wanted |-> FALSE, read_wanted |-> FALSE]

End(tr, o) == o + tr[o].len

Insert(tr, o, node) ==
    [x \in DOMAIN tr \cup {o} |-> IF x = o THEN node ELSE tr[x]]

Remove(tr, os) == [x \in DOMAIN tr \ os |-> tr[x]]

\* avl_nearest() and AVL_NEXT().
First(os) == IF os = {} THEN None ELSE Min(os)
Last(os) == IF os = {} THEN None ELSE Max(os)
After(tr, off) == First({o \in DOMAIN tr : o > off})
Before(tr, off) == Last({o \in DOMAIN tr : o < off})

\* The node at off, or the last one before it.
FindOrBefore(tr, off) ==
    IF off \in DOMAIN tr THEN off ELSE Before(tr, off)

Proxify(tr, o) ==
    IF tr[o].proxy THEN tr
    ELSE [tr EXCEPT ![o] = Node(tr[o].len, 1, "READER", TRUE)]

\* Split the node at o in front of off; the front keeps its offset.
Split(tr, o, off) ==
    LET rear  == Node(End(tr, o) - off, tr[o].count, "READER", TRUE)
        front == [Proxify(tr, o) EXCEPT ![o].len = off - o]
    IN  Insert(front, off, rear)

NewProxy(tr, off, len) == Insert(tr, off, Node(len, 1, "READER", TRUE))

Bump(tr, o) == [Proxify(tr, o) EXCEPT ![o].count = @ + 1]

\* A mutated form: the gap between two nodes is not filled.
FillGapNot(tr, prev, next) == tr

\* Cover the gap between two nodes of the new range.
FillGap(tr, prev, next) ==
    IF prev # None /\ End(tr, prev) < next
    THEN NewProxy(tr, End(tr, prev), next - End(tr, prev))
    ELSE tr

\* The loop of zfs_rangelock_add_reader(), from node next to the end of the
\* new range.
RECURSIVE ShareFrom(_, _, _, _)
ShareFrom(tr, end, prev, next) ==
    IF next = None \/ end <= next
    THEN NewProxy(tr, End(tr, prev), end - End(tr, prev))
    ELSE LET tr1 == FillGap(tr, prev, next)
         IN  CASE end = End(tr1, next) -> Bump(tr1, next)
               [] end < End(tr1, next) -> Bump(Split(tr1, next, end), next)
               [] OTHER -> LET tr2 == Bump(tr1, next)
                           IN  ShareFrom(tr2, end, next, After(tr2, next))

AddReader(tr, off, len) ==
    LET prev == FindOrBefore(tr, off)
        hit  == prev # None /\ End(tr, prev) > off
        tr1  == IF hit /\ prev # off THEN Split(tr, prev, off) ELSE tr
        next == IF hit THEN off ELSE After(tr, off)
    IN  IF next = None \/ off + len <= next
        THEN Insert(tr, off, Node(len, 1, "READER", FALSE))
        ELSE LET tr2 == IF off < next THEN NewProxy(tr1, off, next - off)
                                      ELSE tr1
             IN  ShareFrom(tr2, off + len, None, next)

-----------------------------------------------------------------------------
(* Who has to wait for whom.                                               *)

\* The lock a writer of [off, off + len) waits for, or None.
WriterWaitsFor(off, len) ==
    LET after  == After(tree, off)
        before == Before(tree, off)
    IN  CASE off \in DOMAIN tree -> off
          [] off \notin DOMAIN tree /\ after # None /\ after < off + len ->
                 after
          [] OTHER -> IF before # None /\ End(tree, before) > off
                      THEN before ELSE None

\* A node that no new reader may share.
ExcludesReaders(o) == tree[o].type = "WRITER" \/ tree[o].write_wanted

\* The lock a reader of [off, off + len) waits for, or None.
ReaderWaitsFor(off, len) ==
    LET prev == FindOrBefore(tree, off)
        hits == {o \in DOMAIN tree : o > off /\ o < off + len
                                      /\ ExcludesReaders(o)}
    IN  IF prev # None /\ off < End(tree, prev) /\ ExcludesReaders(prev)
        THEN prev
        ELSE First(hits)

\* The callback of a znode, rl_cb: an append starts at the end of the file, a
\* write past an unaligned end of file starts there too, and a write that may
\* grow the block size locks the whole file.
WriteRange(r, grow) ==
    LET off == IF r.type = "APPEND" THEN z_size ELSE r.off
        gap == IF off > z_size /\ z_size % PAGE_SIZE # 0
               THEN off - z_size ELSE 0
        len == IF r.len > UINT64_MAX - gap THEN UINT64_MAX ELSE r.len + gap
    IN  CASE ~rl_cb -> [off |-> r.off, len |-> r.len]
          [] rl_cb /\ grow -> [off |-> 0, len |-> UINT64_MAX]
          [] OTHER -> [off |-> off - gap, len |-> len]

-----------------------------------------------------------------------------
(* zfs_rangelock_enter() and zfs_rangelock_tryenter().                     *)

\* The originals that have been replaced by proxies (lr_count = 0).
Proxied(u, tr) ==
    /\ lr[u].count = 1 /\ lr[u].type = "READER"
    /\ tr[lr[u].off].proxy

Got(t, r, lock, tr) ==
    /\ tree' = tr
    /\ lr' = [u \in Threads |->
                 IF u = t THEN lock
                 ELSE IF Proxied(u, tr) THEN [lr[u] EXCEPT !.count = 0]
                 ELSE lr[u]]
    /\ pc' = [pc EXCEPT ![t] = "held"]
    /\ req' = [req EXCEPT ![t] = r]
    /\ UNCHANGED wait_on

\* The lock at o is in the way: give up, or ask to be woken and wait.
Blocked(t, r, o, pcw, wanted) ==
    IF r.nonblock
    THEN /\ pc' = [pc EXCEPT ![t] = "idle"]
         /\ req' = [req EXCEPT ![t] = NoReq]
         /\ UNCHANGED <<tree, lr, wait_on>>
    ELSE /\ tree' = wanted
         /\ pc' = [pc EXCEPT ![t] = pcw]
         /\ wait_on' = [wait_on EXCEPT ![t] = o]
         /\ req' = [req EXCEPT ![t] = r]
         /\ UNCHANGED lr

TryWriter(t, r, grow) ==
    LET w == WriteRange(r, grow)
        o == WriterWaitsFor(w.off, w.len)
    IN  IF o = None
        THEN Got(t, r, [off |-> w.off, len |-> w.len, type |-> "WRITER",
                        count |-> 1],
                 Insert(tree, w.off, Node(w.len, 1, "WRITER", FALSE)))
        ELSE Blocked(t, r, o, "write_wait",
                     [tree EXCEPT ![o].write_wanted = TRUE])

TryReader(t, r) ==
    LET o == ReaderWaitsFor(r.off, r.len)
    IN  IF o = None
        THEN LET tr == AddReader(tree, r.off, r.len)
             IN  Got(t, r, [off |-> r.off, len |-> r.len, type |-> "READER",
                            count |-> IF tr[r.off].proxy THEN 0 ELSE 1], tr)
        ELSE Blocked(t, r, o, "read_wait",
                     [tree EXCEPT ![o].read_wanted = TRUE])

Try(t, r, grow) ==
    /\ IF r.type = "READER" THEN ~grow /\ TryReader(t, r)
                            ELSE TryWriter(t, r, grow)
    /\ UNCHANGED <<z_size, rl_cb>>

\* A mutated form: the length is not checked for overflow.
ClipNot(off, len) == len

\* A length that would overflow is cut at the end.
Clip(off, len) == IF off + len > UINT64_MAX THEN UINT64_MAX - off ELSE len

Enter(t, off, len, type, nonblock, grow) ==
    /\ pc[t] = "idle"
    /\ Try(t, [off |-> off, len |-> Clip(off, len), type |-> type,
               nonblock |-> nonblock], grow)

\* A mutated form: a woken append is not an append any more.
RetryKeepsRange(t, grow) ==
    /\ pc[t] = "retry"
    /\ Try(t, IF req[t].type = "APPEND" THEN [req[t] EXCEPT !.type = "WRITER"]
              ELSE req[t], grow)

\* A woken thread starts again from its original arguments.
Retry(t, grow) ==
    /\ pc[t] = "retry"
    /\ Try(t, req[t], grow)

-----------------------------------------------------------------------------
(* zfs_rangelock_exit() and zfs_rangelock_reduce().                        *)

\* A mutated form: the readers are not woken.
WokenWriters(u, os) == pc[u] = "write_wait" /\ wait_on[u] \in os

\* cv_broadcast() of both condition variables of the locks at os.
Woken(u, os) == pc[u] \in {"read_wait", "write_wait"} /\ wait_on[u] \in os

Wake(os, t, to) ==
    /\ pc' = [u \in Threads |-> IF u = t THEN to
                                ELSE IF Woken(u, os) THEN "retry" ELSE pc[u]]
    /\ wait_on' = [u \in Threads |->
                       IF Woken(u, os) THEN None ELSE wait_on[u]]

\* The proxies that make up the range of a reader.
Shares(t) ==
    {o \in DOMAIN tree : lr[t].off <= o /\ o < lr[t].off + lr[t].len}

Exit(t) ==
    LET last == IF lr[t].count = 1 THEN {lr[t].off}
                ELSE {o \in Shares(t) : tree[o].count = 1}
        less == IF lr[t].count = 1 THEN {} ELSE Shares(t)
    IN  /\ pc[t] = "held"
        /\ tree' = Remove([o \in DOMAIN tree |->
                              IF o \in less
                              THEN [tree[o] EXCEPT !.count = @ - 1]
                              ELSE tree[o]], last)
        /\ Wake(last, t, "idle")
        /\ lr' = [lr EXCEPT ![t] = NoLock]
        /\ req' = [req EXCEPT ![t] = NoReq]
        /\ UNCHANGED <<z_size, rl_cb>>

\* A writer of the whole file keeps [off, off + len) ...
Reduce(t, off, len) ==
    /\ pc[t] = "held" /\ rl_cb
    /\ lr[t].type = "WRITER" /\ lr[t].off = 0 /\ lr[t].len = UINT64_MAX
    /\ tree' = Insert(Remove(tree, {0}), off, [tree[0] EXCEPT !.len = len])
    /\ lr' = [lr EXCEPT ![t].off = off, ![t].len = len]
    /\ wait_on' = [u \in Threads |->
                       IF wait_on[u] = 0 THEN off ELSE wait_on[u]]
    /\ pc' = [pc EXCEPT ![t] = "reduced"]
    /\ UNCHANGED <<req, z_size, rl_cb>>

\* ... and, when rl_lock has been dropped, wakes those who wait for it.
ReduceWake(t) ==
    /\ pc[t] = "reduced"
    /\ Wake({lr[t].off}, t, "held")
    /\ UNCHANGED <<tree, req, lr, z_size, rl_cb>>

\* The holder of a write lock extends the file within its range; the holder
\* of the whole file may also cut it (zfs_write(), zfs_extend(), zfs_trunc()).
SetSize(t, size) ==
    /\ pc[t] = "held" /\ lr[t].type = "WRITER" /\ rl_cb
    /\ size # z_size
    /\ \/ lr[t].len = UINT64_MAX
       \/ size > z_size /\ lr[t].off < size /\ size <= lr[t].off + lr[t].len
    /\ z_size' = size
    /\ UNCHANGED <<tree, pc, req, lr, wait_on, rl_cb>>

Next ==
    \E t \in Threads :
        \/ \E off \in Offsets, len \in 1..UINT64_MAX, type \in Types,
              nonblock \in BOOLEAN, grow \in BOOLEAN :
               /\ type = "APPEND" => off = 0 /\ len <= MaxAppend
               /\ Enter(t, off, len, type, nonblock, grow)
        \/ \E grow \in BOOLEAN : Retry(t, grow)
        \/ Exit(t)
        \/ \E off \in Offsets : \E len \in 1..(UINT64_MAX - off) :
               Reduce(t, off, len)
        \/ ReduceWake(t)
        \/ \E size \in 0..MaxSize : SetSize(t, size)

Spec == Init /\ [][Next]_vars

-----------------------------------------------------------------------------
(* Properties.                                                             *)

Holds(t) == pc[t] \in {"held", "reduced"}

Bytes(off, len) == off..(off + len - 1)

Covers(t, x) == Holds(t) /\ x \in Bytes(lr[t].off, lr[t].len)

\* The variables keep their types: the tree maps offsets to locks of at least
\* one byte, each with a positive count.
TypeOK ==
    /\ DOMAIN tree \subseteq Offsets
    /\ \A o \in DOMAIN tree :
           tree[o] \in [len : 1..UINT64_MAX, count : 1..Cardinality(Threads),
                        type : {"READER", "WRITER"}, proxy : BOOLEAN,
                        write_wanted : BOOLEAN, read_wanted : BOOLEAN]
    /\ pc \in [Threads -> {"idle", "read_wait", "write_wait", "retry", "held",
                            "reduced"}]
    /\ req \in [Threads -> [off : Offsets, len : 0..UINT64_MAX,
                             type : Types \cup {"NONE"}, nonblock : BOOLEAN]]
    /\ lr \in [Threads -> [off : Offsets, len : 0..UINT64_MAX,
                            type : {"NONE", "READER", "WRITER"}, count : {0, 1}]]
    /\ wait_on \in [Threads -> Offsets \cup {None}]
    /\ z_size \in 0..MaxSize
    /\ rl_cb \in BOOLEAN

\* The tree describes the locks that are held: its nodes are disjoint, the
\* node over a byte counts the threads whose range covers that byte, and the
\* range of a reader without a node of its own is exactly tiled by proxies
\* (the assertions of zfs_rangelock_exit_reader()).
TreeMatchesHolders ==
    /\ \A x \in 0..(UINT64_MAX - 1) :
           LET over == {o \in DOMAIN tree : x \in Bytes(o, tree[o].len)}
               own  == {t \in Threads : Covers(t, x)}
           IN  /\ Cardinality(over) <= 1
               /\ own = {} <=> over = {}
               /\ \A o \in over : /\ tree[o].count = Cardinality(own)
                                  /\ \A t \in own : lr[t].type = tree[o].type
    /\ \A t \in Threads : Holds(t) =>
           /\ lr[t].count = 1 =>
                  /\ lr[t].off \in DOMAIN tree /\ ~tree[lr[t].off].proxy
                  /\ tree[lr[t].off].len = lr[t].len
           /\ lr[t].count = 0 =>
                  /\ lr[t].off \in Shares(t)
                  /\ \A o \in Shares(t) : /\ tree[o].proxy
                                           /\ End(tree, o) <= lr[t].off + lr[t].len

\* No wakeup is lost: a thread sleeps only on a lock that is in the tree and
\* has the flag that makes its last holder wake the sleepers, also when the lock
\* has been split, turned into a proxy or reduced since.
SleepersWillBeWoken ==
    \A t \in Threads :
        /\ pc[t] = "write_wait" =>
               wait_on[t] \in DOMAIN tree /\ tree[wait_on[t]].write_wanted
        /\ pc[t] = "read_wait" =>
               wait_on[t] \in DOMAIN tree /\ tree[wait_on[t]].read_wanted

\* An append that waited locks from where the file ends when it gets the lock,
\* not from where it ended when the append was asked for.
AppendLocksEnd ==
    [][\A t \in Threads :
          ~Holds(t) /\ Holds(t)' /\ lr'[t].type = "WRITER"
              /\ (pc[t] = "retry" => req[t].type = "APPEND")
              /\ (pc[t] = "idle" => req'[t].type = "APPEND")
          => lr'[t].off = z_size \/ lr'[t].len = UINT64_MAX]_vars

\* The tree implements the lock: what a thread holds conflicts with nothing
\* that another thread holds, however the readers share the nodes.
Abs == INSTANCE RangeLock
    WITH Points <- 0..(UINT64_MAX - 1),
         held <- [t \in Threads |->
                     IF Holds(t)
                     THEN [type |-> lr[t].type, pts |-> Bytes(lr[t].off, lr[t].len)]
                     ELSE [type |-> "NONE", pts |-> {}]]

ImplementsRangeLock == Abs!Spec
=============================================================================
