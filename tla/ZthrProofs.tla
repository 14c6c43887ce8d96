----------------------------- MODULE ZthrProofs -----------------------------
(***************************************************************************)
(* The safety properties of Zthr, proved for any set of threads that use   *)
(* the zthr and any number of workers created over time.                   *)
(***************************************************************************)
EXTENDS Zthr, TLAPS

-----------------------------------------------------------------------------
(* The inductive invariant.                                                *)

WorkerStates == {"none", "start", "work", "func_done", "sleep", "woken", "exited"}

\* Where a requester is with zthr_request_lock, and without it.
Locked == {"cancel", "cancel_wait", "cancel_woken", "resume"}
Unlocked == {"idle", "wakeup", "cycle_wait", "cycle_woken"}

\* The variables keep their types.
TypeOK ==
    /\ zthr_thread \in Workers \cup {None}
    /\ zthr_cancel \in BOOLEAN
    /\ request_lock \in Requesters \cup {None}
    /\ worker \in [Workers -> WorkerStates]
    /\ req \in [Requesters -> Locked \cup Unlocked]

\* zthr_request_lock is held from the call of zthr_cancel() or zthr_resume() to its
\* return, across the sleeps of zthr_cancel().
LockHeld == \A r \in Requesters : req[r] \in Locked <=> request_lock = r

IInv == TypeOK /\ LockHeld /\ OneWorker /\ CancelHasOwner

-----------------------------------------------------------------------------
(* Broadcasts leave everybody's part in the invariant alone.               *)

\* A broadcast moves workers within those that run.
LEMMA WakeWorkerKeeps ==
    ASSUME NEW wk \in [Workers -> WorkerStates]
    PROVE  /\ WakeWorker(wk) \in [Workers -> WorkerStates]
           /\ \A w \in Workers :
                  WakeWorker(wk)[w] \in {"start", "work", "func_done", "sleep", "woken"}
                    <=> wk[w] \in {"start", "work", "func_done", "sleep", "woken"}
  BY DEF WakeWorker, WorkerStates

\* A broadcast moves a canceller within those that hold the request lock.
LEMMA WakeCancelKeeps ==
    ASSUME NEW rq \in [Requesters -> Locked \cup Unlocked]
    PROVE  /\ WakeCancel(rq) \in [Requesters -> Locked \cup Unlocked]
           /\ \A r \in Requesters :
                  /\ WakeCancel(rq)[r] \in Locked <=> rq[r] \in Locked
                  /\ WakeCancel(rq)[r] \in {"cancel_wait", "cancel_woken"}
                       <=> rq[r] \in {"cancel_wait", "cancel_woken"}
  BY DEF WakeCancel, Locked, Unlocked

\* A broadcast to those who wait for a cycle moves no thread with the request lock.
LEMMA WakeWaitersKeeps ==
    ASSUME NEW rq \in [Requesters -> Locked \cup Unlocked]
    PROVE  /\ WakeWaiters(rq) \in [Requesters -> Locked \cup Unlocked]
           /\ \A r \in Requesters :
                  /\ WakeWaiters(rq)[r] \in Locked <=> rq[r] \in Locked
                  /\ rq[r] \in Locked => WakeWaiters(rq)[r] = rq[r]
  BY DEF WakeWaiters, Locked, Unlocked

-----------------------------------------------------------------------------
(* The invariant holds initially, and every step preserves it.             *)

\* zthr_create() establishes the invariant.
LEMMA InvInit == Init => IInv
<1> SUFFICES ASSUME Init
             PROVE  IInv
  OBVIOUS
<1> USE ZthrAssumption DEF Init
<1>1. TypeOK
  <2>1. worker \in [Workers -> WorkerStates]
    BY DEF WorkerStates
  <2>2. req \in [Requesters -> Locked \cup Unlocked]
    BY DEF Unlocked
  <2>3. zthr_thread \in Workers
    BY DEF Workers
  <2> QED
    BY <2>1, <2>2, <2>3 DEF TypeOK
<1>2. LockHeld
  BY DEF LockHeld, Locked
<1>3. OneWorker
  BY DEF OneWorker, Running, Workers
<1>4. CancelHasOwner
  BY DEF CancelHasOwner
<1> QED
  BY <1>1, <1>2, <1>3, <1>4 DEF IInv

\* The head of the worker's loop: it exits and takes the cancel with it, or stays.
LEMMA LoopStep ==
    ASSUME IInv, NEW w \in Workers, Running(w), UNCHANGED request_lock,
           NEW rq \in [Requesters -> Locked \cup Unlocked],
           \A r \in Requesters : /\ rq[r] \in Locked <=> req[r] \in Locked
                                 /\ req[r] \in Locked => rq[r] = req[r],
           Loop(w, rq)
    PROVE  IInv'
<1> USE ZthrAssumption DEF IInv
<1>1. zthr_thread = w /\ w # None
  BY DEF OneWorker, Workers
<1>2. CASE zthr_cancel
  <2>1. /\ zthr_thread' = None /\ zthr_cancel' = FALSE
        /\ worker' = [WakeWorker(worker) EXCEPT ![w] = "exited"]
        /\ req' = WakeCancel(rq)
    BY <1>2 DEF Loop
  <2>2. TypeOK'
    BY <2>1, WakeWorkerKeeps, WakeCancelKeeps DEF TypeOK, WorkerStates
  <2>3. LockHeld'
    BY <2>1, WakeCancelKeeps DEF LockHeld
  <2>4. OneWorker'
    <3> SUFFICES ASSUME NEW v \in Workers
                 PROVE  ~Running(v)' /\ v # None
      BY <2>1 DEF OneWorker
    <3>1. v # w => ~Running(v)
      BY <1>1 DEF OneWorker
    <3>2. v # w => ~Running(v)'
      BY <2>1, <3>1, WakeWorkerKeeps DEF Running, TypeOK
    <3>3. ~Running(w)'
      BY <2>1, WakeWorkerKeeps DEF Running, TypeOK
    <3> QED
      BY <3>2, <3>3 DEF Workers
  <2> QED
    BY <2>1, <2>2, <2>3, <2>4 DEF CancelHasOwner
<1>3. CASE ~zthr_cancel
  <2>1. /\ UNCHANGED <<zthr_thread, zthr_cancel>> /\ req' = rq
        /\ worker' = [worker EXCEPT ![w] = IF has_work THEN "work" ELSE "sleep"]
    BY <1>3 DEF Loop
  <2>2. TypeOK'
    BY <2>1 DEF TypeOK, WorkerStates
  <2>3. LockHeld'
    BY <2>1 DEF LockHeld
  <2>4. OneWorker'
    BY <2>1, <1>1 DEF OneWorker, Running, TypeOK
  <2> QED
    BY <1>3, <2>1, <2>2, <2>3, <2>4 DEF CancelHasOwner
<1> QED
  BY <1>2, <1>3

\* A step of a worker.
LEMMA WorkerKeeps ==
    ASSUME IInv, NEW w \in Workers, WorkerStep(w) \/ Timeout(w)
    PROVE  IInv'
<1> USE DEF IInv
<1>1. CASE Start(w)
  BY <1>1, LoopStep DEF Start, Running, TypeOK
<1>2. CASE Again(w)
  <2> DEFINE rq == IF zthr_haswaiters THEN WakeWaiters(req) ELSE req
  <2>1. /\ rq \in [Requesters -> Locked \cup Unlocked]
        /\ \A r \in Requesters : /\ rq[r] \in Locked <=> req[r] \in Locked
                                 /\ req[r] \in Locked => rq[r] = req[r]
    BY WakeWaitersKeeps DEF TypeOK
  <2>2. Running(w) /\ UNCHANGED request_lock /\ Loop(w, rq)
    BY <1>2 DEF Again, Running
  <2> QED
    BY <2>1, <2>2, LoopStep
<1>3. CASE Work(w) \/ WorkCutShort(w) \/ Timeout(w)
  <2>1. /\ UNCHANGED <<zthr_thread, zthr_cancel, request_lock, req>>
        /\ \E s \in {"func_done", "woken"} : worker' = [worker EXCEPT ![w] = s]
        /\ Running(w)
    BY <1>3 DEF Work, WorkCutShort, Timeout, Running
  <2>2. TypeOK'
    BY <2>1 DEF TypeOK, WorkerStates
  <2>3. OneWorker'
    BY <2>1 DEF OneWorker, Running, TypeOK
  <2> QED
    BY <2>1, <2>2, <2>3 DEF LockHeld, CancelHasOwner
<1> QED
  BY <1>1, <1>2, <1>3 DEF WorkerStep

\* A step of a requester.
LEMMA RequesterKeeps ==
    ASSUME IInv, NEW r \in Requesters,
           \/ AddWork(r) \/ WaitCycleDone(r) \/ RequesterStep(r)
           \/ Request(r, "cancel") \/ Request(r, "resume")
    PROVE  IInv'
<1> USE ZthrAssumption DEF IInv
<1>1. r # None
  OBVIOUS
<1>2. CASE AddWork(r) \/ CycleWoken(r)
  <2>1. /\ UNCHANGED <<zthr_thread, zthr_cancel, request_lock, worker>>
        /\ req[r] \in Unlocked
        /\ \E s \in Unlocked : req' = [req EXCEPT ![r] = s]
    BY <1>2 DEF AddWork, CycleWoken, Unlocked
  <2>2. TypeOK' /\ OneWorker'
    BY <2>1 DEF TypeOK, OneWorker, Running
  <2>3. LockHeld' /\ CancelHasOwner'
    BY <2>1 DEF TypeOK, LockHeld, CancelHasOwner, Locked, Unlocked
  <2> QED
    BY <2>2, <2>3
<1>3. CASE Wakeup(r) \/ WaitCycleDone(r)
  <2>1. /\ UNCHANGED <<zthr_thread, zthr_cancel, request_lock>>
        /\ req[r] \in Unlocked
        /\ worker' = WakeWorker(worker)
        /\ \E s \in Unlocked : req' = [WakeCancel(req) EXCEPT ![r] = s]
    BY <1>3 DEF Wakeup, WaitCycleDone, Unlocked
  <2>2. TypeOK'
    BY <2>1, WakeWorkerKeeps, WakeCancelKeeps DEF TypeOK
  <2>3. OneWorker'
    BY <2>1, WakeWorkerKeeps DEF TypeOK, OneWorker, Running
  <2>4. \A q \in Requesters :
            /\ req'[q] \in Locked <=> req[q] \in Locked
            /\ req[q] \in {"cancel_wait", "cancel_woken"}
                 => req'[q] \in {"cancel_wait", "cancel_woken"}
    BY <2>1, WakeCancelKeeps DEF TypeOK, Locked, Unlocked
  <2> QED
    BY <2>1, <2>2, <2>3, <2>4 DEF LockHeld, CancelHasOwner
<1>4. CASE Request(r, "cancel") \/ Request(r, "resume")
  <2>1. /\ UNCHANGED <<zthr_thread, zthr_cancel, worker>>
        /\ request_lock = None /\ request_lock' = r
        /\ \E s \in {"cancel", "resume"} : req' = [req EXCEPT ![r] = s]
    BY <1>4 DEF Request
  <2>2. ~zthr_cancel
    BY <2>1 DEF CancelHasOwner
  <2>3. TypeOK' /\ OneWorker'
    BY <2>1 DEF TypeOK, OneWorker, Running, Locked
  <2>4. LockHeld'
    BY <2>1 DEF TypeOK, LockHeld, Locked
  <2> QED
    BY <2>1, <2>2, <2>3, <2>4 DEF CancelHasOwner
<1>5. CASE Cancel(r)
  <2>1. request_lock = r
    BY <1>5 DEF Cancel, LockHeld, Locked
  <2>2. CASE zthr_thread # None
    <3>1. /\ UNCHANGED <<zthr_thread, request_lock>> /\ zthr_cancel' = TRUE
          /\ worker' = WakeWorker(worker)
          /\ req' = [WakeCancel(req) EXCEPT ![r] = "cancel_wait"]
      BY <1>5, <2>2 DEF Cancel
    <3>2. TypeOK'
      BY <3>1, WakeWorkerKeeps, WakeCancelKeeps DEF TypeOK, Locked
    <3>3. OneWorker'
      BY <3>1, WakeWorkerKeeps DEF TypeOK, OneWorker, Running
    <3>4. LockHeld'
      BY <2>1, <3>1, WakeCancelKeeps DEF TypeOK, LockHeld, Locked
    <3>5. CancelHasOwner'
      BY <2>1, <2>2, <3>1, WakeCancelKeeps DEF TypeOK, CancelHasOwner
    <3> QED
      BY <3>2, <3>3, <3>4, <3>5
  <2>3. CASE zthr_thread = None
    <3>1. /\ UNCHANGED <<zthr_thread, zthr_cancel, worker>> /\ request_lock' = None
          /\ req' = [req EXCEPT ![r] = "idle"]
      BY <1>5, <2>3 DEF Cancel
    <3>2. TypeOK' /\ OneWorker'
      BY <3>1 DEF TypeOK, OneWorker, Running, Unlocked
    <3>3. LockHeld' /\ CancelHasOwner'
      BY <2>1, <2>3, <3>1 DEF TypeOK, LockHeld, CancelHasOwner, Locked
    <3> QED
      BY <3>2, <3>3
  <2> QED
    BY <2>2, <2>3
<1>6. CASE CancelWoken(r)
  <2>1. request_lock = r
    BY <1>6 DEF CancelWoken, LockHeld, Locked
  <2>2. /\ UNCHANGED <<zthr_thread, zthr_cancel, worker>>
        /\ \/ /\ zthr_thread # None /\ UNCHANGED request_lock
              /\ req' = [req EXCEPT ![r] = "cancel_wait"]
           \/ /\ zthr_thread = None /\ request_lock' = None
              /\ req' = [req EXCEPT ![r] = "idle"]
    BY <1>6 DEF CancelWoken
  <2>3. TypeOK' /\ OneWorker'
    BY <2>2 DEF TypeOK, OneWorker, Running, Locked, Unlocked
  <2>4. LockHeld' /\ CancelHasOwner'
    BY <2>1, <2>2 DEF TypeOK, LockHeld, CancelHasOwner, Locked
  <2> QED
    BY <2>3, <2>4
<1>7. CASE Resume(r)
  <2>1. request_lock = r /\ req[r] = "resume"
    BY <1>7 DEF Resume, LockHeld, Locked
  <2>2. /\ UNCHANGED zthr_cancel /\ request_lock' = None
        /\ req' = [req EXCEPT ![r] = "idle"]
        /\ \/ UNCHANGED <<zthr_thread, worker>>
           \/ /\ zthr_thread = None
              /\ \E w \in Workers : /\ zthr_thread' = w
                                    /\ worker' = [worker EXCEPT ![w] = "start"]
    BY <1>7 DEF Resume
  <2>3. ~zthr_cancel
    BY <2>1 DEF CancelHasOwner
  <2>4. TypeOK'
    BY <2>2 DEF TypeOK, WorkerStates, Unlocked
  <2>5. OneWorker'
    BY <2>2 DEF TypeOK, OneWorker, Running, Workers
  <2>6. LockHeld'
    BY <2>1, <2>2 DEF TypeOK, LockHeld, Locked
  <2> QED
    BY <2>2, <2>3, <2>4, <2>5, <2>6 DEF CancelHasOwner
<1> QED
  BY <1>2, <1>3, <1>4, <1>5, <1>6, <1>7 DEF RequesterStep

\* IInv is inductive.
LEMMA InvStep == IInv /\ [Next]_vars => IInv'
<1> SUFFICES ASSUME IInv, [Next]_vars
             PROVE  IInv'
  OBVIOUS
<1>1. CASE UNCHANGED vars
  BY <1>1 DEF vars, IInv, TypeOK, LockHeld, OneWorker, Running, CancelHasOwner
<1>2. ASSUME NEW w \in Workers, WorkerStep(w) \/ Timeout(w)
      PROVE  IInv'
  BY <1>2, WorkerKeeps
<1>3. ASSUME NEW r \in Requesters,
             \/ AddWork(r) \/ WaitCycleDone(r) \/ RequesterStep(r)
             \/ Request(r, "cancel") \/ Request(r, "resume")
      PROVE  IInv'
  BY <1>3, RequesterKeeps
<1> QED
  BY <1>1, <1>2, <1>3 DEF Next

-----------------------------------------------------------------------------
(* The theorems.                                                           *)

\* Every reachable state satisfies the invariant.
THEOREM Invariance == Spec => []IInv
  BY InvInit, InvStep, PTL DEF Spec

\* zthr_resume() never creates a second worker, and zthr_thread is the one there is.
THEOREM OnlyOneWorker == Spec => []OneWorker
<1>1. IInv => OneWorker
  BY DEF IInv
<1> QED
  BY <1>1, Invariance, PTL

\* zthr_cancel is set only while the thread that set it waits for the worker to go.
THEOREM NoCancelLeftOver == Spec => []CancelHasOwner
<1>1. IInv => CancelHasOwner
  BY DEF IInv
<1> QED
  BY <1>1, Invariance, PTL

=============================================================================
