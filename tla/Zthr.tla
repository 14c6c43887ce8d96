------------------------------- MODULE Zthr -------------------------------
(***************************************************************************)
(* Restartable background threads (module/zfs/zthr.c): one worker that     *)
(* checks for work, works and sleeps, and other threads that add work and  *)
(* wake, cancel and resume it or wait for the end of its cycle.            *)
(*                                                                         *)
(* One action is one section under zthr_state_lock.  The worker and a      *)
(* thread in zthr_cancel() sleep on the same condition variable.           *)
(***************************************************************************)
EXTENDS Integers, FiniteSets

CONSTANTS
    Requesters,  \* threads that use the zthr
    Requests,    \* which of "wakeup", "cancel" and "resume" they use
    Waiters,     \* those that also use zthr_wait_cycle_done()
    MaxSpawns,   \* bound: threads created over time
    None

ASSUME ZthrAssumption ==
    /\ Requests \subseteq {"wakeup", "cancel", "resume"}
    /\ Waiters \subseteq Requesters
    /\ MaxSpawns \in Nat \ {0}
    /\ None \notin Requesters \cup 1..MaxSpawns

Workers == 1..MaxSpawns

VARIABLES
    zthr_thread,     \* the worker, or None
    zthr_cancel,
    zthr_haswaiters,
    request_lock,    \* holder of zthr_request_lock
    worker,          \* [Workers -> what each kernel thread does]
    req,             \* [Requesters -> where each is]
    has_work,        \* what zthr_checkfunc looks at
    owed,            \* the requesters whose wakeup has not been answered by work
    timer            \* zthr_sleep_timeout is not 0: it sleeps for a limited time

vars == <<zthr_thread, zthr_cancel, zthr_haswaiters, request_lock, worker, req,
          has_work, owed, timer>>

\* zthr_create() or zthr_create_timer(): the thread exists, and has not taken the
\* lock yet.
Init ==
    /\ zthr_thread = 1
    /\ zthr_cancel = FALSE
    /\ zthr_haswaiters = FALSE
    /\ request_lock = None
    /\ worker = [w \in Workers |-> IF w = 1 THEN "start" ELSE "none"]
    /\ req = [r \in Requesters |-> "idle"]
    /\ has_work = FALSE
    /\ owed = {}
    /\ timer \in BOOLEAN

\* cv_broadcast(&t->zthr_cv): the worker, and a thread that cancels.
WakeWorker(wk) ==
    [w \in Workers |-> IF wk[w] = "sleep" THEN "woken" ELSE wk[w]]

\* A mutated form: the canceller is not told.
WakeCancelNone(rq) == rq

WakeCancel(rq) ==
    [r \in Requesters |-> IF rq[r] = "cancel_wait" THEN "cancel_woken" ELSE rq[r]]

\* cv_broadcast(&t->zthr_wait_cv).
WakeWaiters(rq) ==
    [r \in Requesters |-> IF rq[r] = "cycle_wait" THEN "cycle_woken" ELSE rq[r]]

-----------------------------------------------------------------------------
(* zthr_procedure().                                                       *)

\* A mutated form: the request stays behind.
LoopKeepsCancel(w, rq) ==
    IF zthr_cancel
    THEN /\ zthr_thread' = None
         /\ worker' = [WakeWorker(worker) EXCEPT ![w] = "exited"]
         /\ req' = WakeCancel(rq)
         /\ UNCHANGED zthr_cancel
    ELSE /\ worker' = [worker EXCEPT ![w] = IF has_work THEN "work" ELSE "sleep"]
         /\ req' = rq
         /\ UNCHANGED <<zthr_thread, zthr_cancel>>

\* The head of the loop, with zthr_state_lock held: stop, work or sleep.
Loop(w, rq) ==
    IF zthr_cancel
    THEN /\ zthr_thread' = None
         /\ zthr_cancel' = FALSE
         /\ worker' = [WakeWorker(worker) EXCEPT ![w] = "exited"]
         /\ req' = WakeCancel(rq)
    ELSE /\ worker' = [worker EXCEPT ![w] = IF has_work THEN "work" ELSE "sleep"]
         /\ req' = rq
         /\ UNCHANGED <<zthr_thread, zthr_cancel>>

Start(w) ==
    /\ worker[w] = "start"
    /\ Loop(w, req)
    /\ UNCHANGED <<zthr_haswaiters, request_lock, has_work, owed, timer>>

\* zthr_func() does its work and clears the indicator ...
Work(w) ==
    /\ worker[w] = "work"
    /\ has_work' = FALSE /\ owed' = {}
    /\ worker' = [worker EXCEPT ![w] = "func_done"]
    /\ UNCHANGED <<zthr_thread, zthr_cancel, zthr_haswaiters, request_lock, req, timer>>

\* ... or returns early because it is cancelled or waited for.
WorkCutShort(w) ==
    /\ worker[w] = "work"
    /\ zthr_cancel \/ zthr_haswaiters
    /\ worker' = [worker EXCEPT ![w] = "func_done"]
    /\ UNCHANGED <<zthr_thread, zthr_cancel, zthr_haswaiters, request_lock, req,
                   has_work, owed, timer>>

\* A mutated form: those who wait for the cycle are not looked at.
AgainNoWaiters(w) ==
    /\ worker[w] \in {"func_done", "woken"}
    /\ Loop(w, req)
    /\ UNCHANGED <<zthr_haswaiters, request_lock, has_work, owed, timer>>

\* After the work, or the sleep: tell those who wait for the cycle.
Again(w) ==
    /\ worker[w] \in {"func_done", "woken"}
    /\ zthr_haswaiters' = FALSE
    /\ Loop(w, IF zthr_haswaiters THEN WakeWaiters(req) ELSE req)
    /\ UNCHANGED <<request_lock, has_work, owed, timer>>

\* cv_timedwait_idle_hires() times out.
Timeout(w) ==
    /\ timer /\ worker[w] = "sleep"
    /\ worker' = [worker EXCEPT ![w] = "woken"]
    /\ UNCHANGED <<zthr_thread, zthr_cancel, zthr_haswaiters, request_lock, req,
                   has_work, owed, timer>>

-----------------------------------------------------------------------------
(* Requests.                                                               *)

\* New work for the zthr; its owner calls zthr_wakeup() next.
AddWork(r) ==
    /\ "wakeup" \in Requests /\ req[r] = "idle"
    /\ has_work' = TRUE
    /\ owed' = owed \cup {r}
    /\ req' = [req EXCEPT ![r] = "wakeup"]
    /\ UNCHANGED <<zthr_thread, zthr_cancel, zthr_haswaiters, request_lock, worker, timer>>

\* A mutated form: no broadcast.
WakeupNone(r) ==
    /\ req[r] = "wakeup"
    /\ req' = [req EXCEPT ![r] = "idle"]
    /\ UNCHANGED <<zthr_thread, zthr_cancel, zthr_haswaiters, request_lock, worker,
                   has_work, owed, timer>>

Wakeup(r) ==
    /\ req[r] = "wakeup"
    /\ worker' = WakeWorker(worker)
    /\ req' = [WakeCancel(req) EXCEPT ![r] = "idle"]
    /\ UNCHANGED <<zthr_thread, zthr_cancel, zthr_haswaiters, request_lock,
                   has_work, owed, timer>>

\* zthr_cancel() and zthr_resume() take zthr_request_lock.
Request(r, kind) ==
    /\ kind \in Requests /\ req[r] = "idle"
    /\ request_lock = None
    /\ request_lock' = r
    /\ req' = [req EXCEPT ![r] = kind]
    /\ UNCHANGED <<zthr_thread, zthr_cancel, zthr_haswaiters, worker, has_work, owed, timer>>

Cancel(r) ==
    /\ req[r] = "cancel"
    /\ IF zthr_thread # None
       THEN /\ zthr_cancel' = TRUE
            /\ worker' = WakeWorker(worker)
            /\ req' = [WakeCancel(req) EXCEPT ![r] = "cancel_wait"]
            /\ UNCHANGED request_lock
       ELSE /\ req' = [req EXCEPT ![r] = "idle"]
            /\ request_lock' = None
            /\ UNCHANGED <<zthr_cancel, worker>>
    /\ UNCHANGED <<zthr_thread, zthr_haswaiters, has_work, owed, timer>>

CancelWoken(r) ==
    /\ req[r] = "cancel_woken"
    /\ IF zthr_thread # None
       THEN req' = [req EXCEPT ![r] = "cancel_wait"] /\ UNCHANGED request_lock
       ELSE req' = [req EXCEPT ![r] = "idle"] /\ request_lock' = None
    /\ UNCHANGED <<zthr_thread, zthr_cancel, zthr_haswaiters, worker, has_work, owed, timer>>

\* A mutated form: a worker that exists is not looked for.
ResumeAlways(r) ==
    /\ req[r] = "resume"
    /\ \E w \in Workers :
           /\ worker[w] = "none" /\ (w = 1 \/ worker[w - 1] # "none")
           /\ zthr_thread' = w
           /\ worker' = [worker EXCEPT ![w] = "start"]
    /\ req' = [req EXCEPT ![r] = "idle"]
    /\ request_lock' = None
    /\ UNCHANGED <<zthr_cancel, zthr_haswaiters, has_work, owed, timer>>

Resume(r) ==
    /\ req[r] = "resume"
    /\ IF zthr_thread = None
       THEN \E w \in Workers :
                /\ worker[w] = "none" /\ (w = 1 \/ worker[w - 1] # "none")
                /\ zthr_thread' = w
                /\ worker' = [worker EXCEPT ![w] = "start"]
       ELSE UNCHANGED <<zthr_thread, worker>>
    /\ req' = [req EXCEPT ![r] = "idle"]
    /\ request_lock' = None
    /\ UNCHANGED <<zthr_cancel, zthr_haswaiters, has_work, owed, timer>>

\* zthr_wait_cycle_done() takes no zthr_request_lock.
WaitCycleDone(r) ==
    /\ r \in Waiters /\ req[r] = "idle"
    /\ zthr_thread # None
    /\ zthr_haswaiters' = TRUE
    /\ worker' = WakeWorker(worker)
    /\ req' = [WakeCancel(req) EXCEPT ![r] = "cycle_wait"]
    /\ UNCHANGED <<zthr_thread, zthr_cancel, request_lock, has_work, owed, timer>>

CycleWoken(r) ==
    /\ req[r] = "cycle_woken"
    /\ req' = [req EXCEPT ![r] = IF zthr_haswaiters /\ zthr_thread # None
                                 THEN "cycle_wait" ELSE "idle"]
    /\ UNCHANGED <<zthr_thread, zthr_cancel, zthr_haswaiters, request_lock, worker,
                   has_work, owed, timer>>

-----------------------------------------------------------------------------
WorkerStep(w) == Start(w) \/ Work(w) \/ WorkCutShort(w) \/ Again(w)

RequesterStep(r) ==
    Wakeup(r) \/ Cancel(r) \/ CancelWoken(r) \/ Resume(r) \/ CycleWoken(r)

\* Bound: a resume is asked for only while a thread is left to be created.
MayResume == worker[MaxSpawns] = "none"

Next ==
    \/ \E w \in Workers : WorkerStep(w) \/ Timeout(w)
    \/ \E r \in Requesters :
           \/ AddWork(r) \/ WaitCycleDone(r)
           \/ Request(r, "cancel")
           \/ Request(r, "resume") /\ MayResume
           \/ RequesterStep(r)

Spec == Init /\ [][Next]_vars

\* Every thread that can run gets to run, and a timer goes off.  A function that
\* is cut short again and again does its work all the same, bit by bit.
FairSpec ==
    /\ Spec
    /\ \A w \in Workers :
           WF_vars(WorkerStep(w)) /\ SF_vars(Work(w)) /\ WF_vars(Timeout(w))
    /\ \A r \in Requesters : WF_vars(RequesterStep(r))

-----------------------------------------------------------------------------
(* Properties.                                                             *)

Running(w) == worker[w] \in {"start", "work", "func_done", "sleep", "woken"}

\* However often it is cancelled and resumed, there is one worker, and it is
\* the one that zthr_thread names.
OneWorker == \A w \in Workers : Running(w) <=> zthr_thread = w

\* A cancel is not left over: the flag is set only while the thread that set it
\* waits, with the request lock, for a worker that is still there (the
\* assertions of zthr_cancel() and zthr_resume()).
CancelHasOwner ==
    zthr_cancel =>
        /\ zthr_thread # None
        /\ \E r \in Requesters : /\ request_lock = r
                                 /\ req[r] \in {"cancel_wait", "cancel_woken"}

\* zthr_cancel() returns, also when the worker is just being created, working
\* or falling asleep.
CancelReturns ==
    \A r \in Requesters :
        req[r] \in {"cancel", "cancel_wait", "cancel_woken"} ~> req[r] = "idle"

\* Work that was announced by zthr_wakeup() is done, unless the zthr is
\* cancelled.
WorkIsDone ==
    \A r \in Requesters : r \in owed ~> r \notin owed \/ zthr_thread = None

\* zthr_wait_cycle_done() returns when the worker it found is in the middle of a
\* cycle, also if the zthr is then cancelled (checked with one thread that waits:
\* the flag of a second one can send the first to sleep again).
CycleWaitReturns ==
    \A r \in Requesters :
        /\ req[r] = "cycle_wait" /\ zthr_haswaiters
        /\ \E w \in Workers : worker[w] \in {"work", "func_done", "woken"}
        ~> req[r] = "idle"

\* zthr_wait_cycle_done() returns, in whatever state it found the worker: "The
\* thread was just created/resumed, in which case the behavior is similar to
\* [3]", where it waits for the function to finish (zthr.c).
WaitReturns ==
    \A r \in Requesters :
        req[r] = "cycle_wait" ~> req[r] = "idle"
=============================================================================
