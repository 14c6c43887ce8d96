SPECIFICATION FairSpec
CONSTANTS
    Requesters = {r1, r2, r3}
    Requests = {"wakeup", "cancel", "resume"}
    Waiters = {r1}
    MaxSpawns = 3
    None = None
INVARIANTS
    OneWorker
    CancelHasOwner
PROPERTIES
    CancelReturns
    WorkIsDone
    CycleWaitReturns
