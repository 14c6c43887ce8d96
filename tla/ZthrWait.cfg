SPECIFICATION FairSpec
CONSTANTS
    Requesters = {r1, r2}
    Requests = {"wakeup", "cancel", "resume"}
    Waiters = {r1}
    MaxSpawns = 2
    None = None
CHECK_DEADLOCK FALSE
PROPERTIES
    WaitReturns
