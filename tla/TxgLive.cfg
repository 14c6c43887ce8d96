SPECIFICATION ResumeSpec
CONSTANTS
    NCpus = 1
    Txers = {t1}
    Waiters = {w1}
    WaitFlags = {"NONE", "SUSPEND"}
    FirstTxg = 4
    MaxTxg = 5
    MaxSuspends = 1
PROPERTIES
    WaitSyncedReturns
    WaitOpenReturns
    StopReturns
