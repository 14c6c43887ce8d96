SPECIFICATION Spec
CONSTANTS
    v1 = v1
    v2 = v2
    None = None
    Vdevs <- MCVdevs
    Tearable <- MCTearable
    SyncMinVdevs = 1
    RingSize = 2
    MaxTxg = 3
    MaxConfigs = 2
    MaxFaults = 2
    MaxLoads = 1
INVARIANTS
    ImportKeepsCommitted
    LabelMatchesUberblock
SYMMETRY Symmetry
CHECK_DEADLOCK FALSE
