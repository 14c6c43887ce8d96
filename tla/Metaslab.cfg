SPECIFICATION Spec
CONSTANTS
    m0 = m0
    m1 = m1
    m2 = m2
    o1 = o1
    o2 = o2
    None = None
    Instances <- MCInstances
    UnloadDelay = 1
INVARIANTS
    SpaceIsConserved
    ImportExact
    RewindIntact
    CheckpointIntact
    FreedSpaceReturns
SYMMETRY Symmetry
CHECK_DEADLOCK FALSE
