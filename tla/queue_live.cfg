CONSTANTS
    NoJob = NoJob
    a1 = a1
    a2 = a2
    a3 = a3
    b1 = b1
    c1 = c1
    kA = kA
    kB = kB
    kC = kC
    high = high
    other = other
    Keys = {kA, kB, kC}
    Lanes = {high, other}
    Pushes = {a1, a2, b1, c1}
    Key <- ThreeKeys
    Lane <- TwoLanes
    Parent <- Nested
    Hanging = {c1}
    Capacity = 1
    Permits <- SparePermit
    Faults = {"cancel", "drop", "shutdown"}
SPECIFICATION FairSpec
INVARIANTS
    NoWaiterLeftBehind
    JobLostHasCause
PROPERTIES
    EveryHandleResolves
    ImplementsIdempotentKeys
CHECK_DEADLOCK FALSE
