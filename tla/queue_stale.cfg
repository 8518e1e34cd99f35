CONSTANTS
    NoJob = NoJob
    a1 = a1
    a2 = a2
    a3 = a3
    b1 = b1
    c1 = c1
    kA = kA
    kB = kB
    kC = kC
    high = high
    other = other
    Keys = {kA, kB}
    Lanes = {high}
    Pushes = {a1, a2, a3}
    Key <- MCKey
    Lane <- OneLane
    Parent <- NoParent
    Hanging = {}
    Capacity = 1
    Permits <- OnePermit
    Faults = {}
SPECIFICATION Spec
INVARIANT QueuedGetsOwnOutcome
