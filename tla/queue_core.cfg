CONSTANTS
    NoJob = NoJob
    a1 = a1
    a2 = a2
    a3 = a3
    b1 = b1
    c1 = c1
    kA = kA
    kB = kB
    kC = kC
    high = high
    other = other
    Keys = {kA, kB, kC}
    Lanes = {high}
    Pushes = {a1, a2, a3, b1, c1}
    Key <- ThreeKeys
    Lane <- OneLane
    Parent <- NoParent
    Hanging = {}
    Capacity = 1
    Permits <- TwoPermits
    Faults = {"cancel", "drop"}
SPECIFICATION Spec
SYMMETRY Interchangeable
INVARIANTS
    TypeOK
    Consistent
    SingleFlight
    ClaimsAreOwned
    NoRunAfterSuccess
    AnswersAgree
    PermitsRespected
PROPERTY CompletedIsFinal
