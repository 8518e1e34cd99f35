CONSTANTS
    Nobody = Nobody
    run1 = run1
    run2 = run2
    cancel1 = cancel1
    cancel2 = cancel2
    resume1 = resume1
    resume2 = resume2
    recover1 = recover1
    recover2 = recover2
    register1 = register1
    w1 = w1
    w2 = w2
    NumSteps = 2
    MaxAttempts = 2
    Workers = {w1}
    Calls = {run1, cancel1, resume1}
    Engine <- MCEngineOf
    Kind <- MCKind
    Target <- MCTarget
    Timed <- AllSteps
    Bodies = {"ok", "fail", "wait", "fatal"}
    Faults = {"crash", "store", "abandon"}
    MaxFaults = 1
    MaxConcurrent = 3
SPECIFICATION FairSpec
INVARIANTS
    EngineTypeOK
    CompletedMeansAllSteps
    AttemptsBounded
    OneOfCompletedAndCancelled
    CancelStopsAtBoundary
PROPERTIES
    CallsReturn
