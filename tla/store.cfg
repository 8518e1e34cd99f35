CONSTANTS
    c1 = c1
    c2 = c2
    Nobody = Nobody
    Clients = {c1, c2}
    Workers = {c1, c2}
    Appendable <- MCAppendable
    Symbols <- MCSymbols
    MaxNumber = 2
    Decimal <- MCDecimal
    SomeEvents <- MCEvents
    SomeErrors <- MCErrors
    SomePolicies <- MCPolicies
    SomeAttempts <- MCAttempts
    MaxEvents = 3
    MaxMillis = 3
    Ttl = 6
    PerSecond = 4
    Fallback = 1
    Slack = 3
    MaxTime = 12
    DurationMax = 20
SPECIFICATION Spec
INVARIANTS
    LoadReturnsAppended
    OpenMeansMigrated
    StampsFollowReturns
    CodecRoundTrip
    MarkersSurvive
    BackoffIsCapped
    LeaseTypeOK
    NoLeaseInLimbo
    LeaseOutlivesInterval
PROPERTIES
    LeasesImplementStore
