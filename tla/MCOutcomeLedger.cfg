SPECIFICATION Spec
CONSTANTS
    Target = {t1, t2}
    Foreign = foreign
    Expected <- MCExpected
    Amount = {3}
    Window = 1
    MaxTime = 1
    MaxSent = 3
    MaxDeliveries = 3
SYMMETRY TargetSymmetry
CHECK_DEADLOCK FALSE
INVARIANTS
    IInv
    AggregateMatchesTargets
    AuditTellsTheStatus
    ProcessedCountsSettlements
    RecoveryIsBacked
    FirstObservedIsEarliest
PROPERTIES
    VerdictIsFinal
    ImplementsLedger
