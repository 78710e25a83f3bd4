SPECIFICATION AttendedSpec
CONSTANTS
    N = 6
    Amount <- MCAmount
    MaxTotal = 20
    MaxPerTarget = 3
    MaxTargets = 6
    TTL = 1
    Counts = {none}
    None = none
    MaxTime = 3
    MaxLosses = 3
CHECK_DEADLOCK FALSE
INVARIANTS
    ShownIsConfirmed
    SuccessIsCurrent
    LinksAgreeWithVerdicts
PROPERTIES
    ExecutionWasIntended
    EveryTaskEnds
    ApprovedIsTreated
