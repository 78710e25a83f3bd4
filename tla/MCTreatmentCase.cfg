SPECIFICATION Spec
CONSTANTS
    N = 3
    Amount <- MCSmall
    MaxTotal = 20
    MaxPerTarget = 3
    MaxTargets = 6
    TTL = 1
    Counts <- MCCounts
    None = none
    MaxTime = 3
INVARIANTS
    TypeOK
    TimelineTellsTheCase
    OpenLinkIffPending
    RecoveredIsOwed
PROPERTIES
    ImplementsGate
