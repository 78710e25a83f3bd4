SPECIFICATION Spec
CONSTANTS
    N = 3
    Amount <- MCLarge
    MaxTotal = 20
    MaxPerTarget = 3
    MaxTargets = 6
    TTL = 1
    Counts = {none}
    None = none
    MaxTime = 2
INVARIANTS
    GateNeedsPolicy
