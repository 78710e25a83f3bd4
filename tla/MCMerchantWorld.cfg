SPECIFICATION Spec
CONSTANTS
    Customer = {c1, c2}
    Method = {upi, card}
    Reason = {network}
    Amount = {1}
    Days = 2
    DayLength = 1
    NumOrders = {3}
    IncidentOrders = 1
    Windows <- MCWindows
    MaxOrders = 4
    MaxTargets = 2
    Affected = upi
    None = none
SYMMETRY Symmetric
CHECK_DEADLOCK FALSE
INVARIANTS
    WorldIsConsistent
    EvidenceIsSound
    TargetsAreOwed
PROPERTIES
    BaselineIsUntouched
