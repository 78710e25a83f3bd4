SPECIFICATION Spec
CONSTANTS
    Requests = 4
    Active = 3
    Restarts = 1
    NumTables = 2
    NoWorld = none
CHECK_DEADLOCK FALSE
INVARIANTS
    ShownWasStored
    
