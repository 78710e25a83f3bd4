SPECIFICATION IngressSpec
CONSTANTS
    Event = {e1, e2}
    MaxTime = 1
CHECK_DEADLOCK FALSE
INVARIANTS
    SeenIsStored
