SPECIFICATION WatchedSpec
CONSTANTS
    Target = {t1, t2}
    Foreign = foreign
    Expected <- MCExpected
    Amount = {1, 3}
    Window = 1
    MaxTime = 2
    MaxSent = 2
    MaxDeliveries = 2
CHECK_DEADLOCK FALSE
PROPERTIES
    EventuallyResolved
