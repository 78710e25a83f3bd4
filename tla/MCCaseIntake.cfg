SPECIFICATION IntakeSpec
CONSTANTS
    MaxPosts = 3
    MaxRepairs = 2
    Content = {finding, upi, general, refund}
    Finding = finding
    NoContent = none
    Degradation = {upi}
    Refund = {refund}
    MaxTargets = 1
    MaxFailed = 1
    MaxStarts = 1
CHECK_DEADLOCK FALSE
INVARIANTS
    CallIsBounded
    OutcomeIsExplained
    FindingsAreFresh
    PlansAreActionable
PROPERTIES
    CasesAreWhole
    EveryStartIsAnswered
