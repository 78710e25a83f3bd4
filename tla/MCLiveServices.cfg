SPECIFICATION MCSpec
CONSTANTS
    Questions = 3
    Kind = {"outcome"}
    Amount = {"recoveredSome"}
    Provider = {"minimax"}
    Cooldown = 1
    Cap = 1
    MaxTime = 1
    N = 2
    Call = {c1, c2, c3}
    Resources = {"payments", "payment_links"}
    MaxItems = 4
    Initially = 3
    PageLimit = 2
    Counts = {3}
    NoCall = noCall
    None = none
CHECK_DEADLOCK FALSE
INVARIANTS
    HistoryIsTheLatest
    
    SpacedUnlessOverlapping
    OutcomeIsWhole
    OnlyTimeoutsAreAmbiguous
    NothingIsSkipped
PROPERTIES
    EveryQuestionIsAnswered
    EveryExecutionEnds
