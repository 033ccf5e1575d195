\* Every mode over three sources that answer in any order, deadlines included.
SPECIFICATION FairSpec
CONSTANTS
    NoConfig = NoConfig  Malformed = Malformed
    Err = Err  Skipped = Skipped  Unasked = Unasked
    N = 3
    Routes <- ThreeSources
    Settings <- MCSettings
    Call = {"c1", "c2"}
INVARIANTS TypeOK FirstSourceWins MergeKeepsOrder NoSendOnClosed
PROPERTIES GetReturns NoGoroutineLeft
CHECK_DEADLOCK FALSE
