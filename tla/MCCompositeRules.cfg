\* Are the rules of a merged route sorted?
SPECIFICATION Spec
CONSTANTS
    NoConfig = NoConfig  Malformed = Malformed
    Err = Err  Skipped = Skipped  Unasked = Unasked
    N = 3
    Routes <- ThreeSources
    Settings <- OneCall
    Call = {"c1", "c2"}
INVARIANT RulesSorted
CHECK_DEADLOCK FALSE
