\* Every configuration with a pool that grows and shrinks; overlapping requests
\* on a static pool.
SPECIFICATION Spec
CONSTANTS
    Thread = {"t1", "t2"}
    Upstream = {"ua", "ub", "uc"}
    Dial <- MCDial
    CandidateLists <- MCCandidates
    Configs <- Both
    None = None
    MaxSelects = 2
INVARIANTS OneRecordPerSelect ReasonBelongsToKey ResultInPool FindsMembers
CHECK_DEADLOCK FALSE
