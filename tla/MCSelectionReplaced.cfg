\* A pool of the same size with another member.
SPECIFICATION Spec
CONSTANTS
    Thread = {"t1"}
    Upstream = {"ua", "ub", "uc"}
    Dial <- MCDial
    CandidateLists <- MCCandidates
    Configs <- SameSize
    None = None
    MaxSelects = 2
INVARIANT ResultInPool
CHECK_DEADLOCK FALSE
