\* Three requests refresh a pool whose route changes.
SPECIFICATION Spec
CONSTANTS
    NoConfig = NoConfig  Malformed = Malformed  Err = Err
    NoRequest = NoRequest
    Request = {r1, r2, r3}
    Routes <- AllRoutes
    RefreshInterval = 2
    DefaultInterval = 3
    MaxChanges = 3
PROPERTIES FetchedPoolIsCurrent ErrorOnlyWithoutPool
SYMMETRY Alike
CHECK_DEADLOCK FALSE
