\* Every algorithm; two requests at once, of which each may make a selector,
\* and the selector evicted once.
SPECIFICATION Spec
CONSTANTS
    r1 = r1  r2 = r2
    Setups <- MCSetups
    Lists <- MCLists
    Request = {r1, r2}
    Hash = {0, 19, 40}
    NoHash = NoHash
    NoRing = NoRing
    virtualNodes = 5
    NodeHash <- MCNodeHash
    HashMod = 41
    Fnv <- MCFnv
    MaxEvictions = 1
    MaxSelectors = 4
INVARIANTS EvenTurns SkewIsBounded SmoothShares RandomMatchesWeights
    OnlyOrphansMove
PROPERTY ResultOwnsKey
SYMMETRY MCSymmetry
CHECK_DEADLOCK FALSE
