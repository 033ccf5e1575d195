\* Three goroutines, three keys in a cache of two entries: additions evict, and
\* every pair of methods overlaps at every step, with a third one between them.
SPECIFICATION Spec
CONSTANTS
    k1 = k1  k2 = k2  k3 = k3  c1 = c1  c2 = c2  t1 = t1  t2 = t2  t3 = t3
    Key = {k1, k2, k3}
    Config = {c1, c2}
    None = None
    MaxSize = 2
    Thread = {t1, t2, t3}
    MaxCalls = 4
INVARIANTS NegativeHitsAreHits GetReturnsVisible RangeMissesNothing
PROPERTY ImplementsBoundedCache
SYMMETRY MCSymmetry
CHECK_DEADLOCK FALSE
