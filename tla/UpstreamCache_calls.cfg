SPECIFICATION Spec
CONSTANTS
    Keys = {k1, k2, k3}
    Tokens = {t1, t2, t3}
    Calls = {c1, c2}
    Capacity = 2
    Ceiling = 2
    Headroom = 1
    Lifetimes = {1}
    MaxTime = 1
    StoreFaults = TRUE
    None = None
SYMMETRY Symmetry
INVARIANTS
    HitUseful
    ExchangeReported
    RecentlyUsedKept
