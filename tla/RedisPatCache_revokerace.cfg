SPECIFICATION Spec
CONSTANTS
    Pats = {p1}
    Procs = {q1}
    Requests = {r1, r2}
    NoPat = NoPat
    NoProc = NoProc
    PinnedKey = TRUE
    Ttl = 2
    NegativeTtl = 0
    Lifetime = 3
    Expires = TRUE
    Faults = {}
INVARIANT RevocationFinal
