SPECIFICATION Spec
CONSTANTS
    Pats = {p1, p2}
    Procs = {q1, q2}
    Requests = {r1, r2}
    NoPat = NoPat
    NoProc = NoProc
    PinnedKey = FALSE
    Ttl = 1
    NegativeTtl = 0
    Lifetime = 2
    Expires = TRUE
    Faults = {"failed", "lostReply"}
SYMMETRY Symmetry
INVARIANTS
    RevocationFinalUnlessRaced
    GrantBeforeExpiry
    CacheCoherent
