SPECIFICATION Spec
CONSTANTS
    Pats = {p1, p2}
    Users = {u1}
    Requests = {r1, r2}
    NoPat = NoPat
    NoUser = NoUser
    DefaultExpiry = 1
    MaxExpiry = 2
    Grace = 1
    TimerMax = 1
    MaxTime = 2
    StoreOutcomes = {"ok", "failed", "lostReply"}
SYMMETRY Symmetry
INVARIANTS
    RevocationFinal
    GrantBeforeExpiry
    NoSilentOrphan
    RotationSupersedes
PROPERTY GraceHonoured
