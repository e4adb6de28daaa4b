SPECIFICATION FairSpec
CONSTANTS
    Pats = {p1}
    Procs = {q1, q2}
    Requests = {r1, r2}
    NoPat = NoPat
    NoProc = NoProc
    PinnedKey = TRUE
    Ttl = 2
    NegativeTtl = 1
    Lifetime = 1
    Expires = FALSE
    Faults = {"failed", "lostReply"}
PROPERTY RevocationWins
