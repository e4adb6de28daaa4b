SPECIFICATION FairSpec
CONSTANTS
    One = One
    Many = Many
    EmptySegment = EmptySegment
    i1 = i1
    i2 = i2
    u1 = u1
    u2 = u2
    Ns = Ns
    Op = Op
    Res = Res
    Requests = {q1, q2}
    Issuers = {i1, i2}
    Uris = {u1, u2}
    As <- MCAs
    Introspecting = {i2}
    Offered <- MCOffered
    ToolCallers = {q1}
    Managers = {q2}
    Hosts <- MCHosts
    HeldSets <- MCHeldSets
    RequiredSeqs <- MCRequiredSeqs
    None = None
INVARIANTS
    TypeOK
    OnlyEntitled
    NothingUnheard
    ToolNeedsScopes
    OneConnect
    AskedOnce
    NoSuccessUnadmitted
PROPERTIES
    FailureForgotten
    EveryRequestAnswered
