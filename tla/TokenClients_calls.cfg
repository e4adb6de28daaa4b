SPECIFICATION FairSpec
CONSTANTS
    Calls = {c1, c2}
    Issuers = {i1, i2}
    Movers = {i1}
    Timeout = 1
    CacheTtl = 1
    None = None
INVARIANTS
    TypeOK
    CredentialGoesHome
    StaleEndpointForgotten
    ExchangedForAudience
PROPERTY TimedCallsSettle
