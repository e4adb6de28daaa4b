SPECIFICATION DeploymentSpec
CONSTANTS
    Tokens = {t1, t2, t3}
    Families = {f1}
    NoToken = NoToken
    NoFamily = NoFamily
    Serial = TRUE
    Procs = {p1, p2}
    NoProc = NoProc
    Newest = 2
    Configs = {"valid", "patOff", "throws", "hangs", "refused", "badFlags"}
    MaxStarts = 3
    Calls = {c1, c2}
    Negative = {"sqlite"}
INVARIANTS
    FamilyRevoked
    SpentOnce
    CacheFollows
    StartupsSerialize
    ExitCodeHonest
PROPERTY BootSettles
CHECK_DEADLOCK FALSE
