SPECIFICATION Spec
CONSTANTS
    Tokens = {t1, t2, t3, t4}
    Families = {f1}
    NoToken = NoToken
    NoFamily = NoFamily
    Conns = {c1, c2, c3}
    NoConn = NoConn
SYMMETRY Symmetry
INVARIANTS
    RevocationDurable
PROPERTY ImplementsContract
