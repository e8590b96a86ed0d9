\* Two partners, two calls at a time, one token, one disturbance.
SPECIFICATION Spec
CONSTANTS
    p1 = p1
    p2 = p2
    t1 = t1
    t2 = t2
    c1 = c1
    c2 = c2
    NoRow = NoRow
    NoToken = NoToken
    Peers = {p1, p2}
    Calls = {c1, c2}
    Tokens = {t1}
    MaxVersion = 2
    MaxIds = 2
    MaxFaults = 1
SYMMETRY MCSymmetry
INVARIANTS
    TypeOK
    TokensAdmitOnce
    KeysNotOlderThanEndpoints
    ShownIdsStayTrue
    
