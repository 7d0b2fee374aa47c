SPECIFICATION Spec
CONSTANTS
    Remotes = {r1}
    Clients = {c1, c2}
    Socks = {s1, s2}
    Dialers = {}
    Writers = {w1}
    None = None
    NodeQuitCap = 1
    ProxyMode = FALSE
SYMMETRY Symmetry
INVARIANTS ShutsOwnConn CloseRemoves MapsAgree
CHECK_DEADLOCK FALSE
