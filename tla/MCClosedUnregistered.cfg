SPECIFICATION Spec
CONSTANTS
    Remotes = {r1}
    Clients = {c1, c2}
    Socks = {s1, s2}
    Dialers = {d1}
    Writers = {}
    None = None
    NodeQuitCap = 1
    ProxyMode = FALSE
SYMMETRY Symmetry
INVARIANTS ClosedUnregistered
CHECK_DEADLOCK FALSE
