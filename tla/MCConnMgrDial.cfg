SPECIFICATION Spec
CONSTANTS
    Remotes = {r1}
    Clients = {c1, c2}
    Socks = {s1}
    Dialers = {d1}
    Writers = {w1}
    None = None
    NodeQuitCap = 1
    ProxyMode = FALSE
SYMMETRY Symmetry
INVARIANTS ReadyWhenUsed OneEntry
CHECK_DEADLOCK FALSE
