SPECIFICATION FairSpec
CONSTANTS
    Remotes = {r1}
    Clients = {c1, c2}
    Socks = {s1, s2}
    Dialers = {}
    Writers = {}
    None = None
    NodeQuitCap = 0
    ProxyMode = FALSE
PROPERTIES GetOrSetReturns CloseEnds
CHECK_DEADLOCK FALSE
