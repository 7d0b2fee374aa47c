CONSTANTS
    Meters = {m1, m2}
    Markers = {t1, t2}
    None = None
    ChanCap = 1
    Counts = {1, 2}
    MaxMarked = 3
SPECIFICATION FairSpec
INVARIANTS Conservation RegisteredOnce
PROPERTY EveryMarkSnapshotted
CHECK_DEADLOCK FALSE
