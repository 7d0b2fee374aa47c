SPECIFICATION FairSpec
CONSTANTS
    Bits = 3
    BucketSize = 1
    self <- MCself
    Peers <- MCPeers
    Alpha = 3
    DisjointPaths = 3
INVARIANTS Placed ClosestEnough QueriedOnce
PROPERTY FindNodeEnds
CHECK_DEADLOCK FALSE
