SPECIFICATION DiscoverySpec
CONSTANTS
    Bits = 4
    BucketSize = 1
    self <- MCself4
    Peers <- MCPeers4
    Alpha = 3
    DisjointPaths = 3
INVARIANTS ClosestAreClosest
CHECK_DEADLOCK FALSE
