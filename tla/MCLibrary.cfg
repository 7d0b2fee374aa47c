SPECIFICATION Spec
CONSTANTS
    Half = 2
    Width = 7
    Mu <- MCMu
    FeWidth = 10
    FeC = 3
    FeWidth51 = 5
    FeC51 = 3
    Q = 61
    D = 2
    SqrtM1 = 11
    ScalarBits = 16
    Basepoint <- MCBasepoint
    ScalarInputs <- MCScalarInputs
    DigestInputs <- MCDigestInputs
    FeInputs <- MCFeInputs
    Fe51Inputs <- MCFe51Inputs
    Multipliers <- MCMultipliers
    Digests <- MCDigests
    Offsets <- MCOffsets
    Messages <- MCMessages
    NtpDelta = 1000
    ZeroTime <- MCZeroTime
    FrameMessages <- MCFrameMessages
    Settings <- MCSettings
    NetIDs = {1, 258}
    UdpBase = 3
    MaxDatagram = 8
    MaxSent = 2
    HostNames = {"alpha", "beta"}
    HostIPs = {"10.0.0.1", "::1", "127.0.0.1"}
    V6Local = "::1"
    V4Local = "127.0.0.1"
    Limit = 2
    Peers <- MCPeers
    Own <- MCOwn
    MaxList = 2
    Clients = {1, 2}
    MaxK = 2
    MaxChanges = 4
    SampleSize = 2
    MaxRequests = 3
    MaxClock = 3
    SocksRadix = 16
    BufBase = 8
    V4Len = 2
    V6Len = 4
    Targets <- MCTargets
    Logins <- MCLogins
    Proxies <- MCProxies
INVARIANTS ArithmeticResult SignedAccepted  FramesDecoded LeastRecentDropped   DialResult
CHECK_DEADLOCK FALSE
