SPECIFICATION Spec
CONSTANTS
    Kinds <- MCKinds
    NComponents = 2
    JobsCap = 1
    Types = {1, 2}
    KeepaliveType = 1
    Priorities = {0, 1}
    MaxCalls = 3
    Peers = {1, 2}
    Servers <- MCServers
    maxAttempts = 3
    MaxAttempts = 2
    MaxDrops = 2
    MaxProxyDrops = 1
    DeviceLists <- MCDeviceLists
    InterfaceLists <- MCInterfaceLists
INVARIANTS DeliveredInOrder StartedInOrder 
PROPERTIES ReadReturns ListenReturns DroppedRetried GatewaySearchEnds
CHECK_DEADLOCK FALSE
