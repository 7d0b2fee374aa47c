SPECIFICATION FairSpec
CONSTANTS
    Senders = {t1, t2}
    QueueCap = 1
    MaxNonce = 2
    MaxStreams = 1
    None = None
INVARIANTS FramesWhole
PROPERTIES WriteReturns 
CHECK_DEADLOCK FALSE
