SPECIFICATION FairSpec
CONSTANTS
    IDs = {m1}
    Senders = {s1}
    None = None
    Minute = 4
    Interval = 1
    Timeout = 1
    Cap = 1
    NotifyCap = 1
    MaxCopies = 2
INVARIANTS FailedIsOld NoSilentLoss
PROPERTY EarlyExpires
