SPECIFICATION FairSpec
CONSTANTS
    Callers = {t1, t2}
    MaxNonce = 2
    MaxReplies = 2
INVARIANTS TrackedExactly StrayOnlyLate
PROPERTIES KeepsPromise ReceiverFree 
CHECK_DEADLOCK FALSE
