SPECIFICATION Spec
CONSTANTS
    Worker = {w1, w2}
    Gates = {"open"}
    MaxRetries = 2
    DbAttempts = 3
    MaxDbFaults = 1
    MaxSendFaults = 0
    MaxUnconfirmed = 0
    MaxCrashes = 0
    MaxChannelLosses = 0
INVARIANT
    CountedOncePerError
CHECK_DEADLOCK FALSE
