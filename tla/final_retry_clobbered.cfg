SPECIFICATION Spec
CONSTANTS
    Worker = {w1}
    Gates = {"open"}
    MaxRetries = 1
    DbAttempts = 3
    MaxDbFaults = 1
    MaxSendFaults = 0
    MaxUnconfirmed = 0
    MaxCrashes = 0
    MaxChannelLosses = 0
INVARIANT
    SentRetryKept
CHECK_DEADLOCK FALSE
