SPECIFICATION Spec
CONSTANTS
    Worker = {w1}
    Gates = {"open"}
    MaxRetries = 2
    DbAttempts = 3
    MaxDbFaults = 0
    MaxSendFaults = 0
    MaxUnconfirmed = 0
    MaxCrashes = 1
    MaxChannelLosses = 0
INVARIANT
    DispatchedWasSent
CHECK_DEADLOCK FALSE
