SPECIFICATION EventSpec
CONSTANTS
    Worker = {w1}
    Gates = {"closed"}
    MaxRetries = 1
    DbAttempts = 3
    MaxDbFaults = 0
    MaxSendFaults = 0
    MaxUnconfirmed = 0
    MaxCrashes = 0
    MaxChannelLosses = 0
INVARIANT
    EventsOneToOne
CHECK_DEADLOCK FALSE
