SPECIFICATION FairDispatchSpec
CONSTANTS
    Worker = {w1, w2}
    Gates = {"open", "shadow", "closed"}
    MaxRetries = 1
    DbAttempts = 2
    MaxDbFaults = 1
    MaxSendFaults = 1
    MaxUnconfirmed = 1
    MaxCrashes = 2
    MaxChannelLosses = 0
INVARIANTS
    MessageNeedsRow
    DispatchOutcome
PROPERTY
    EventuallyOver
CHECK_DEADLOCK FALSE
