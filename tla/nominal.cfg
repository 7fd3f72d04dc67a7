SPECIFICATION Spec
CONSTANTS
    Worker = {w1, w2}
    Gates = {"open", "shadow", "closed"}
    MaxRetries = 3
    DbAttempts = 2
    MaxDbFaults = 0
    MaxSendFaults = 1
    MaxUnconfirmed = 0
    MaxCrashes = 0
    MaxChannelLosses = 0
INVARIANTS
    TypeOK
    SentRetryKept
    DispatchedWasSent
    SentAtMostOnce
    SettledAudit
PROPERTY
    LifecycleSpec
CHECK_DEADLOCK FALSE
