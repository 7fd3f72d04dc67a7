SPECIFICATION Spec
CONSTANTS
    Worker = {w1}
    Gates = {"open", "shadow", "closed"}
    MaxRetries = 3
    DbAttempts = 3
    MaxDbFaults = 3
    MaxSendFaults = 0
    MaxUnconfirmed = 0
    MaxCrashes = 1
    MaxChannelLosses = 0
INVARIANTS
    CountedOncePerError
    AuditInv
    ExtraSendsHaveACause
CHECK_DEADLOCK FALSE
