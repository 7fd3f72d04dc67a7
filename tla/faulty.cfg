SPECIFICATION Spec
CONSTANTS
    Worker = {w1, w2}
    Gates = {"open", "shadow", "closed"}
    MaxRetries = 2
    DbAttempts = 2
    MaxDbFaults = 1
    MaxSendFaults = 0
    MaxUnconfirmed = 1
    MaxCrashes = 0
    MaxChannelLosses = 1
SYMMETRY WorkerSymmetry
INVARIANTS
    WriteAheadAudit
    AuditRowFound
    EveryRetryAudited
    LostUpdateAudited
    GateRespected
    ExtraSendsHaveACause
    FailedSendNumbered
PROPERTIES
    AuditAppendOnly
    LedgerSpec
CHECK_DEADLOCK FALSE
