SPECIFICATION ObserversSpec
CONSTANTS
    Worker = {w1, w2}
    Gates = {"open", "shadow", "closed"}
    MaxRetries = 1
    DbAttempts = 2
    MaxDbFaults = 2
    MaxSendFaults = 1
    MaxUnconfirmed = 0
    MaxCrashes = 0
    MaxChannelLosses = 0
SYMMETRY WorkerSymmetry
INVARIANTS
    EventReportsCommitted
    NoSilentTransition
    LastOutcomeEvent
    GaugeDrift
    MetricsMatchRecords
CHECK_DEADLOCK FALSE
