SPECIFICATION MonitorSpec
CONSTANTS
    Second = 4
    LockSamples = 3
    HoldoverMax = 1
    MaxConsecutiveRejects = 3
    AcceptableError = 1
    UtcSeconds = {1, 2, 3, 4, 5, 6, 7, 8}
    MaxTime = 28
    QueueLength = 2
    CaptureWait = 1
    TimTpWait = 3
    TimTpMaxAge = 6
    GnssTimeout = 8
    PpsTimeout = 10
    BootDelay = 25
    TimTpLatest = 3
    FaultsUntil = 28
INVARIANTS
    ServiceEndsAfterHoldover
    PairingErrorBounded
PROPERTIES
    ImplementsClock
    LockSamplesConsecutive
