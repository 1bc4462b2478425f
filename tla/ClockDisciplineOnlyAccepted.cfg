SPECIFICATION Spec
CONSTANTS
    Second = 2
    LockSamples = 3
    HoldoverMax = 1
    MaxConsecutiveRejects = 3
    AcceptableError = 1
    UtcSeconds = {1, 2, 3, 4, 5, 6}
    MaxTime = 11
PROPERTIES
    OnlyAcceptedSamplesUpdateClock
