SPECIFICATION Spec
CONSTANTS
    PeerCount = 2
    Servers = {1, 2}
    MaxSets = 2
    MaxFaults = 2
    Window = 3
    Failures = 3
    MaxChanges = 1
INVARIANTS
    AcknowledgedSurvives
    CredentialsTogether
    SamplesOfServer
    WindowInOrder
    HealthFollowsFailures
PROPERTY
    ConfigFollowed
\* A device whose monitor could not be started only waits for requests.
CHECK_DEADLOCK FALSE
