SPECIFICATION ReplySpec
CONSTANTS
    Second = 4
    LockSamples = 3
    HoldoverMax = 1
    MaxConsecutiveRejects = 3
    AcceptableError = 1
    UtcSeconds = {1, 2, 3, 4}
    MaxTime = 13
    MaxBracket = 0
    ReplyTime = 3
    Radix = 4
INVARIANTS
    ReferenceNotAfterTransmit
    RejectsEndSolution
    ReferenceInOrder
    TurnaroundKept
    ChecksumKept
PROPERTIES
    ReferenceMovesByAgreement
    ServiceStartsLocked
