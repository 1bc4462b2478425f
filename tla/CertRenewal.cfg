SPECIFICATION Spec
CONSTANTS
    MaxCerts = 3
    MaxFaults = 2
    MaxOps = 1
INVARIANTS
    TypeOK
    OrdersSpaced
    TxtRemoved
    LastKnownGood
    BusyHandoffHasTask
PROPERTIES
    OperatorKept
    ConsoleReturns
    ReplacementServed
CHECK_DEADLOCK FALSE
