SPECIFICATION Spec
CONSTANTS
    Addresses = {a1, a2}
    Ports = {123, 5000}
    RingSize = 2
    MailboxSize = 4
    MaxFrames = 5
INVARIANTS
    UndisturbedClientGetsOwnTimestamp
    TimestampTakenOnce
