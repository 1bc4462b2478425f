SPECIFICATION Spec
CONSTANTS
    Addresses = {a1}
    Ports = {123}
    RingSize = 2
    MailboxSize = 4
    MaxFrames = 5
INVARIANTS
    ReceiveTimestampIsOwn
