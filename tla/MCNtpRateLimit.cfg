SPECIFICATION Spec
SYMMETRY AddressSymmetry
CONSTANTS
    Addresses = {a1, a2, a3}
    TableSize = 2
    Burst = 2
    TokenPeriod = 2
    MaxTime = 8
INVARIANTS
    TypeOK
    WithinRate
    PatientClientAllowed
PROPERTIES
    RecentClientKeepsSlot
