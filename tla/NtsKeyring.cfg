SPECIFICATION Spec
CONSTANTS
    Period = 3
    Lifetime = 3
    KeyIds = 4
    MaxCookies = 2
    MaxTime = 9
INVARIANTS
    TypeOK
    StoredRingValid
    CookiesOpen
    ActiveKeyCurrent
