SPECIFICATION Spec
CONSTANT
    MaxCerts = 4
INVARIANTS
    TypeOK
    TargetIsSpare
    LoadedWhole
PROPERTY
    ImplementsCredential
