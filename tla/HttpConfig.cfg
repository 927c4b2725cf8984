\* Every URL scheme, configuration and build: the whole input space.
SPECIFICATION Spec
INVARIANTS
    TypeOK
    PlainOnlyIfAllowed
    UnverifiedOnlyInLab
    GateNeverSurprises
    NameCheckKept
