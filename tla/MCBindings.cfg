SPECIFICATION Spec
CONSTANTS
    Sids = {s1, s2, s3, s4}
    Keys = {k1, k2, k3}
    Endpoints = {e1, e2}
    IdleLimit = 0
    LifetimeLimit = 1
    Max = 3
    MaxPerKey = 2
    Nobody = Nobody
SYMMETRY Interchangeable
INVARIANTS
    TypeOK
    ListsMatchMap
    WithinCaps
    AnswersAreTrue
PROPERTIES
    RemovedForCause
    ImplementsOwners
