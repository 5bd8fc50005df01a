SPECIFICATION Spec
CONSTANTS
    Requests = {r1, r2}
    Sids = {s1, s2, s3}
    Keys = {k1, k2}
    Endpoints = {e1}
    IdleLimit = 1
    LifetimeLimit = 1
    SweepInterval = 1
    MaxBindings = 2
    MaxPerKey = 2
    MaxStreamsPerSession = 1
    MaxStreamsPerKey = 1
    Nobody = Nobody
SYMMETRY Interchangeable
INVARIANTS
    TypeOK
    NoSessionChangesHands
    GateWithinCaps
    StreamsFollowBindings
    SessionsExpireWhenIdle
PROPERTIES
    SessionsNotLeaked
