SPECIFICATION StreamFairSpec
CONSTANTS
    Subs = {s1, s2, s3}
    Sups = {p1, p2}
    Nil = Nil
    MayClose = TRUE
INVARIANTS
    StreamTypeOK
    NoPanic
    OneSupervisor
    NoLateSubscriber
PROPERTIES
    StreamProgress
    ImplementsVideoSource
