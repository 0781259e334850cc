\* Pairs of drivers that share something, every acquisition may fail, one user.
CONSTANTS
    u1 = u1
    Users = {u1}
    Driver <- AllDrivers
    Selections <- Neighbours
    Faulty <- Everything
SPECIFICATION Spec
INVARIANT LeaksAreKnown
PROPERTIES
    StrandedOnlyByLateFailure
    ExitReturnsAll
    ForeignReleases
CHECK_DEADLOCK FALSE
