\* Two overlapping queries; the times keep 0.5 s < 2 s and 10 s < 15 s.
CONSTANTS
    Queries = {q1, q2}
    NumKinds = 2
    LoadPermits = 2
    QueryTimeout = 3
    LoadTimeout = 2
    SuccessTTL = 2
    FailureTTL = 1
    Channels = {1, 2, 3, 4, 5}
    NoChannel = NoChannel
    MaxPanics = 1
    MaxLag = 1
    q1 = q1
    q2 = q2
SPECIFICATION Spec
SYMMETRY QuerySymmetry
INVARIANTS
    SingleFlight
    LoadsNeverQueue
PROPERTIES
    TimeoutOnlyForSlowReads
    DeadLoadForgotten
