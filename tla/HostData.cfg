CONSTANTS
    u1 = u1
    u2 = u2
    Ups = {u1, u2}
    Workspaces = {1, 2}
    NoWorkspace = NoWorkspace
    Homes <- OneHome
SPECIFICATION Spec
SYMMETRY Symmetry
INVARIANTS
    PulledArchiveStays
    NothingStaleLeft
PROPERTY
    CleanSparesUsed
