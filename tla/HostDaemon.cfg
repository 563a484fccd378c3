\* Ups that need different daemons, and cleanups, overlap; one fault.
CONSTANTS
    Sessions = {s1, s2}
    Inos = {1, 2, 3}
    Profiles <- FourProfiles
    NoMeta = NoMeta
    NoSession = NoSession
    MaxFaults = 1
    s1 = s1
    s2 = s2
SPECIFICATION Spec
SYMMETRY SessionSymmetry
INVARIANTS
    TypeOK
    NoSocketLeft
PROPERTY
    NewcomersSpare
