\* What one session does when the others are gone; one fault before that.
CONSTANTS
    Sessions = {s1, s2}
    Inos = {1, 2, 3}
    Profiles <- OneProfile
    NoMeta = NoMeta
    NoSession = NoSession
    MaxFaults = 1
    s1 = s1
    s2 = s2
SPECIFICATION FairSpec
PROPERTIES
    LoneStartSucceeds
    MonitorTakesOver
