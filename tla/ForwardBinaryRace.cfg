\* An attached and a detached session overlap; nothing fails.
CONSTANTS
    Sessions = {s1, s2}
    MaxPort = 4
    Targets = {1}
    Requests <- OneForward
    Unbindable = {1}
    AutoMin = 2
    AutoMax = 4
    Ignored = {}
    Servers = {2}
    Published = {3}
    Reserved = {2}
    NoOne = NoOne
    Foreign = Foreign
    MaxForeign = 0
    MaxFaults = 0
    s1 = s1
    s2 = s2
SPECIFICATION Spec
INVARIANTS
    BinaryStaysUntilStarted
