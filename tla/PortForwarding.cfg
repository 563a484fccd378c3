\* One session, four host ports of which the first is privileged, and programs
\* that hold two of them at a time.
CONSTANTS
    Sessions = {s1}
    MaxPort = 4
    Targets = {1, 2}
    Requests <- AllRequests
    Unbindable = {1}
    AutoMin = 2
    AutoMax = 4
    Ignored = {}
    Servers = {2}
    Published = {3}
    Reserved = {2}
    NoOne = NoOne
    Foreign = Foreign
    MaxForeign = 2
    MaxFaults = 1
    s1 = s1
    s2 = s2
SPECIFICATION FairSpec
INVARIANTS
    ReportedIsServed
    AutoForwardsOnce
    NothingLeftBehind
PROPERTIES
    AgentsEnd
    OpenPortForwarded
