\* One session ends while another monitors its daemon; no faults.
CONSTANTS
    Sessions = {s1, s2}
    Inos = {1, 2, 3}
    Profiles <- OneProfile
    NoMeta = NoMeta
    NoSession = NoSession
    MaxFaults = 0
    s1 = s1
    s2 = s2
SPECIFICATION FairSpec
PROPERTY MonitorKeepsDaemon
