SPECIFICATION Spec
CONSTANTS
    Commands = {c1}
    Others = {o1, o2}
    ConnectionPermits = 2
    QueryPermits = 1
    Workers = 2
    ReadTimeout = 1
    QueryTimeout = 2
    WriteTimeout = 1
    HandoffRetries = 4
    MonitorInterval = 2
    MonitorLag = 1
    MaxDaemons = 3
INVARIANTS
    PermitsAccounted
    CommandsAnswered
PROPERTY
    EveryCommandEnds
