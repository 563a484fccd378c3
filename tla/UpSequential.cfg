\* One command at a time, with crashes and outside interference.
CONSTANTS
    Sessions = {s1}
    NumStages = 3
    MaxContainers = 2
    MaxFaults = 2
    Hashes = {h1, h2}
    Mounts = {m1, m2}
    Kinds = {"up", "rebuild", "down", "remove"}
    Endings = {"detach", "keep", "stop"}
    NoState = NoState
    s1 = s1
    s2 = s2
SPECIFICATION FairSpec
INVARIANTS
    TypeOK
    RecordedStagesRan
    ExecFindsReadyContainer
    StagesInOrder
    NoSpuriousRefusal
    PostStartCoversStart
PROPERTIES
    RecordedStageNotRerun
    ExecContextKept
    StateOutlivesContainer
    LedgerSpec
    RebuildRecovers
\* The bounds on containers and faults stop the sessions.
CHECK_DEADLOCK FALSE
