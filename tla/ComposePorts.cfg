\* Two services, three entries, one of them privileged, four host ports, and one
\* port at a time in other hands.
CONSTANTS
    Entry <- Entries3
    Service <- ServiceOf
    Target <- TargetOf
    Requested <- RequestedOf
    Primary = app
    MaxPort = 4
    Unprobeable = {1}
    Requests <- SomeRequests
    Programs <- SomePrograms
    MaxPrograms = 1
    MaxEvents = 2
    app = app
    db = db
SPECIFICATION Spec
INVARIANTS
    TypeOK
    PlanDisjoint
PROPERTIES
    KeepsPorts
    BlamesRacesOnly
    RunningIsReused
    StartedIsKept
