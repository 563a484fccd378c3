\* One service with one port, no other programs.
CONSTANTS
    Entry <- Entries1
    Service <- OnlyService
    Target <- OnlyTarget
    Requested <- OnlyRequested
    Primary = app
    MaxPort = 3
    Unprobeable = {}
    Requests <- Relocating
    Programs = {}
    MaxPrograms = 0
    MaxEvents = 0
    app = app
    db = db
SPECIFICATION Spec
PROPERTY RebuildReturns
