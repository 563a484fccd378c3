\* One clone, what other clones and programs do to the pool, and an edit of the file.
CONSTANTS
    Clones = {c1}
    Other = Other
    Networks = {1, 2}
    Requested <- Wanted
    Pool <- ThePool
    SlotSize = 2
    Hash <- Hashes
    Foreign <- Elsewhere
    Files = {f1, f2}
    None = None
    c1 = c1
SPECIFICATION Spec
INVARIANTS
    ExhaustedMeansFull
    ClashIsARace
    AssignmentKept
