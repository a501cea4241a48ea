CONSTANTS
    c1 = c1
    c2 = c2
    Commands <- MCCommands
    Moved = Moved
    MaxCommands = 4
    MaxSpurious = 2
SPECIFICATION FairSpec
INVARIANTS
    Inv
    BlockedUntilComplete
    DestructorDrains
PROPERTIES
    ImplementsLog
    EveryCommandRuns
    BlockEnds
    DestructorEnds
CHECK_DEADLOCK FALSE
