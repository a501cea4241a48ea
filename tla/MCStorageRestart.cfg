CONSTANTS
    MaxId = 2
    MaxValue = 1
    MaxChanges = 1
    MaxRestarts = 1
    DirtyLimit = 1
SPECIFICATION FairSpec
INVARIANTS
    FreshIds
PROPERTIES
    EventuallyStored
