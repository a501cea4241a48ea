CONSTANTS
    MaxId = 1
    MaxValue = 1
    MaxChanges = 1
    MaxRestarts = 1
    DirtyLimit = 200
SPECIFICATION Spec
INVARIANTS
    RestoredNotInserted
