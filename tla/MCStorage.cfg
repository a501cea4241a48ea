CONSTANTS
    MaxId = 2
    MaxValue = 2
    MaxChanges = 2
    MaxRestarts = 0
    DirtyLimit = 1
SPECIFICATION Spec
INVARIANTS
    QueuesInv
    NothingForgotten
    ShutdownStoresWorld
