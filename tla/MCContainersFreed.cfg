CONSTANTS
    Top = top
    Observers = {o1}
    Containers = {c1, c2}
SPECIFICATION MCSpec
INVARIANTS
    PrecautionsSuffice
CHECK_DEADLOCK FALSE
