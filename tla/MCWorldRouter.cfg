CONSTANTS
    MaxId = 2
    Perceptive = {1}
    Commands = {"talk", "create", "delete", "destroy", "clear", "suspend", "resume"}
    Ulp = 2
    Presets = {0}
    MaxTime = 2
    MaxSequence = 4
SPECIFICATION Spec
VIEW WithoutHistory
INVARIANTS
    RouterInv
    OneTickEach
    ImmediateInOrder
