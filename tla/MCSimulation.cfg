CONSTANTS
    Connections = {k1, k2}
    MaxAccount = 2
    Stored = {1}
    Admins = {1}
    MaxEntity = 1
    MaxMinds = 2
    NoConnection = NoConnection
    Sleepers = {e1, e2, e3}
    Blocking = {e2}
    Numbered = {e1, e2}
    MaxNumber = 3
    Defaulted = {e1, e2}
    MaxTicks = 3
    MaxStored = 2
    TaskIds = {1, 2}
    Actions = {dig, cut}
    NoAction = NoAction
    MaxTasks = 3
    MaxSerial = 3
    Top = top
    Observers = {o1, o2}
    Containers = {c1, c2, c3}
    NumStacks = 4
    Kind <- MCKind
    Stores = {i1, i2}
    Void = Void
    MaxAmount = 4
    hand = hand
    arm = arm
    Wearers = {anna, ben}
    Garments = {shield, glove}
    Points = {hand, arm}
    Outside = world
    Nil = Nil
    Shared = {shield}
    Modify <- MCModify
    MaxArmor = 1
    Entries = {v1, v2}
    Perceptive = {v1, v2}
    Resizable = {v2}
    AdminEntries = {v2}
    Cells = {1, 2}
    NoCell = NoCell
    MaxEntries = 1
    MaxUpheavals = 2
    RelayMinds = {1, 2, 3}
    Body <- MCBody
    MaxRelays = 2
SPECIFICATION MCSpec
INVARIANTS
    SessionsAgree
    MindsAgree
    RelaysAnswered
    
    TasksGoOn
    OpenOnlyInTouch
    
    WornOnce
    MutualSight
CHECK_DEADLOCK FALSE
