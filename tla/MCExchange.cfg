CONSTANTS
    Ops = {op1}
    Senders = {e1}
    MaxTime = 2
    MaxSequence = 4
    MaxResults = 2
    Travellers = {t1, t2}
    MaxRequests = 3
    RuleNames = {1, 2, 3, 4}
    HardCoded = {3, 4}
    Parents <- MCParents
    OwnValues <- MCOwnValues
    MaxWrites = 2
    Root = 0
    Children <- MCChildren
    Refers <- MCRefers
    Exported = {1, 2, 3, 4}
    Holder <- MCHolder
    TypeOf <- MCTypeOf
    RootType = "thing"
    Subtypes <- MCSubtypes
    Transience <- MCTransience
    TypeTransience <- MCTypeTransience
    Destroyed = Destroyed
    MaxOutstanding = 2
    MaxChanges = 2
    Values = {a, b}
    MaxList = 4
    m1 = m1
    m2 = m2
    Things = {m1, m2}
    NoThing = NoThing
    ThingType <- MCThingType
    TypeParent <- MCTypeParent
    TopType = "thing"
    MaxWritten = 5
    w1 = w1
    w2 = w2
    b1 = b1
    b2 = b2
    Minds = {w1, w2}
    Seen = {b1}
    Avatar <- MCAvatar
    Tiles = {1, 2}
    Places = {{1}, {1, 2}}
    Requests = {{}, {2}}
    MaxStamp = 3
    DesiredTiles = 0
    MaxTerrain = 1
    MaxLapses = 1
    Bodies = {b1, b2}
    MaxClock = 1
    MaxAsks = 3
    MaxScheduled = 4
    MaxBreaks = 2
    Tables = 2
SPECIFICATION MCSpec
INVARIANTS
    DispatchInv
    NoOversleep
    NoTravellerLost
    KeyOfThatCopy
    TypesInherit
    ImportFaithful
    ExportFaithful
    MemorySound
    StreamIntact
    MeshCurrent
    MindsLent
    MindsTick
    PostgresInOrder
CHECK_DEADLOCK FALSE
