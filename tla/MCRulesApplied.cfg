CONSTANTS
    RuleNames = {1, 2, 3}
    HardCoded = {3}
    Parents <- MCParents
    OwnValues <- MCOwnValues
    MaxWrites = 2
SPECIFICATION MCSpec
INVARIANTS
    EntitiesFollowTypes
CHECK_DEADLOCK FALSE
