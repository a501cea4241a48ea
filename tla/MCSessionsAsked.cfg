CONSTANTS
    Connections = {k1, k2}
    MaxAccount = 2
    Stored = {1, 2}
    Admins = {1, 2}
    MaxEntity = 1
    MaxMinds = 2
    NoConnection = NoConnection
SPECIFICATION Spec
INVARIANTS
    SomeoneAsked
CHECK_DEADLOCK FALSE
