CONSTANTS
    Request = {"r1", "r2"}
    Limit = 2
    Replies = {"ok"}
    MaxConns = 1
SPECIFICATION Spec
PROPERTIES
    CancelReturns
    CloseDrains
CHECK_DEADLOCK FALSE
