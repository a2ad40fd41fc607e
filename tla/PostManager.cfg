CONSTANTS
    Request = {"r1", "r2"}
    Limit = 2
    Replies = {"ok", "refused"}
    MaxConns = 2
SPECIFICATION Spec
INVARIANTS
    SingleSender
    NothingLeaks
    NoOrphanSocket

    
CHECK_DEADLOCK FALSE
