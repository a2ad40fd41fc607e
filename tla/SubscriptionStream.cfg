CONSTANTS
    EventBuffer = 2
    StateBuffer = 2
    Policies = {"dropNewest", "dropOldest", "block"}
    Closers = {"user", "manager"}
    MaxEvents = 3
    MaxStates = 2
SPECIFICATION Spec
INVARIANTS
    StatesOrdered
    EventAccounting
PROPERTIES
    NoSendOnClosed
    KeepsContract
CHECK_DEADLOCK FALSE
