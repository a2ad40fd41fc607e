CONSTANTS
    Handle = {"s1"}
    EventBuffer = 1
    Blocking = TRUE
    Streaming = {"s1"}
SPECIFICATION Spec
PROPERTY ShutdownCompletes
CHECK_DEADLOCK FALSE
