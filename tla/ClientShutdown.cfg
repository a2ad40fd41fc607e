CONSTANTS
    Handle = {"s1"}
    EventBuffer = 1
    Blocking = TRUE
    Streaming = {}
SPECIFICATION Spec
 
PROPERTIES
    ShutdownCompletes
    AppCallsReturn
