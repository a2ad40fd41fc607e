CONSTANTS
    Handle = {"h1", "h2"}
    KeyOf <- MCKeyOf
    IdentityOf <- MCIdentityOf
    WireOf <- MCWireOf
    Canonical = "canonical"
    Replies = {"ackError", "error", "errorNoMethod", "errorAnonymous"}
    MaxFaults = 1
SPECIFICATION Spec
INVARIANTS
    NoZombieHandle
    FreshAcknowledgement
    NothingSurvivesClose
