CONSTANTS
    Handle = {"h1"}
    KeyOf <- MCKeyOf
    IdentityOf <- MCIdentityOf
    WireOf <- MCWireOf
    Canonical = "canonical"
    Replies = {}
    MaxFaults = 2
SPECIFICATION Spec
PROPERTIES
    EventuallySynced
    
