CONSTANTS
    Handle = {"h1", "h2", "h3"}
    KeyOf <- MCKeyOf
    IdentityOf <- MCIdentityOf
    WireOf <- MCWireOf
    Canonical = "canonical"
    Replies = {}
    MaxFaults = 0
SPECIFICATION Spec
INVARIANTS
    Converged
    ServerAgrees
    NoRedundantRequest
    PendingIsAnswerable
