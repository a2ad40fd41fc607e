CONSTANTS
    Owner = {"c1", "c2"}
    RegistryKey = {"fills1", "fills2", "funding", "book"}
    IdentityOf <- MCIdentityOf
    Identity = {"fills", "funding", "book"}
    UserOf <- MCUserOf
    User = {"alice", "bob"}
    NoUser = "nobody"
    MaxSubscriptions = 3
    MaxUsers = 1
    MaxReleasing = 2
SPECIFICATION Spec
INVARIANTS
    CountsAreLeases
    CapsRespected
PROPERTIES
    ClosedClientFreesSlots
CHECK_DEADLOCK FALSE
