CONSTANTS
    Calls = {"c1", "c2"}
    Addresses = {1, 2, 3}
    Times = {0, 2}
    Wallet = 1
    Configs <- MCConfigs
    Menu <- MCMenu
SPECIFICATION Spec
INVARIANT UserPayloadHashed
