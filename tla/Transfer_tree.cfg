CONSTANTS
    alice = alice
    bob = bob
    Devices = {alice, bob}
    Labels = {"M", "M.S"}
    Above <- Tree
    Home <- AtAlice
    Commands = {"transfer", "send", "collect", "finalize", "recover"}
    Modes = {"key-only", "direct-children", "all-descendants"}
    Patient = TRUE
    Expiring = TRUE
    MaxKeys = 1
    MaxTx = 2
    MaxMail = 2
    MaxStops = 2
SPECIFICATION Spec
INVARIANTS SecretKept GhostCannotOpen ActiveOpens 
CHECK_DEADLOCK FALSE
