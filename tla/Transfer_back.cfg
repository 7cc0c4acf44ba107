CONSTANTS
    alice = alice
    bob = bob
    Devices = {alice, bob}
    Labels = {"M"}
    Above <- Flat
    Home <- AtAlice
    Commands = {"transfer", "send", "collect", "finalize"}
    Modes = {"key-only"}
    Patient = FALSE
    Expiring = FALSE
    MaxKeys = 1
    MaxTx = 2
    MaxMail = 2
    MaxStops = 0
SPECIFICATION Spec
INVARIANTS SecretKept
CHECK_DEADLOCK FALSE
