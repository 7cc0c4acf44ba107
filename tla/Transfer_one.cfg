CONSTANTS
    alice = alice
    bob = bob
    Devices = {alice, bob}
    Labels = {"M"}
    Above <- Flat
    Home <- AtAlice
    Commands = {"enroll", "transfer", "send", "collect", "finalize", "recover"}
    Modes = {"key-only"}
    Patient = TRUE
    Expiring = TRUE
    MaxKeys = 2
    MaxTx = 2
    MaxMail = 3
    MaxStops = 1
SPECIFICATION MeetSpec
INVARIANTS TypeOK 
PROPERTIES LeavesForAReason IsCustody Settles
CHECK_DEADLOCK FALSE
