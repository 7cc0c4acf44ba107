CONSTANTS
    plain = plain
    first = first
    second = second
    third = third
    ka = ka
    kb = kb
    kc = kc
    p1 = p1
    p2 = p2
    Packages = {plain, second, third}
    Updates = {second, third}
    Generation <- MCGeneration
    Keys = {ka, kb, kc}
    Key <- MCKey
    NoKey = NoKey
    NoPackage = NoPackage
    Procs = {p1}
    MaxStops = 1
    MaxOutside = 1
SPECIFICATION FairSpec
PROPERTIES AloneIsSafe 
CHECK_DEADLOCK FALSE
