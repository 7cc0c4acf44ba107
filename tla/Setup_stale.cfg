CONSTANTS
    plain = plain
    first = first
    second = second
    third = third
    ka = ka
    kb = kb
    kc = kc
    p1 = p1
    p2 = p2
    Packages = {first, second}
    Updates = {second}
    Generation <- MCGeneration
    Keys = {ka, kb}
    Key <- MCKey
    NoKey = NoKey
    NoPackage = NoPackage
    Procs = {p1, p2}
    MaxStops = 0
    MaxOutside = 0
SPECIFICATION Spec
PROPERTY NewestWins
CHECK_DEADLOCK FALSE
