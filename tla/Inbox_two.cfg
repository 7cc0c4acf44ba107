CONSTANTS
    p1 = p1
    p2 = p2
    MaxId = 2
    Foreign = {}
    Manual = {1}
    Edited = {}
    Procs = {p1, p2}
    Capacity = 1
    PageSize = 1
    MaxStops = 1
SPECIFICATION Spec
INVARIANTS
    TypeOK
    SpanCovers
    HandledForAReason
    
PROPERTY IsIntake
