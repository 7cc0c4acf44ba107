CONSTANTS
    p1 = p1
    p2 = p2
    MaxId = 4
    Foreign = {2}
    Manual = {1}
    Edited = {4}
    Procs = {p1}
    Capacity = 2
    PageSize = 1
    MaxStops = 1
SPECIFICATION FairSpec
INVARIANTS SpanCovers 
PROPERTY Delivered
