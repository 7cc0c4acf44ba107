CONSTANTS
    big = big
    large = large
    small = small
    key = key
    Letters = {big, small, key}
    Large = {big}
    Rotations = {key}
    Expiring = {big}
    MaxId = 3
    MaxRefusals = 1
    MaxRestarts = 1
    Straggling = TRUE
SPECIFICATION FairSpec
INVARIANTS TypeOK ReadyHasObject NoOrphans AckedIsKept ReadsInOrder
PROPERTIES Cleaned 
