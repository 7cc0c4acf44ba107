CONSTANTS
    big = big
    large = large
    small = small
    key = key
    Letters = {small, key}
    Large = {}
    Rotations = {key}
    Expiring = {key}
    MaxId = 3
    MaxRefusals = 0
    MaxRestarts = 0
    Straggling = FALSE
SPECIFICATION Spec
INVARIANT NothingPassedOver
