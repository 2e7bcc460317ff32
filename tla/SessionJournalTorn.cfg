SPECIFICATION Spec
CONSTANTS
    i1 = i1
    i2 = i2
    Instances = {i1, i2}
    Creator = i1
    IdsOf <- MCIdsOf
    LeafIds = {4}
    Origins = {"deferred", "created", "v3", "inverted"}
    Attempts = 2
    MaxInodes = 5
    MaxFaults = 1
INVARIANT TornTailIsHarmless
CHECK_DEADLOCK FALSE
