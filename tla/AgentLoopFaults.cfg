SPECIFICATION Spec
CONSTANTS
    Inputs = {m1, m2, m3}
    MaxCalls = 0
    MaxReplies = 1
    MaxFaults = 1
    MaxBounces = 0
    MaxTurns = 2
SYMMETRY InputSymmetry
INVARIANT InputsConserved
INVARIANT InputsAtMostOnce
INVARIANT SteersInOrder
CHECK_DEADLOCK FALSE
