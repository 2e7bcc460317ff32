SPECIFICATION Spec
CONSTANTS
    Inputs = {m1}
    MaxCalls = 0
    MaxReplies = 5
    MaxFaults = 0
    MaxBounces = 0
    MaxTurns = 0
INVARIANT RunawaySettles
CHECK_DEADLOCK FALSE
