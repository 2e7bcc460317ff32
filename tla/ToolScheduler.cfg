SPECIFICATION MCSpec
CONSTANTS
    p = p
    q = q
    f = f
    g = g
    N = 3
    Paths = {p, q}
    Files = {f, g}
    Denotes <- OwnFile
INVARIANT SerialOrder
INVARIANT NeverFallsBack
PROPERTY SchedulerIsBatch
PROPERTY CancelSettlesBatch
CHECK_DEADLOCK FALSE
