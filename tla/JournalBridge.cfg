SPECIFICATION FairSpec
CONSTANTS
    MaxRows = 3
    FeedWindow = 1
    RelayWindow = 1
    MaxBridges = 2
    Submits = {s1}
    MaxEnsures = 1
    InitialThreads = {"cold", "landing", "live"}
    InitialRows = {1}
INVARIANT NoGap
INVARIANT ForwardsOnceInOrder
INVARIANT FoldedNotForwarded
INVARIANT SingleBridge
PROPERTY CatchesUpUnlessExited
CHECK_DEADLOCK FALSE
