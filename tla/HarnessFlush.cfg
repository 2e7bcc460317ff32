SPECIFICATION Spec
CONSTANTS
    Openings <- OnlyAborted
    MaxRetries = 0
    MaxPrompts = 1
    MaxTools = 0
    MaxQueued = 0
    MaxNext = 1
    MaxAsides = 2
    MaxModels = 1
    MaxFaults = 1
    MaxAborts = 1
    MaxKept = 9
    MayShutDown = TRUE
INVARIANT AsidesOnceInOrder
INVARIANT RestoreCovers
CHECK_DEADLOCK FALSE
