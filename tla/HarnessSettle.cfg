SPECIFICATION FairSpec
CONSTANTS
    Openings <- OnlyNew
    MaxRetries = 1
    MaxPrompts = 1
    MaxTools = 1
    MaxQueued = 1
    MaxNext = 0
    MaxAsides = 0
    MaxModels = 0
    MaxFaults = 1
    MaxAborts = 1
    MaxKept = 1
    MayShutDown = FALSE
INVARIANT BudgetHolds
INVARIANT RestoreCovers
PROPERTY OperationReturns
CHECK_DEADLOCK FALSE
