SPECIFICATION FairSpec
CONSTANTS
    Inputs = {m1, m2}
    MaxCalls = 2
    MaxReplies = 1
    MaxFaults = 0
    MaxBounces = 1
    MaxTurns = 0
INVARIANT TranscriptIsContext
INVARIANT RequestsAnswerEveryCall
INVARIANT AbortIsAnnounced
PROPERTY CancelledRunSettles
PROPERTY CancelWindsDown
CHECK_DEADLOCK FALSE
