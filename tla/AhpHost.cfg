SPECIFICATION Spec
CONSTANTS
    MaxConn = 2
    Speakers = {1}
    b = b
    Bridges = {b}
    MaxSeq = 3
INVARIANT NothingMissed
INVARIANT NothingReducedTwice
INVARIANT EchoFirst
CHECK_DEADLOCK FALSE
