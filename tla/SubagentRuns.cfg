SPECIFICATION Spec
CONSTANTS
    Dispatchers = {d1, d2}
    d1 = d1
    d2 = d2
    Capacity = 2
    Modes = {"net", "foreground"}
    Prior = 1
    MaxIds = 2
    MaxActs = 3
INVARIANT SlotsConserved
INVARIANT NoStray
INVARIANT RowsPerActivation
INVARIANT NewestHasFaces
PROPERTY NetCovers
CHECK_DEADLOCK FALSE
