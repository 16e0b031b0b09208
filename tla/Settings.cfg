SPECIFICATION Spec
CONSTANTS
    k1 = k1  x = x  v1 = v1  v2 = v2  v3 = v3
    Keys = {k1}
    Values = {v1, v2, v3}
    Default = Default
    Requests = {1, 2, 3, 4, 5, 6}
    Asks <- MCAsks
    Unique = FALSE
INVARIANTS ErrorsNeedARival SplitOnlyByRace
PROPERTIES OnlyOpenRequestsChange LoneTakesEffect
CHECK_DEADLOCK FALSE
