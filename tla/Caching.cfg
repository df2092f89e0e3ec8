SPECIFICATION FairSpec
CONSTANTS
    v1 = v1
    None = None
    Unparsable = Unparsable
    Callers = {g1, g2}
    Values = {v1}
    Requests <- MCRequests
    Day = 4
    TTL = 2
    Slow = 1
    MaxUpdates = 1
    MaxWeights = 1
    MaxFaults = 1
INVARIANTS
    StaleOnlyForTTL
    SwitchedOnIsReachable
PROPERTIES
    EventuallyFresh
