SPECIFICATION FairSpec
CONSTANTS
    Offers = {o1, o2}
    None = None
    MaxChanges = 2
    MaxBad = 1
    MaxRepeats = 1
    MaxFaults = 2
INVARIANTS
    CommittedIsIndexed
PROPERTIES
    IndexCatchesUp
CHECK_DEADLOCK FALSE
