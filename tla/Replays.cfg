SPECIFICATION FairSpec
CONSTANTS
    s1 = s1
    Workers = {w1, w2}
    Recs = {r1, bad}
    Bad = {bad}
    Subs = {s1}
    CreatedAt <- MCCreatedAt
    MaxLog = 2
    MaxCrashes = 1
    MaxErrors = 1
INVARIANTS
    OffsetsCovered
    RepeatsNeedFaults
    RowsBackedByPushes
PROPERTIES
    EveryEventProcessed
CHECK_DEADLOCK FALSE
