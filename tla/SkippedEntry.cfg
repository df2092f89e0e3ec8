SPECIFICATION EntrySpec
CONSTANTS
    j1 = j1
    j2 = j2
    bad = bad
    Consumers = {c1}
    Journeys = {j1, j2, bad}
    Bad = {bad}
    MaxLog = 2
    MaxCrashes = 0
    MaxFailures = 1
    MaxReadErrors = 0
SYMMETRY MCSymmetry
INVARIANTS
    OffsetsHandled
CHECK_DEADLOCK FALSE
