SPECIFICATION EntrySpec
CONSTANTS
    j1 = j1
    j2 = j2
    bad = bad
    Consumers = {c1, c2}
    Journeys = {j1, j2, bad}
    Bad = {bad}
    MaxLog = 2
    MaxCrashes = 1
    MaxFailures = 2
    MaxReadErrors = 1
SYMMETRY MCSymmetry
INVARIANTS
    SkipsNeedFailures
    RepeatsBounded
CHECK_DEADLOCK FALSE
