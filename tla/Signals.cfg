SPECIFICATION FairSpec
CONSTANTS
    r1 = r1
    o1 = o1
    o2 = o2
    c1 = c1
    c2 = c2
    Recs = {r1}
    Offers = {o1, o2}
    Categories = {c1, c2}
    Procs = {p1, p2}
    None = None
    Unlisted = Unlisted
    Category <- MCCategory
    Candidates <- MCCandidates
    Earlier <- MCEarlier
    ShowLimit = 1
INVARIANTS
    DeadlocksAreMixed
    SignalsCounted
    DismissedNotShown
PROPERTIES
    RequestEnds
