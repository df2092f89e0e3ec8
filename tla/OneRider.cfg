SPECIFICATION Spec
CONSTANTS
    u1 = u1
    u2 = u2
    j1 = j1
    j2 = j2
    o1 = o1
    o2 = o2
    c1 = c1
    Users = {u1}
    Journeys = {j1, j2}
    Offers = {o1, o2}
    Keys = {k1, k2}
    Categories = {c1}
    Procs = {p1, p2}
    Rids = {r1, r2}
    None = None
    Owner <- OneRider
    Cost <- MCCost
    Category <- MCCategory
    InitStock <- OneEach
    DemoPoints = 4
SYMMETRY MCSymmetry
INVARIANTS
    KnowledgeIsStable
    LedgerChain
    PaidOnce
    EventsMatchRows
    ConstraintsNeverFire
    SameAnswerPerKey
PROPERTIES
    RetryIsAnswered
