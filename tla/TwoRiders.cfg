SPECIFICATION FairSpec
CONSTANTS
    u1 = u1
    u2 = u2
    j1 = j1
    j2 = j2
    o1 = o1
    o2 = o2
    c1 = c1
    Users = {u1, u2}
    Journeys = {j1, j2}
    Offers = {o1}
    Keys = {k1}
    Categories = {c1}
    Procs = {p1, p2}
    Rids = {r1, r2}
    None = None
    Owner <- TwoRiders
    Cost <- OneCost
    Category <- OneCategory
    InitStock <- OneUnit
    DemoPoints = 4
INVARIANTS
    TypeOK
    StockConserved
    SignalsMatchRows
PROPERTIES
    Serializable
    RequestEnds
