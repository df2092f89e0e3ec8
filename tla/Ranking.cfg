SPECIFICATION Spec
CONSTANTS
    c1 = c1
    c2 = c2
    c3 = c3
    NoNumber = NoNumber
    Invented = 99
    None = None
    Offers = {1, 2}
    Categories = {c1, c2, c3}
    Lower <- MCLower
    OfferRows <- MCOfferRows
    Preferences <- MCPreferences
    Scores = {40, 46}
    Station <- MCStation
    Configured = 2
    StartBalance = 3
    MaxCalls = 1
    MaxChanges = 2
INVARIANTS
    BestOfferChosen
    RecommendedIsRedeemable
    ReadBackAgrees
    CopyTellsFacts
CHECK_DEADLOCK FALSE
