SPECIFICATION FairSpec
CONSTANTS
    None = None
    Blank = Blank
    Calls = {c1, c2}
    Requests <- MCRequests
    Canonical <- MCCanonical
    Mappings <- MCMappings
    Responses <- MCResponses
    Known <- MCKnown
    Fixtures <- MCFixtures
    TTL = 2
    ProviderTimeout = 1
    ClientTimeout = 1
    SetDelay = 1
    MaxEntries = 2
    MaxChanges = 1
    MaxFaults = 1
INVARIANTS
    OnlyProviderRemembered
    EntersWhereObserved
    
PROPERTIES
    RequestsEnd
