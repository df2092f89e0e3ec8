SPECIFICATION Spec
CONSTANTS
    e1 = e1
    e2 = e2
    k1 = k1
    Events = {e1, e2}
    KeyOf <- MCKeyOf
    Pubs = {p1, p2}
    MaxFaults = 0
    Limit = 2
    None = None
INVARIANTS
    CausalOrder
CHECK_DEADLOCK FALSE
