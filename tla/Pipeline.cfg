SPECIFICATION PipelineFairSpec
CONSTANTS
    e1 = e1
    e2 = e2
    k1 = k1
    Events = {e1, e2}
    KeyOf <- MCKeyOf
    Topics = {"clicked", "redeemed"}
    TopicOf <- MCTopicOf
    Accepted = {e1}
    Pubs = {p1, p2}
    MaxFaults = 2
    MaxStops = 2
    Limit = 2
    None = None
INVARIANTS
    MarkedOnlyIfSent
    DuplicatesNeedFaults
    RowsPaidFor
PROPERTIES
    EventuallyPublished
    CountsOnce
CHECK_DEADLOCK FALSE
