SPECIFICATION FeedSpec
CONSTANTS
    p1 = p1
    p2 = p2
    c1 = c1
    NoPod = NoPod
    Pods = {p1, p2}
    Clients = {c1}
    Events = 4
    Retained = 2
    Batch = 2
    MaxFailures = 1
SYMMETRY MCSymmetry
INVARIANTS
    FeedIsSound
CHECK_DEADLOCK FALSE
