SPECIFICATION SponsorshipSpec
CONSTANTS
    k1 = k1
    k2 = k2
    r1 = r1
    r2 = r2
    s1 = s1
    s2 = s2
    c1 = c1
    Keys = {k1, k2}
    Requests = {r1, r2}
    Wants <- MCWants
    Submits = {s1, s2}
    Signs <- MCSigns
    Reclaims = {c1}
    Limit = 1
    MaxFaults = 1
INVARIANTS
    RowsFollowLedger
PROPERTIES
    ReclaimedIsReturned
    RowsSettle
CHECK_DEADLOCK FALSE
