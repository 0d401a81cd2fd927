SPECIFICATION Spec
CONSTANTS
    d1 = d1
    d2 = d2
    Donors = {d1, d2}
    Projects = {p1, p2}
    First = p1
    Before <- MCBefore
    Amounts = {1, 2}
    Thresholds <- MCThresholds
    I128Max = 3
    LastToken = 2
    LastLedger = 2
    MaxProposals = 1
    Windows = {1}
    LastVersion = 3
INVARIANTS
    SumsAgree
    BadgesAreKept
    SecondBadgeAfterTransfer
PROPERTIES
    VersionIsMigrated
CHECK_DEADLOCK FALSE
