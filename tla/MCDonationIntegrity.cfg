SPECIFICATION IntegritySpec
CONSTANTS
    Donations = {d1}
    Reviewers = {r1, r2}
    Pods = {p1, p2}
    MaxAppeals = 2
    MaxOpen = 1
INVARIANTS
    ExclusionIsEnforced
    AppealsAreHeard
PROPERTIES
    DecisionsStand
    DonationsAreAssessed
CHECK_DEADLOCK FALSE
