SPECIFICATION TurretsSpec
CONSTANTS
    t1 = t1
    t2 = t2
    c1 = c1
    c2 = c2
    c3 = c3
    m1 = m1
    Payments = {t1, t2}
    Offers = {1, 2}
    Share <- MCShare
    CapOf <- MCCap
    Calls = {c1, c2, c3}
    About <- MCAbout
    MatcherOf <- MCMatcherOf
    MaxFaults = 1
INVARIANTS
    BooksMatchLedger
    CapExceededByRaceOnly
    PaidTwiceByOverlapOnly
CHECK_DEADLOCK FALSE
