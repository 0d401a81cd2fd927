SPECIFICATION Spec
CONSTANTS
    Wishes = {w1, w2}
    Amounts = {1, 2}
    Wants <- MCWants
    Barred = {w2}
    Visits = {v1, v2}
    Hooks = {home}
    MaxEntries = 2
    MaxPayments = 2
    MaxFaults = 1
INVARIANTS
    NothingIsLost
    PaidTwiceHasCause
    RecordedAsPaid
PROPERTIES
    EntriesAreChecked
CHECK_DEADLOCK FALSE
