SPECIFICATION Spec
CONSTANTS
    client = client
    horizon = horizon
    first = first
    second = second
    bad = bad
    Requests = {client, horizon, first, second, bad}
    HashOf <- MCHashOf
    DetailsOf <- MCDetailsOf
    Indexed = {horizon, first, second, bad}
    Soroban = {first, second, bad}
    Before <- MCBefore
    Refused = {bad}
    Statuses = {"active", "paused"}
    DefaultStatus = "active"
    Cap = 1
    MatchRow = TRUE
    MaxStops = 1
    MaxChanges = 1
    Nobody = Nobody
INVARIANTS
    AnswersAgree
    MatchesFollowDonations
PROPERTIES
    ClientsAreAnswered
    SorobanGetsThrough
CHECK_DEADLOCK FALSE
