SPECIFICATION Spec
CONSTANTS
    Events = {1, 2, 3, 4}
    p1 = p1
    p2 = p2
    Pods = {p1}
    Kind <- MCKindFour
    DonorOf <- MCDonorOf
    Poison = {2}
    MaxAttempts = 3
    BaseBatch = 1
    MaxBatch = 2
    MaxFaults = 2
INVARIANTS
    NothingGoesUnnoticed
PROPERTIES
    KeepsPromise
CHECK_DEADLOCK FALSE
