SPECIFICATION Spec
CONSTANTS
    Events = {1, 2, 3}
    p1 = p1
    p2 = p2
    Pods = {p1, p2}
    Kind <- MCKindThree
    DonorOf <- MCDonorOf
    Poison = {}
    MaxAttempts = 2
    BaseBatch = 1
    MaxBatch = 2
    MaxFaults = 1
INVARIANTS
    OvercountBounded
    NothingUndercounted
CHECK_DEADLOCK FALSE
