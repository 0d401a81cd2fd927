SPECIFICATION FairSpec
CONSTANTS
    a1 = a1
    a2 = a2
    t1 = t1
    t2 = t2
    Accounts = {a1, a2}
    Admins = {adm}
    NoAdmin = NoAdmin
    Tokens = {t1}
    JobIds = {j1, j2}
    NoJob = NoJob
    Funds = 2
    DisputeTimeout = 1
    MaxLedger = 3
    Blockable <- OneBlock
INVARIANTS
    Custody
PROPERTIES
    DisputeFreeze
    ImplementsCustody
    DisputeSettles
CHECK_DEADLOCK FALSE
