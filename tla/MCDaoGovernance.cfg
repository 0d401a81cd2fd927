SPECIFICATION FairSpec
CONSTANTS
    Voters = {v1, v2}
    Funds = 1
    MinLock = 1
    MaxLock = 2
    U32Max = 5
    LastLedger = 4
    NoLock = NoLock
    Admin = admin
    Targets = {target}
    QuorumBps = 10000
    VotingPeriod = 1
    Timelock = 1
    MaxProposals = 1
    NoVote = NoVote
INVARIANTS
    BooksBalance
    PowerWithinSupply
    VotesAreSnapshotPower
    ApprovalIsSound
PROPERTIES
    PowerHistoryFixed
    VotesConclude
CHECK_DEADLOCK FALSE
