SPECIFICATION Spec
CONSTANTS
    Admins = {a1, a2}
    Donors = {d1}
    Recipients <- MCRecipients
    Chunk = 1
    Processes = {p1, p2}
    MaxRevision = 2
    MaxFaults = 1
SYMMETRY Symmetry
INVARIANTS
    ModerationIsSound
    NotifiedOnce
    RecipientsAgree
CHECK_DEADLOCK FALSE
