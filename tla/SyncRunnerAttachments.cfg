\* Leftover attachments with nobody to pick them up.
CONSTANTS
    Accounts = {a, b}
    None = None
    AllAccounts = all
    Mailboxes = {m}
    Foregrounds = {f, g}
    DerivedWork = TRUE
    MaxRequests = 2
    MaxFaults = 0
    BarrierTimeouts = FALSE
SPECIFICATION Spec
INVARIANT
    AttachmentsResumed
SYMMETRY Symmetry
CHECK_DEADLOCK FALSE
