\* An admission wait that expires drops the request it was made for.
CONSTANTS
    Accounts = {a, b}
    None = None
    AllAccounts = all
    Mailboxes = {m}
    Foregrounds = {f, g}
    DerivedWork = TRUE
    MaxRequests = 2
    MaxFaults = 0
    BarrierTimeouts = TRUE
SPECIFICATION Spec
INVARIANT
    PassGuaranteed
SYMMETRY Symmetry
CHECK_DEADLOCK FALSE
