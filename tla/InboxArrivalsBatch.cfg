\* More due rows than one batch.
CONSTANTS
    Messages = {1, 2}
    Moves = {1, 2}
    HoldTime = 2
    EvidenceTime = 3
    RetryTime = 6
    Batch = 1
    EarlyReconcile = FALSE
    MaxUncertain = 1
    MaxFaults = 0
    MaxCrashes = 0
    MaxRebuilds = 0
SPECIFICATION Spec
INVARIANT AnnouncedUnproved
