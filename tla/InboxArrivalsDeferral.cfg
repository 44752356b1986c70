\* A deferred probe and a reconciliation of the source folder.
CONSTANTS
    Messages = {1, 2}
    Moves = {1}
    HoldTime = 2
    EvidenceTime = 3
    RetryTime = 6
    Batch = 2
    EarlyReconcile = FALSE
    MaxUncertain = 1
    MaxFaults = 0
    MaxCrashes = 0
    MaxRebuilds = 0
SPECIFICATION Spec
INVARIANT MovesNotAnnounced
