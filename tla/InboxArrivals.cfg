\* Decisions, timers and liveness under faults, a crash and a rebuilt folder.
CONSTANTS
    Messages = {1, 2}
    Moves = {1}
    HoldTime = 2
    EvidenceTime = 3
    RetryTime = 6
    Batch = 2
    EarlyReconcile = TRUE
    MaxUncertain = 1
    MaxFaults = 1
    MaxCrashes = 1
    MaxRebuilds = 1
SPECIFICATION FairSpec
INVARIANTS
    TypeOK
    AnnouncedUnproved
    Watched
PROPERTIES
    DecidedOnce
    Decided
