\* Two requests for one message, moved or copied, to the Inbox or elsewhere; two
\* faults; a command whose answer was lost is over before anybody asks about it.
CONSTANTS
    c1 = c1
    c2 = c2
    Callers <- MCCallers
    LateCommands = FALSE
    MaxEvents = 2
    MaxRows = 2
SPECIFICATION Spec
INVARIANTS TypeOK CopiedOnce OneCommand FailedMeansUndone MirrorHonest MovesNotAnnounced
PROPERTY DispatchSettles
CHECK_DEADLOCK FALSE
