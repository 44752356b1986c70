\* The server may run a command after the question what became of it.
CONSTANTS
    c1 = c1
    c2 = c2
    Callers <- MCCallers
    LateCommands = TRUE
    MaxEvents = 1
    MaxRows = 2
SPECIFICATION Spec
INVARIANT CopiedOnce
CHECK_DEADLOCK FALSE
