\* A token read before the account was flagged is put into the cache after it.
CONSTANTS
    Callers = {c1, c2}
    MaxCalls = 2
    MaxTrouble = 1
SPECIFICATION TokensSpec
INVARIANT FlaggedServesNothing
CHECK_DEADLOCK FALSE
