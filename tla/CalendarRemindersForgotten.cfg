\* A user whose pass failed is forgotten when the next wake is for another.
CONSTANTS
    Users = {u1, u2}
    Conversations = {d1}
    Horizon = 3
    IdleInterval = 2
    ErrorBackoff = 1
    LateWindow = 1
    ProcessLimit = 1
    MaxChanges = 2
    MaxFailures = 1
    MayStop = FALSE
SPECIFICATION CalendarSpec
PROPERTY ReminderKept
CHECK_DEADLOCK FALSE
