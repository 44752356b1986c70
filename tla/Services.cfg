\* Google tokens: two callers, three calls, one trouble.  Blob cleanup: two
\* keepers, three saves, two accidents.  Servers: two deployments, two faults.
\* Reminders: two users with one conversation or event each, two changes.
CONSTANTS
    Callers = {c1, c2}
    MaxCalls = 3
    MaxTrouble = 1
    Keepers = {k1, k2}
    MaxSaves = 3
    MaxAccidents = 2
    Servers = {s1, s2}
    Runs = {r1}
    StaleAfter = 2
    MaxFaults = 2
    Users = {u1, u2}
    Conversations = {d1}
    Horizon = 3
    IdleInterval = 2
    ErrorBackoff = 1
    LateWindow = 1
    ProcessLimit = 1
    MaxChanges = 2
    MaxFailures = 1
    MayStop = TRUE
SPECIFICATION ServicesSpec
INVARIANTS
    ServicesTypeOK
    OneRefresh
    ForcedIsFresh
    ReferencesKept
    OneServer
PROPERTIES
    CallsReturn
    QueueDrains
    ServedAgain
    NoPhantom
    DecidedForGood
    SnoozesOnTime
    RemindedOnTime
CHECK_DEADLOCK FALSE
