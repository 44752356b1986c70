\* Admission of index writers, and admission, preemption and replay of mail work:
\* safety, and under fair scheduling nobody waits for ever.
CONSTANTS
    a1 = a1
    a2 = a2
    b1 = b1
    uA = uA
    uB = uB
    Clients <- MCClients
    Users <- MCUsers
    UserOf <- MCUserOf
    MaxActive = 2
    MaxActiveBytes = 2
    Bytes = {1, 3}
    Requests <- MCRequests
    Accounts = {a, b}
    None = None
    AllAccounts = all
    Mailboxes = {m}
    Foregrounds = {f, g}
    DerivedWork = TRUE
    MaxRequests = 2
    MaxTurns = 4
    MaxFaults = 1
    BarrierTimeouts = TRUE
SPECIFICATION SchedulingSpec
INVARIANTS
    WritesTypeOK
    TenantExclusion
    ExactAccounting
    NoLostDispatch
    TypeOK
    ForegroundExclusive
    StatsExclusive
    NoLostRequest
    NothingOrphaned
PROPERTIES
    ImplementsAdmission
    AdmissionIsFair
    SoftByteTarget
    NoStarvation
    ImplementsAccess
    RequestsServed
    ForegroundAdmitted
CHECK_DEADLOCK FALSE
