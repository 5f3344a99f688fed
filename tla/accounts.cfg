SPECIFICATION AccountsSpec
CONSTANTS
    s1 = s1
    t1 = t1
    x1 = x1
    r1 = r1
    r2 = r2
    StudentAccounts = {s1}
    TeacherAccounts = {t1}
    TestAccounts = {x1}
    Slots = {r1, r2}
    NoRequest = NoRequest
    NoSecret = NoSecret
    Max = 1
    IpMax = 2
    Window = 1
    SessionTTL = 2
    ResetTTL = 1
    MaxTime = 2
    MaxRequests = 5
    MaxMessages = 2
    MaxRetries = 2
    NChannels = 1
    MaxCrashes = 1
SYMMETRY Symmetry
INVARIANTS
    PasswordIsDeliverable
    SessionFollowsPassword
    FailuresAreBounded
CHECK_DEADLOCK FALSE
