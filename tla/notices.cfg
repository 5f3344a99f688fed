SPECIFICATION Spec
CONSTANTS
    m1 = m1
    m2 = m2
    t1 = t1
    t2 = t2
    u1 = u1
    u2 = u2
    a = a
    b = b
    r1 = r1
    r2 = r2
    Members <- MCMembers
    Teachers = {t1, t2}
    Subs = {u1, u2}
    Replicas = {a, b}
    NoReplica = NoReplica
    Rulings = {r1, r2}
    Free = Free
    NoSecret = NoSecret
    MaxOps = 3
    MaxMessages = 3
    MaxRetries = 2
    NChannels = 2
    MaxCrashes = 1
SYMMETRY Symmetry
INVARIANTS
    FinishedWasTold
    RepeatsAreRetries
    SentWasInDigest
CHECK_DEADLOCK FALSE
