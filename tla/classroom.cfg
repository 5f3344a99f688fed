SPECIFICATION Spec
CONSTANTS
    u1 = u1
    u2 = u2
    s1 = s1
    s2 = s2
    a = a
    b = b
    Users = {u1, u2}
    Submitters = {u1}
    Students = {s1, s2}
    NoStudent = NoStudent
    Nobody = Nobody
    Contents = {a, b}
    Matches <- MCMatches
    MaxAttempts = 2
    Cap = 1
    Streak = 1
    Runs = {1}
    MaxEdits = 3
    MaxNights = 2
    MaxTeacher = 1
    MaxFaults = 1
SYMMETRY Symmetry
INVARIANTS
    LatestIsLive
    NightBudget
    ApprovedWasSeen
PROPERTIES
    DraftIsKept
CHECK_DEADLOCK FALSE
