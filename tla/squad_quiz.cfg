SPECIFICATION SquadQuizSpec
CONSTANTS
    Members = {1, 2}
    q1 = q1
    q2 = q2
    q3 = q3
    Questions = {q1, q2, q3}
    Required = {q1}
    Send = 2
    Cap = 1
    Percent = 60
    PassedTo = "COMPLETED"
    r1 = r1
    r2 = r2
    Slots = {r1, r2}
    MaxAttempts = 3
    MaxGrants = 1
    MaxRulings = 1
    MaxLeavers = 1
SYMMETRY Symmetry
INVARIANTS
    OneDraw
    NobodyWaitsForNothing
PROPERTIES
    MovesOnTogether
CHECK_DEADLOCK FALSE
