SPECIFICATION Spec
CONSTANTS
    Quizzes <- MCQuizzes
    Sec = 2
    Grace = 1
    Penalty = 2
    Rules <- MCRules
    Events = {"tab_switch", "devtools"}
    MaxTypes = 2
    MaxRows = 2
    MaxSnapshots = 1
    MaxTime = 7
    MaxReports = 2
    MaxPauses = 2
    MaxAsking = 2
INVARIANTS
    TimelineExplains
PROPERTIES
    KeepsStopwatch
CHECK_DEADLOCK FALSE
