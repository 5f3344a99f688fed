SPECIFICATION FairSpec
CONSTANTS
    LastVersion = 12
    Config <- MCAllModes
    MaxUploads = 1
    MaxMessages = 2
    MaxRetries = 2
    MaxGrants = 1
    MaxAttempts = 3
    Reupload = FALSE
    StaffChanges = FALSE
    Refusable = {"checks", "ai"}
INVARIANTS
    CompletedIsGraded
    TeacherApproved
    QuizWasPassed
    StuckOnlyWithoutQuiz
PROPERTIES
    OutboxDrains
    ChecksSettle
CHECK_DEADLOCK FALSE
