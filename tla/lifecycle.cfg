SPECIFICATION Spec
CONSTANTS
    LastVersion = 3
    Config <- MCHistory
    MaxUploads = 1
    MaxMessages = 2
    MaxRetries = 2
    MaxGrants = 1
    MaxAttempts = 3
    Reupload = TRUE
    StaffChanges = TRUE
    Refusable = {}
INVARIANTS
    PipelineHasMessage
    ReviewIsAnnounced
    FailedIsExplained
    GradeHasSource
PROPERTIES
    CompletedIsFinal
    PinIsStable
CHECK_DEADLOCK FALSE
