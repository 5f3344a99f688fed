SPECIFICATION Spec
CONSTANTS
    LastVersion = 4
    Config <- MCModes
    MaxUploads = 1
    MaxMessages = 2
    MaxRetries = 2
    Clerks = {"teacher"}
    MaxCrashes = 1
INVARIANTS
    PipelineHasMessage
    TeacherDecided
CHECK_DEADLOCK FALSE
