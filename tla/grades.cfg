SPECIFICATION Spec
CONSTANTS
    Students <- MCStudents
    Configs <- MCConfigs
    Reports <- MCReports
    AiMarks <- MCAiMarks
    Conducts <- MCConducts
    MaxField = 2
    MaxUploads = 2
INVARIANTS
    EvidenceIsExact
    GradeIsFair
    BooksAgree
CHECK_DEADLOCK FALSE
