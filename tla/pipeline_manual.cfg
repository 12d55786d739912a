SPECIFICATION Spec
CONSTANTS
    MaxTasks = 1
    MaxResumes = 1
    MaxManual = 2
    MaxCrashes = 0
    DirectResearch = TRUE
    WRITER_MAX_ATTEMPTS = 2
INVARIANTS
    CompletedIsGrounded
    ReportIsChecked
