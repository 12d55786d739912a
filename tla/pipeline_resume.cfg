SPECIFICATION Spec
CONSTANTS
    MaxTasks = 2
    MaxResumes = 2
    MaxManual = 0
    MaxCrashes = 1
    DirectResearch = FALSE
    WRITER_MAX_ATTEMPTS = 3
INVARIANTS
    StopOutlivesRestart
    NoOrphanedRun
    
PROPERTIES
    RunsMoveForward
    EveryRunSettles
