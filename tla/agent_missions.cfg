SPECIFICATION Spec
CONSTANTS
    TaskSeq <- TwoTasks
    Queries = {"q"}
    Anchored = {"q"}
    Urls = {"z"}
    PageOf <- Canonical
    ZhihuUrls = {"z"}
    Seeds = {}
    Foreign = {}
    FeedbackTasks = {}
    MaxSteps = 3
    MaxSearches = 1
    MaxSources = 1
    MaxFailed = 1
    MAX_TRANSIENT_TASK_RESUMES = 1
    MaxResumes = 1
    MaxCrashes = 1
INVARIANTS
    
    RunsAreAccounted
PROPERTIES
    WorkerEnds
CHECK_DEADLOCK FALSE
