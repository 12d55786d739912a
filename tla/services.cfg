SPECIFICATION ServicesSpec
CONSTANTS
    Names <- MCNames
    Fold <- MCFold
    Alias <- MCAlias
    Catalog <- MCCatalog
    Supported = {"pricing", "price", "security"}
    Resolve <- MCResolve
    Default = {"pricing", "security"}
    Contents <- MCContents
    Requests = {r1, r2}
    MaxDrafts = 2
    MaxTasks = 2
    MaxRequests = 6
    MaxCrashes = 1
    Threads = {"t1", "t2"}
    Registered = {"web_search", "web_fetch"}
    Retries = 1
    MaxOperations = 3
    MaxKills = 1
INVARIANTS
    ConfirmedOnce
    PlanIsWhole
    WorkflowIsTraceable
    
    AppendedIsKept
CHECK_DEADLOCK FALSE
