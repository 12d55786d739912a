SPECIFICATION Spec
CONSTANTS
    r1 = r1
    r2 = r2
    r3 = r3
    NumSteps = 6
    DependsOn <- Chain
    Requests = {r1, r2}
    MaxRequests = 5
    MaxCrashes = 1
INVARIANTS
    BoardIsSound
    RepeatsNeedReset
    CompletedIsWhole
PROPERTIES
    RunsEnd
CHECK_DEADLOCK FALSE
