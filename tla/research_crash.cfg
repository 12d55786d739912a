SPECIFICATION FairSpec
CONSTANTS
    n1 = n1
    n2 = n2
    m1 = m1
    m2 = m2
    Needs = {n1}
    Missions = {m1, m2}
    MissionOf <- OneMission
    MaxRounds = 3
    MAX_TRANSIENT_TASK_RESUMES = 1
    MaxCrashes = 2
INVARIANTS
    MemoryIsTrue
PROPERTIES
    ImplementsService
    ResearchEnds
CHECK_DEADLOCK FALSE
