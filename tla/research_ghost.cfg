SPECIFICATION FairSpec
CONSTANTS
    n1 = n1
    n2 = n2
    m1 = m1
    m2 = m2
    Needs = {n1, n2}
    Missions = {m1, m2}
    MissionOf <- OneMission
    MaxRounds = 2
    MAX_TRANSIENT_TASK_RESUMES = 0
    MaxCrashes = 1
PROPERTIES
    ResearchSettles
CHECK_DEADLOCK FALSE
