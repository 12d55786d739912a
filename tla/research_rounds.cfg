SPECIFICATION Spec
CONSTANTS
    n1 = n1
    n2 = n2
    m1 = m1
    m2 = m2
    Needs = {n1, n2}
    Missions = {m1, m2}
    MissionOf <- TwoMissions
    MaxRounds = 2
    MAX_TRANSIENT_TASK_RESUMES = 1
    MaxCrashes = 0
INVARIANTS
    ResearchIsOrderly
PROPERTIES
    EndsAreTrue
CHECK_DEADLOCK FALSE
