SPECIFICATION Spec
CONSTANTS
    Hits <- MCHits
    Tasks <- MCTasks
    Domains = {"a.com", "b.org", "news.com"}
    Platforms = {}
    MaxTasks = 2
    MaxAnswer = 1
    MaxOthers = 1
INVARIANTS
    DiscoveryIsSound
CHECK_DEADLOCK FALSE
