SPECIFICATION WorkersSpec
CONSTANTS
    Callers = {"c1", "c2"}
    MaxRetries = 1
    Fallback = {"c2"}
    ChatCompletions = TRUE
    MaxCalls = 2
    MaxCrashes = 1
    Scopes = {"feature", "pricing"}
    Pages = {"one", "two", "forum", "empty"}
    Social = {"forum"}
    Quotes <- MCQuotes
    MaxRounds = 3
    MaxPerTask = 2
    MaxTotal = 3
    MaxActions = 20
    MaxManual = 2
    MaxLosses = 1
    Tasks = {"t1", "t2"}
    Shards = 2
    Pipelines = {"pipeline", "manual"}
    MaxWork = 2
    MaxKills = 1
INVARIANTS
    LoopIsHonest
    
    AnswersAreRecorded
PROPERTIES
    ImplementsContract
    WorkersEnd
CHECK_DEADLOCK FALSE
