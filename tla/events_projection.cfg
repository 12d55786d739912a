SPECIFICATION Spec
CONSTANTS
    Urls = {u1}
    Actions = {a1}
    MaxTurns = 3

    
PROPERTIES
    ImplementsLog
CHECK_DEADLOCK FALSE
