SPECIFICATION FairLifecycle
CONSTANTS
    Hosts <- MCHosts
    MaxDaemons = 2
    MaxChanges = 3
    FreshSecs = 1
    ConnectedSecs = 2
    StateVersion = 7
    MaxSecs = 3
CHECK_DEADLOCK FALSE
INVARIANTS NoneLeftBehind 
PROPERTIES TasksEnd
