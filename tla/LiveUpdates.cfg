SPECIFICATION Spec
CONSTANTS
    t1 = t1
    t2 = t2
    p1 = p1
    p2 = p2
    Tabs = {t1, t2}
    Processes = {p1}
    Home = p1
    MaxAlerts = 1
    MaxConnections = 2
    MaxTokens = 2
    MaxEvents = 2
INVARIANTS
    NothingShownTwice
PROPERTIES
    ConnectedGetAll
    ViewsSettle
CHECK_DEADLOCK FALSE
