SPECIFICATION Spec
CONSTANTS
    p1 = p1
    p2 = p2
    t1 = t1
    t2 = t2
    Processes = {p1, p2}
    Threads = {t1, t2}
    Of <- MCOf
    Tags = {"Known Malicious", "Suspicious"}
    Shipped = "Known Malicious"
    Trained = TRUE
    Channels = {"email", "webhook"}
    MaxSaves = 2
    MaxEvents = 2

    
PROPERTIES
    ReputationsCatchUp
CHECK_DEADLOCK FALSE
