\* Two processes, two requests, one crash, one grant taken away.
SPECIFICATION FairSpec
CONSTANTS
    Processes = {"p1", "p2"}
    MaxRequests = 2
    Calls <- AllCalls
    Names = {"admin", "ann", "zoe"}
    Roles = {"Admin", "Viewer"}
    Permissions = {"users:write", "incidents:write"}
    Defaults <- Grants
    Admin = "admin"
    MaxSessions = 3
    MaxIncidents = 3
    MaxEvents = 1
    Databases <- Starts
CHECK_DEADLOCK FALSE
INVARIANTS
    SuccessWasEntitled
    EntriesLostOnlyToOverlap
PROPERTIES
    AnsweredUnlessHung
    WorkersServe
