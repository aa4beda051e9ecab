\* Three jobs or simulations of two flows on two workers; failures, no clears.
SPECIFICATION Spec
CONSTANTS
    MaxJobs = 3
    Workers = 2
    MaxFlows = 2
    Types = {"dos"}
    Tags = {"Unknown"}
    MaxStored = 2
    Simulations = TRUE
    ClearRequests <- NoScopes
    DbMayFail = TRUE
CHECK_DEADLOCK FALSE
INVARIANTS
    TypeOK
    OneAlertPerFlow
    RollupWithinAlerts
    

