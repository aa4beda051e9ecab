\* Two jobs of two flows while an administrator clears again and again.
SPECIFICATION FairSpec
CONSTANTS
    MaxJobs = 2
    Workers = 2
    MaxFlows = 2
    Types = {"dos"}
    Tags = {"Unknown", "Suspicious"}
    MaxStored = 1
    Simulations = FALSE
    ClearRequests <- AllScopes
    DbMayFail = FALSE
CHECK_DEADLOCK FALSE
INVARIANTS
    RowsReferToRows
PROPERTIES
    LifecycleSpec
    QueuedJobsEnd
