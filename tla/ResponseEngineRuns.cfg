\* Two workers and one server answer two alerts of one attacker.
SPECIFICATION Spec
CONSTANTS
    w1 = w1
    w2 = w2
    p1 = p1
    a1 = a1
    a2 = a2
    ip1 = ip1
    Workers = {w1, w2}
    Servers = {p1}
    Home <- OneHome
    Alerts = {a1, a2}
    Ips = {ip1}
    SourceOf <- OneAttacker
    Policies <- BlockOrTell
    ManualLists <- Requests
    LiveEnabled = TRUE
    DbMayFail = TRUE
    MaxRuns = 2
    NoAlert = NoAlert
SYMMETRY Interchangeable
INVARIANTS
    TypeOK
    
    
    RollbackKeepsMode
    
