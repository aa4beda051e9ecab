\* One TCP and one UDP key, two capture threads, two flow objects, the wiring of capture_service.
SPECIFICATION FairSpec
CONSTANTS
    k1 = k1
    k2 = k2
    s1 = s1
    s2 = s2
    Keys = {k1, k2}
    TcpKeys = {k1}
    Sniffers = {s1, s2}
    MaxFlows = 2
    IdleTimeout = 1
    MaxDuration = 2
    ClassifyInterval = 1
    MinPackets = 2
    PacketCap = 2
    Lags = {0, 1}
    PeriodicWired = TRUE
INVARIANTS
    TypeOK
    ExactlyOneOwner
    TableFlowsAreOpen
PROPERTIES
    LedgerSpec
    OpenFlowsClose
