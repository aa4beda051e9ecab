\* Two sessions after one another over one TCP key, three flow objects.
SPECIFICATION FairServiceSpec
CONSTANTS
    k1 = k1
    s1 = s1
    s2 = s2
    NoSession = NoSession
    Keys = {k1}
    TcpKeys = {k1}
    Sniffers = {s1, s2}
    MaxFlows = 3
    IdleTimeout = 1
    MaxDuration = 1
    ClassifyInterval = 1
    MinPackets = 1
    PacketCap = 1
    Lags = {0}
    PeriodicWired = TRUE
INVARIANTS
    ServiceTypeOK
    NoOrphanCapture
    NothingLeftBehind
PROPERTIES
    
    StopHandsOverEveryFlow
