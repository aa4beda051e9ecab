\* Three packets of one flow, one periodic classification beside the final one.
SPECIFICATION Spec
CONSTANTS
    w1 = w1
    Frames <- MCFrames
    Protocols = {"TCP", "UDP"}
    Address <- MCAddress
    Port <- MCPort
    MinPackets = 2
    Models <- MCModels
    Workers = {w1}
    MaxPackets = 3
    MaxSweeps = 1
    MaxSwitches = 1
INVARIANTS
    ClosedFlowsAreExact
    SnapshotsAreBracketed
    LossesAreExplained
CHECK_DEADLOCK FALSE
