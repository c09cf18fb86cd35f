\* The memory of a container that could not be read.
SPECIFICATION Spec
CONSTANTS
    None = None
    Unreadable = Unreadable
    TaskId = {t1}
    PeerTaskId = {p1, p2}
    Alert <- MCAlert
    Stats <- MCStats
    Inspection <- MCInspection
    Opinion <- MCOpinion
    PeerState <- MCPeerState
    MaxCrashes = 1
PROPERTY
    HealthyWasMeasured
CHECK_DEADLOCK FALSE
