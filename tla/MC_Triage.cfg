\* Two tasks and two of the peer, a restart of either process; task ids run
\* out, and then nothing is left to do.
SPECIFICATION FairSpec
CONSTANTS
    None = None
    Unreadable = Unreadable
    TaskId = {t1, t2}
    PeerTaskId = {p1, p2}
    Alert <- MCAlert
    Stats <- MCStats
    Inspection <- MCInspection
    Opinion <- MCOpinion
    PeerState <- MCPeerState
    MaxCrashes = 1
INVARIANTS
    TypeOK
    NothingDelegatedBlind
    PeerSurfaced
    LateOnlyWhenFailed
PROPERTIES
    TriageLivesByTheBook
    HealthyWasRead
    TriageEnds
CHECK_DEADLOCK FALSE
