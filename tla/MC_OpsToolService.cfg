\* Approvals and restarts: every way a call can be turned away, and approvals
\* presented twice, for other arguments, from elsewhere and after a restart.
SPECIFICATION Spec
CONSTANTS
    None = None
    get_metrics = get_metrics
    restart_service = restart_service
    scale_memory = scale_memory
    restore_memory = restore_memory
    drop_volume = drop_volume
    restart_cluster = restart_cluster
    restore_snapshot = restore_snapshot
    triage = triage
    remediation = remediation
    stranger = stranger
    d1 = d1
    d2 = d2
    e1 = e1
    e2 = e2
    r1 = r1
    r2 = r2
    human = human
    Tool <- MCTool
    Risk <- MCRisk
    AutoCeiling = 4
    EpisodeCeiling = 5
    Token = {triage, remediation, stranger}
    Tiers <- MCTiers
    Domain = {d1, d2}
    Episode = {e1, e2}
    Ref = {r1, r2}
    Approver = {human}
    Hash <- MCHash
    HashParams <- MCHashParams
    Requests <- MCRequests
    MaxRows = 4
    MaxRestarts = 1
SYMMETRY RefSymmetry
INVARIANTS
    TypeOK
    ReleasedAsRefused
    PendingIsOnRecord
    AnswerIsOnRecord
PROPERTIES
    ApprovalNotBurnt
