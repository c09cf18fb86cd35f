\* The books of two incidents, with ceilings a cluster-wide action fits under, so
\* that only the categorical rules stop data loss; and the promise of Consent.
SPECIFICATION Spec
CONSTANTS
    None = None
    get_metrics = get_metrics
    restart_service = restart_service
    scale_memory = scale_memory
    restore_memory = restore_memory
    drop_volume = drop_volume
    restart_cluster = restart_cluster
    restore_snapshot = restore_snapshot
    triage = triage
    remediation = remediation
    stranger = stranger
    d1 = d1
    d2 = d2
    e1 = e1
    e2 = e2
    r1 = r1
    r2 = r2
    human = human
    Tool <- MCDataTool
    Risk <- MCDataRisk
    AutoCeiling = 64
    EpisodeCeiling = 65
    Token = {triage, remediation, stranger}
    Tiers <- MCTiers
    Domain = {d1, d2}
    Episode = {e1, e2}
    Ref = {r1, r2}
    Approver = {human}
    Hash <- MCHash
    HashParams <- MCHashParams
    Requests <- MCBudgetRequests
    MaxRows = 3
    MaxRestarts = 1
INVARIANTS
    AutonomyBounded
    BudgetMatchesLedger
    RefusalsAccounted
    NothingCategoricalAlone
PROPERTIES
    ConsentKept
