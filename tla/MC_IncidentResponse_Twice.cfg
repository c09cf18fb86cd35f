\* An incident that is sent, diagnosed and delegated twice.
SPECIFICATION System
CONSTANTS
    None = None
    Unreadable = Unreadable
    triage = triage
    remediation = remediation
    e1 = e1
    t1 = t1
    t2 = t2
    i1 = i1
    i2 = i2
    r1 = r1
    r2 = r2
    r3 = r3
    human = human
    Tool <- MCTool
    Risk <- MCRisk
    AutoCeiling = 4
    EpisodeCeiling = 5
    Token = {triage, remediation}
    Tiers <- MCTiers
    Domain <- MCAlertDomain
    Episode = {e1, t1, t2, i1, i2}
    Ref = {r1}
    Approver = {human}
    Hash <- MCHash
    HashParams <- MCHashParams
    Requests <- MCRequests
    MaxRows = 3
    MaxRestarts = 0
    Service <- MCService
    Volume = {"sovops_pgdata"}
    ManagedVolumes <- MCManagedVolumes
    Mb = 2
    TaskId = {t1, t2}
    Incident <- MCAlertIncident
    Answers <- MCAgreement
    AgentToken = remediation
    MaxCrashes = 1
    Alert <- MCAlert
    Opinion <- MCOpinion
    AlertId = {i1, i2}
INVARIANTS
    OneRemediationPerIncident
CHECK_DEADLOCK FALSE
