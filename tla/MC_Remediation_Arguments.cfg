\* What the agent calls drop_volume with.
SPECIFICATION RemSpec
CONSTANTS
    None = None
    triage = triage
    remediation = remediation
    e1 = e1
    t1 = t1
    t2 = t2
    r1 = r1
    r2 = r2
    r3 = r3
    human = human
    Tool <- MCTool
    Risk <- MCRisk
    AutoCeiling = 4
    EpisodeCeiling = 5
    Token = {triage, remediation}
    Tiers <- MCTiers
    Domain <- MCDomain
    Episode = {e1, t1, t2}
    Ref = {r1, r2}
    Approver = {human}
    Hash <- MCHash
    HashParams <- MCHashParams
    Requests <- MCRequests
    MaxRows = 5
    MaxRestarts = 1
    Service <- MCService
    Volume = {"sovops_pgdata"}
    ManagedVolumes <- MCManagedVolumes
    Mb = 2
    TaskId = {t1, t2}
    Incident <- MCIncident
    Answers <- MCAnswers
    AgentToken = remediation
    MaxCrashes = 1
INVARIANTS
    ArgumentsFitHandler
CHECK_DEADLOCK FALSE
