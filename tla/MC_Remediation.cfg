\* Two tasks, two approvals, a restart of either process, and ceilings that refer an
\* increase of memory to a person, as they do a volume; task ids run out, and
\* then nothing is left to do.
SPECIFICATION RemSpec
CONSTANTS
    None = None
    triage = triage
    remediation = remediation
    e1 = e1
    t1 = t1
    t2 = t2
    r1 = r1
    r2 = r2
    r3 = r3
    human = human
    Tool <- MCTool
    Risk <- MCRisk
    AutoCeiling = 3
    EpisodeCeiling = 5
    Token = {triage, remediation}
    Tiers <- MCTiers
    Domain <- MCDomain
    Episode = {e1, t1, t2}
    Ref = {r1, r2}
    Approver = {human}
    Hash <- MCHash
    HashParams <- MCHashParams
    Requests <- MCRequests
    MaxRows = 5
    MaxRestarts = 1
    Service <- MCService
    Volume = {"sovops_pgdata"}
    ManagedVolumes <- MCManagedVolumes
    Mb = 2
    TaskId = {t1, t2}
    Incident <- MCIncident
    Answers <- MCAnswers
    AgentToken = remediation
    MaxCrashes = 1
SYMMETRY Symmetry
INVARIANTS
    RemTypeOK
    OneWritePerTask
    RunsAsDisplayed
    PauseCanBeAnswered
    AnswersAreTrue
    WorkingIsServed
PROPERTIES
    AgentLivesByTheBook
    ClosedIsQuiet
CHECK_DEADLOCK FALSE
