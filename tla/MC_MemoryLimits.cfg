\* Every limit the clamp tells apart, up to two changes deep, and a plan waiting.
SPECIFICATION Spec
CONSTANTS
    None = None
    Service <- MCService
    Volume = {"sovops_pgdata"}
    ManagedVolumes <- MCManagedVolumes
    Mb = 2
    Deployed <- MCDeployed
    Claimed <- MCClaimed
    Asked <- MCAsked
    Task = {t1}
    MaxPlans = 2
INVARIANTS
    LimitsTypeOK
    UndoRetraces
    RemediationGrows
