\* Two scenarios, with and without a baseline, whatever the agents do.
SPECIFICATION Spec
CONSTANTS
    None = None
    Suite <- MCSuite
    Routing <- MCRouting
    Reason = {"", "why"}
    Tool <- MCTool
    FailureMode <- MCFailureMode
    Text <- MCText
    Baseline <- MCBaseline
    MaxCost = 1
    MaxRuns = 1
INVARIANTS
    CleanExit
    HardMeansHappened
    AnswerIsRead
CHECK_DEADLOCK FALSE
