SPECIFICATION FairSpec
CHECK_DEADLOCK FALSE
CONSTANTS
    run1 = run1
    call1 = call1
    Runs = {run1}
    Calls = {call1}
    Environment = "sandbox"
    Faults = {"crash", "timeout", "resolve"}
    MaxTokens = 3
PROPERTIES CommittedActionsAdvance FinishedJobsAdvance
INVARIANTS TypeOK WaitsStayRegistered
