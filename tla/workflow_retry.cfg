SPECIFICATION FairSpec
CHECK_DEADLOCK FALSE
CONSTANTS
    run1 = run1
    call1 = call1
    Runs = {run1}
    Calls = {call1}
    Environment = "sandbox"
    Faults = {"retry"}
    MaxTokens = 4
PROPERTIES CommittedActionsAdvance
