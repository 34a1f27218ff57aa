SPECIFICATION Spec
CHECK_DEADLOCK FALSE
CONSTANTS
    run1 = run1
    call1 = call1
    Runs = {run1}
    Calls = {call1}
    Environment = "production"
    Faults = {"resolve", "retry", "crash", "timeout"}
    MaxTokens = 4
INVARIANTS StagesFollowReceipts
