SPECIFICATION Spec
CHECK_DEADLOCK FALSE
CONSTANTS
    Templates = {"v1", "v2", "broken"}
    Healthy = {"v1", "v2"}
    InitTemplate = "v1"
    MaxInvocations = 3
INVARIANTS
    ReceiptTellsWhatRuns
PROPERTIES
    OnlyCheckedUpdates
