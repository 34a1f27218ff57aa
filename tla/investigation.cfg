SPECIFICATION Spec
CHECK_DEADLOCK FALSE
CONSTANTS
    Policies = {"pol-1"}
    Issues = {"quoted", "invented"}
    Verified = {"quoted"}
    MaxAttempts = 3
    Parts = 2
    MaxTries = 2
INVARIANTS
    TypeOK
    PublishedWasReviewed
    ProposalsFollowAcceptedReports
    RefusedOnlyByOthers
PROPERTIES
    ImplementsReportLedger
