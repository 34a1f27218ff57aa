SPECIFICATION FairSpec
CONSTANTS
    alex = alex
    Employees = {alex}
    Tickets = {t1}
    Keys = {k1}
    JobIds = {j1}
    Requests = {r1}
    Workers = {w1, w2}
    InitHolder <- AssignedToAlex
    Changing = {t1}
    Outcomes = {"blocked", "proposal_candidate"}
    StateMachine = TRUE
    Limit = 1
    Earlier = {0}
    MaxReceives = 2
    MaxCopies = 1
PROPERTIES
    JobsFinish
    OnlyTheClaimWrites
    JobsNeverRewind
INVARIANTS
    OneLivePerJob
    ResultsAreCompletedJobs
