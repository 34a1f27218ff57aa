SPECIFICATION FairSpec
CONSTANTS
    alex = alex
    Employees = {alex}
    Tickets = {t1}
    Keys = {k1}
    JobIds = {j1}
    Requests = {r1}
    Workers = {w1}
    InitHolder <- AssignedToAlex
    Changing = {t1}
    Outcomes = {"blocked", "proposal_candidate"}
    StateMachine = FALSE
    Limit = 1
    Earlier = {0}
    MaxReceives = 1
    MaxCopies = 1
PROPERTIES
    LostAccessFailsJobs
