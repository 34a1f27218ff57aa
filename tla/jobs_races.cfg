SPECIFICATION Spec
CONSTANTS
    alex = alex
    Employees = {alex}
    Tickets = {t1}
    Keys = {k1, k2}
    JobIds = {j1, j2}
    Requests = {r1, r2}
    Workers = {w1}
    InitHolder <- AssignedToAlex
    Changing = {}
    Outcomes = {"blocked"}
    StateMachine = FALSE
    Limit = 2
    Earlier = {0, 1}
    MaxReceives = 1
    MaxCopies = 1
SYMMETRY Symmetry
INVARIANTS
    TypeOK
    MarkersAreUnfinishedJobs
    KeysLeadToTheirJob
PROPERTIES
    AllowanceCountsJobs
    ImplementsJobLedger
