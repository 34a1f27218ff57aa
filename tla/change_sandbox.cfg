SPECIFICATION Spec
CONSTANTS
    acme = acme
    jordan = jordan
    alex = alex
    priya = priya
    old = old
    events = events
    later = later
    crm = crm
    t1 = t1
    t2 = t2
    Employees = {alex}
    Customers = {acme}
    Contacts = {jordan}
    Endpoints = {old, events, later}
    Integrations = {crm}
    Tickets = {t1, t2}
    ProposalIds = {p1, p2}
    Requests = {r1, r2}
    EmployeeRecords <- NoRecords
    CustomerRecords <- NoRecords
    InitEmployee <- Engineers
    InitCustomer <- OpenCustomer
    InitIntegration <- Sandbox
    InitTicket <- CompetingTickets
    MinutesPerDay = 2
    MaxTime = 0
    MaxEvents = 2
SYMMETRY Symmetry
INVARIANTS
    OneReceiptPerVersion
    EndpointsFollowReceipts
    DeliveredWasReceived
PROPERTIES
    OutcomesAreOfWhatRuns
