SPECIFICATION ReviewSpec
CONSTANTS
    acme = acme
    jordan = jordan
    alex = alex
    priya = priya
    old = old
    events = events
    later = later
    crm = crm
    t1 = t1
    t2 = t2
    t3 = t3
    globex = globex
    billing = billing
    Employees = {alex, priya}
    Customers = {acme, globex}
    Contacts = {jordan}
    Endpoints = {old, events, later}
    Integrations = {crm, billing}
    Tickets = {t1, t2, t3}
    ProposalIds = {p1, p2, p3}
    Requests = {r1}
    EmployeeRecords <- NoRecords
    CustomerRecords <- NoRecords
    InitEmployee <- ReviewStaff
    InitCustomer <- TwoCustomers
    InitIntegration <- TwoIntegrations
    InitTicket <- ThreeTickets
    MinutesPerDay = 2
    MaxTime = 0
    MaxEvents = 1
SYMMETRY Symmetry
INVARIANTS
    TicketShowsLatestOutcome
PROPERTIES
    ShownStatusWasHeld
