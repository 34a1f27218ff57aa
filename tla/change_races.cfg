SPECIFICATION Spec
CONSTANTS
    acme = acme
    jordan = jordan
    alex = alex
    priya = priya
    old = old
    events = events
    later = later
    crm = crm
    t1 = t1
    t2 = t2
    Employees = {alex, priya}
    Customers = {acme}
    Contacts = {jordan}
    Endpoints = {old, events, later}
    Integrations = {crm}
    Tickets = {t1}
    ProposalIds = {p1, p2}
    Requests = {r1, r2}
    EmployeeRecords <- OnlyLeaver
    CustomerRecords <- NarrowedRegistry
    InitEmployee <- Staff
    InitCustomer <- WindowedCustomer
    InitIntegration <- Production
    InitTicket <- OneTicket
    MinutesPerDay = 2
    MaxTime = 1
    MaxEvents = 1
SYMMETRY Symmetry
INVARIANTS
    TypeOK
    ProductionIsIndependentlyApproved
    OneProposalPerSnapshot
    AnswersAreStored
    ReliedUponStaysTrue
PROPERTIES
    ReceiptsAreImmutable
    ImplementsChangeControl
