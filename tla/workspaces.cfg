SPECIFICATION Spec
CONSTANTS
    Requests = {r1, r2}
    Generations = {g1, g2, g3}
    Seeds = {s1}
    Notes = {n1}
    Modes = {"demo", "cli"}
    Lifetime = 3
    Grace = 3
    RequestTimeout = 1
    ScanTimeout = 1
    None = None
    STAGING = STAGING
SYMMETRY Symmetry
INVARIANTS
    TypeOK
    PublishedIsWhole
PROPERTIES
    WritesFollowWholeReads
    KeptWhileUsed
    ImplementsWorkspaceRecords
