\* Six requests of seven workloads, three of them under way at once; transactions
\* fail; chunks of four characters, and one hit from a base.
SPECIFICATION FairSpec
CONSTANTS
    r1 = r1
    r2 = r2
    r3 = r3
    r4 = r4
    r5 = r5
    r6 = r6
    o1 = o1
    o2 = o2
    n1 = n1
    n2 = n2
    Orgs = {o1, o2}
    Requests = {r1, r2, r3, r4, r5, r6}
    Names = {n1, n2}
    Slugs = {n1}
    Bodies <- MCBodies
    Workloads <- MCWorkloads
    MAX_CHUNK_CHARS = 4
    CHAT_RETRIEVE_LIMIT = 2
    BASE_LIMIT = 1
    RUN_LIMIT = 1
    MAX_FILES = 3
    MaxConcurrent = 3
    Disturbances = {"database"}
    None = None
INVARIANTS
    WholeDocuments
    CitesOwnShelf
    RunsTellTheirSteps
PROPERTIES
    EveryLibraryRequestEnds
CHECK_DEADLOCK FALSE
