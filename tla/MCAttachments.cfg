\* Three files and two messages of two conversations, two racing deletes; the
\* database and the store may fail.
SPECIFICATION Spec
CONSTANTS
    f1 = f1
    f2 = f2
    f3 = f3
    m1 = m1
    m2 = m2
    t1 = t1
    t2 = t2
    Threads = {t1, t2}
    Files = {f1, f2, f3}
    Messages = {m1, m2}
    Deletes = {d1, d2}
    Downloads = {g1}
    ThreadOf <- MCThreadOf
    Nobody = Nobody
    NoFile = NoFile
    Limit = 2
    Disturbances = {"database", "store"}
INVARIANTS
    AttachmentsTypeOK
    BytesBehindRows
    NothingLeftBehind
    SentWhole
PROPERTY KeepsCabinet
CHECK_DEADLOCK FALSE
