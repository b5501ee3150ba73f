\* A client that leaves before the first events have reached it.
SPECIFICATION FairSpec
CONSTANTS
    Requests = {r1}
    Kinds = {"send"}
    Instances = {i1}
    NoRequest = NoRequest
    Disturbances = {"leave"}
    MaxWords = 1
PROPERTY AlwaysFinalized
CHECK_DEADLOCK FALSE
