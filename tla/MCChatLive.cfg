\* Two requests, clients that leave or cancel, nothing that dies.
SPECIFICATION FairSpec
CONSTANTS
    Requests = {r1, r2}
    Kinds = {"send", "regenerate", "delete"}
    Instances = {i1}
    NoRequest = NoRequest
    Disturbances = {"leave", "cancel"}
    MaxWords = 1
PROPERTIES
    RelayedTurnsEnd
    NobodyWaitsForever
CHECK_DEADLOCK FALSE
