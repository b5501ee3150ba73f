\* Two requests of any kind on two instances, and everything that may disturb them.
SPECIFICATION Spec
CONSTANTS
    Requests = {r1, r2}
    Kinds = {"send", "regenerate", "rename", "restrict", "delete"}
    Instances = {i1, i2}
    NoRequest = NoRequest
    Disturbances = {"crash", "database", "leave", "cancel"}
    MaxWords = 1
SYMMETRY Interchangeable
INVARIANTS
    ChatTypeOK
    Numbered
    PromptsAreSettled
    ReplacesWhatEnded
    KeepsEveryWord
    CancelsReachTheRunning
PROPERTY KeepsTranscript
CHECK_DEADLOCK FALSE
