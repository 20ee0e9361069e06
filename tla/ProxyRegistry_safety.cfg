SPECIFICATION Spec
CONSTANTS
    c1 = c1
    c2 = c2
    a = a
    b = b
    v1 = v1
    v2 = v2
    v3 = v3
    Clients = {c1, c2}
    Ids = {a, b}
    VMs = {v1, v2, v3}
    EmptyId = b
SYMMETRY RegistrySymmetry
INVARIANTS FailedIsUnregistered LostOnlyByBye
PROPERTY OthersRemovedLate
\* The system may stop: every client has disconnected.
CHECK_DEADLOCK FALSE
