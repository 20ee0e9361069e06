SPECIFICATION Spec
CONSTANTS
    Procs = {p1, p2}
    Issued = {"start", "kill", "toggle", "delete"}
    ReuseIds = TRUE
    WaitStart = FALSE
    Faults = {}
    MaxStarts = 1
SYMMETRY ProcSymmetry
PROPERTY ExistingRefused
\* The system may stop: no command is issued.
CHECK_DEADLOCK FALSE
