SPECIFICATION Spec
CONSTANTS
    Procs = {p1, p2}
    Issued = {"start", "kill", "toggle", "delete"}
    ReuseIds = FALSE
    WaitStart = TRUE
    Faults = {"create", "vm", "boot", "unmount", "rm", "proxy"}
    MaxStarts = 1
SYMMETRY ProcSymmetry
INVARIANTS NoRemnant
\* The system may stop: no command is issued.
CHECK_DEADLOCK FALSE
