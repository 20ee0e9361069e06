SPECIFICATION FairSpec
CONSTANTS
    Procs = {p1, p2}
    Issued = {"start", "kill", "delete"}
    ReuseIds = FALSE
    WaitStart = FALSE
    Faults = {"vm", "rm"}
    MaxStarts = 1
INVARIANTS NoOrphanVM GoneIsUnregistered
PROPERTY DeleteCompletes
\* The system may stop: no command is issued.
CHECK_DEADLOCK FALSE
