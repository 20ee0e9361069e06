SPECIFICATION Spec
CONSTANTS
    c1 = c1
    Clients = {c1}
    EarlyAttach = FALSE
    MaxCmds = 1
INVARIANT SuccessIsAcked
\* The system may stop: every request has been answered.
CHECK_DEADLOCK FALSE
