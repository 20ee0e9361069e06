SPECIFICATION MCSpec
CONSTANTS
    Kinds = {"launch", "pod", "start", "exec", "kill", "destroy", "bye", "go"}
    MaxBody = 2
    Faults = {"connect", "cloexec", "wide", "proxy", "refuse"}
    Procs = {p1, p2}
    MaxEvents = 2
    QFaults = {"exit"}
INVARIANTS ResponseMatches FailureHasReason SuccessIsExecuted
PROPERTIES CommandReturns ToggleReturns
\* Both end, and a client may wait for ever.
CHECK_DEADLOCK FALSE
