SPECIFICATION FairSpec
CONSTANTS
    Stdins = {"tty", "pipe", "closed"}
    PipeCap = 2
    SockCap = 3
    MaxEvents = 3
    LateOutput = FALSE
    Faults = {"stdout", "proxy"}
INVARIANTS SignalsInOrder OutputShown ExitStatusCaptured
PROPERTIES ExitReported InputForwarded
\* A shim that has ended is done, and one without signals, input and output
\* waits in poll.
CHECK_DEADLOCK FALSE
