SPECIFICATION MCSpec
CONSTANTS
    s1 = s1
    s2 = s2
    Sessions = {s1, s2}
    NStreams = {1, 2}
    Consoles = {"off", "run"}
    SockCap = 1
    MaxOut = 1
    MaxIn = 2
INVARIANT OpenIsRegistered
PROPERTIES CloseTerminates SessionsEnd LossDetected OutputDelivered ImplementsPipes
\* The system may stop: every goroutine has ended, or waits for a client or a
\* guest that stays quiet.
CHECK_DEADLOCK FALSE
