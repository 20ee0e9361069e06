SPECIFICATION Spec
CONSTANTS
    s1 = s1
    s2 = s2
    Sessions = {s1, s2}
    NStreams = {1, 2}
    Consoles = {"off", "run"}
    SockCap = 1
    MaxOut = 2
    MaxIn = 1
ACTION_CONSTRAINT OneDirection
SYMMETRY SessionSymmetry
INVARIANTS OutputInOrder GloballyUnique
\* The system may stop: every goroutine has ended, or waits for a client or a
\* guest that stays quiet.
CHECK_DEADLOCK FALSE
