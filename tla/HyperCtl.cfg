SPECIFICATION FairSpec
CONSTANTS
    c1 = c1
    c2 = c2
    c3 = c3
    Clients = {c1, c2, c3}
    EarlyAttach = TRUE
    MaxCmds = 2
INVARIANTS AnswerMatches
PROPERTIES HelloAnswered HyperAnswered
\* The system may stop: every request has been answered.
CHECK_DEADLOCK FALSE
