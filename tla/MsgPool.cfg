\* Two well-formed requests and one of the repository's client; a queue of one
\* task, two to four workers of which one may die at any point.
SPECIFICATION FairSpec
CONSTANTS
    a = a
    b = b
    s = s
    Clients = {a, b, s}
    WellFormed = {a, b}
    START = 2
    MAX = 4
    IDLE_TIMEOUT = 1
    QueueCap = 1
    MaxForks = 5
    MaxTime = 2
    MaxDeaths = 1
INVARIANTS TypeOK TableExact AckedOnce
PROPERTIES Answered
\* All clients were answered: the server waits in accept.
CHECK_DEADLOCK FALSE
