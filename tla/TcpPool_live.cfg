\* Liveness of the same pool.  Four forks are as many as this clock allows: the
\* bound stops nothing.
SPECIFICATION FairSpec
CONSTANTS
    a = a
    b = b
    c3 = c3
    Clients = {a, b}
    NoClient = NoClient
    Start = 1
    MaxWorkers = 2
    IdleTimeout = 1
    MaxForks = 4
    MaxTime = 2
    MaxFailures = 1
PROPERTIES Answered
CHECK_DEADLOCK FALSE
