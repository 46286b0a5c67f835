\* Three clients, a pool of one to three workers that expire at the next tick
\* (with fewer no idle row is ever below another one), and a failure anywhere.
SPECIFICATION Spec
CONSTANTS
    a = a
    b = b
    c3 = c3
    Clients = {a, b, c3}
    NoClient = NoClient
    Start = 1
    MaxWorkers = 3
    IdleTimeout = 0
    MaxForks = 4
    MaxTime = 1
    MaxFailures = 1
SYMMETRY Symmetry
INVARIANTS TypeOK Exclusive TableExact RefusedOnlyByCrash BusyAccounted
\* The bounds on forks may stop the dispatcher.
CHECK_DEADLOCK FALSE
