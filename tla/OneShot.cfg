SPECIFICATION FairSpec
CONSTANTS
    a = a
    b = b
    c3 = c3
    Clients = {a, b, c3}
    Mixes <- Some
    Server = Server
    Nobody = Nobody
    MaxFailures = 1
INVARIANTS WholeReply
PROPERTIES Served
CHECK_DEADLOCK FALSE
