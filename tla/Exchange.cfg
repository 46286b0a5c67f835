\* Two runs of the server one after the other, two clients, each of the four
\* mechanisms, one kill anywhere.
SPECIFICATION FairSpec
CONSTANTS
    s1 = s1
    s2 = s2
    a = a
    b = b
    Servers = {s1, s2}
    Clients = {a, b}
    Nobody = Nobody
    MaxKills = 1
INVARIANTS RightText Paired
PROPERTIES Answered
\* The programs end, or wait for a partner that does not come.
CHECK_DEADLOCK FALSE
