SPECIFICATION Spec
CONSTANTS
    MAX_AB = 2
    n1 = n1
    n2 = n2
    n3 = n3
    Nodes = {n1, n2, n3}
    NULL = NULL
    Width = 2
    Numbers = {0, 1, 2, 3, 5}
INVARIANTS LinksAgree
PROPERTIES BookKept
CHECK_DEADLOCK FALSE
