\* Two customers, two shops, a mover: every interleaving of reads, writes,
\* locks and the stop of the mover.
SPECIFICATION FairSpec
CONSTANTS
    a = a
    b = b
    s1 = s1
    s2 = s2
    Mover = Mover
    Nobody = Nobody
    Customers = {a, b}
    Shops = {s1, s2}
    InitialStock = {0, 1}
    Needs = {1, 2}
    Delivery = 2
    ShelfCap = 2
INVARIANTS TypeOK NothingLost DestroyedWhenUnused
PROPERTIES Finishes
\* The program ends.
CHECK_DEADLOCK FALSE
