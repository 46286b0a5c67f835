\* Two users with a line each: an inbox with one free slot, and a message ring
\* of two slots that is overrun.
SPECIFICATION Spec
CONSTANTS
    a = a
    b = b
    n1 = n1
    n2 = n2
    Clients = {a, b}
    NamesOf <- OwnName
    NoName = NoName
    MaxInbox = 2
    MaxMsg = 4
    MaxClient = 1
    MaxLines = 1
    MaxDeaths = 1
SYMMETRY Swap
INVARIANTS InboxFaithful HistoryRing DisplayFaithful
PROPERTIES ImplementsService
CHECK_DEADLOCK FALSE
