SPECIFICATION FairSpec
CONSTANTS
    a = a
    b = b
    n1 = n1
    n2 = n2
    Clients = {a, b}
    NamesOf <- OneOrOther
    NoName = NoName
    MaxInbox = 2
    MaxMsg = 2
    MaxClient = 1
    MaxLines = 0
    MaxDeaths = 1
INVARIANTS TypeOK TableIsFirstJoins
PROPERTIES PushServed QuitEnds ReceiverFollows
CHECK_DEADLOCK FALSE
