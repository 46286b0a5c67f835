\* Two users; a history and a screen that are too short for what is said, and
\* queues of one message.  The clients may all leave: the server then waits.
SPECIFICATION FairSpec
CONSTANTS
    a = a
    b = b
    Clients = {a, b}
    NoName = NoName
    QueueLen = 1
    MAX_CLIENT = 2
    MAX_HISTORY = 2
    MAX_LINE = 2
    MaxTyped = 2
    MaxDeaths = 1
INVARIANTS TypeOK ScreenFaithful
PROPERTIES ImplementsService Delivered
CHECK_DEADLOCK FALSE
