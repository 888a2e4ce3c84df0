SPECIFICATION FairSpec
CONSTANTS
    h1 = h1
    h2 = h2
    n1 = n1
    n2 = n2
    main = main
    sentinel = sentinel
    lobby = lobby
    den = den
    null = null
    Handler <- Handlers
    MainThread = main
    Thread <- Threads
    Node <- Nodes
    Msg <- Messages
    Null = null
    Room <- Rooms
    Lobby = lobby
    Entry <- Entries
    Blank = null
    MaxRooms = 1
    MaxHistory = 2
    Sentinel = sentinel
    MaxMsgs = 3
CHECK_DEADLOCK FALSE
INVARIANTS TypeOK NodesOwned WellLinked RingSound OrderedByCalls BroadcasterStays
PROPERTIES QueueImplements HistoryImplements EveryMessagePopped ShutdownCompletes
