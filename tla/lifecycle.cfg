SPECIFICATION FairSpec
CONSTANTS
    c1 = c1
    c2 = c2
    alice = alice
    pass1 = pass1
    pass2 = pass2
    Account = {alice}
    Password = {pass1, pass2}
    Conn <- OneConn
    Commands = {"AUTH", "JOIN_ROOM", "MSG", "HISTORY", "LOOKUP"}
    MaxSignals = 2
    Files <- SmallFiles
CHECK_DEADLOCK FALSE
INVARIANTS TypeOK BroadcasterSafe DestroyedOnce EndsClean LastLineCounts
PROPERTIES ShutdownEnds
