SPECIFICATION FairSpec
CONSTANTS
    c1 = c1
    c2 = c2
    alice = alice
    pass1 = pass1
    pass2 = pass2
    Account = {alice}
    Password = {pass1, pass2}
    Conn <- TwoConn
    Commands = {"MSG"}
    MaxSignals = 1
    Files <- OneFile
CHECK_DEADLOCK FALSE
PROPERTIES GracefulShutdown
