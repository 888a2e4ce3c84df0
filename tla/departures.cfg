SPECIFICATION FairSpec
CONSTANTS
    c1 = c1
    c2 = c2
    c3 = c3
    alice = alice
    bob = bob
    lobby = lobby
    den = den
    none = none
    Conn <- TwoConn
    Fickle = {c2}
    Fd <- TwoFd
    User <- Both
    Admin = {alice}
    Room <- TwoRooms
    Lobby = lobby
    None = none
    Inputs <- AdminInputs
    MaxLines <- TwoLines
    MaxClients = 2
    MaxRooms = 2
    MaxHistory = 2
    PayloadCap = 2
    OutOfMemory = TRUE
    NoThread = FALSE
    Stoppable = FALSE
CHECK_DEADLOCK FALSE
PROPERTIES KickEndsSession HangupEndsSession
