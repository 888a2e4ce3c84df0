SPECIFICATION Spec
CONSTANTS
    c1 = c1
    c2 = c2
    c3 = c3
    alice = alice
    bob = bob
    lobby = lobby
    den = den
    none = none
    Conn <- TwoConn
    Fickle = {}
    Fd <- TwoFd
    User <- Both
    Admin = {}
    Room <- TwoRooms
    Lobby = lobby
    None = none
    Inputs <- SessionInputs
    MaxLines <- TwoLines
    MaxClients = 2
    MaxRooms = 2
    MaxHistory = 2
    PayloadCap = 2
    OutOfMemory = FALSE
    NoThread = FALSE
    Stoppable = FALSE
SYMMETRY Symmetry
CHECK_DEADLOCK FALSE
INVARIANTS NoUseAfterFree
