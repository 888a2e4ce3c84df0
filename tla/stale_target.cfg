SPECIFICATION Spec
CONSTANTS
    c1 = c1
    c2 = c2
    c3 = c3
    alice = alice
    bob = bob
    lobby = lobby
    den = den
    none = none
    Conn <- ThreeConn
    Fickle = {}
    Fd <- TwoFd
    User <- Both
    Admin = {alice}
    Room <- TwoRooms
    Lobby = lobby
    None = none
    Inputs <- KickQuitInputs
    MaxLines <- TwoLines
    MaxClients = 2
    MaxRooms = 2
    MaxHistory = 2
    PayloadCap = 2
    OutOfMemory = FALSE
    NoThread = FALSE
    Stoppable = FALSE
CHECK_DEADLOCK FALSE
INVARIANTS RightRecipient
