SPECIFICATION SSpec
CONSTANTS
    Client = {a, b}
    Name = {a, b}
    Owner = {a, b}
    NoOwner = none
    Room = {r1}
    RoomOf <- MCRoomOf
    NickOf <- MCNickOf
    Conn = {c1, c2}
    PageSize = 1
    QueueCap = 4
    DeferCap = 1
    UpCap = 1
    MaxId = 1
    MaxDraws = 2
    MaxAge = 0
    MaxDials = 3
    MaxQueue = 0
    StoreFails = FALSE
    LateCancel = FALSE
SYMMETRY Symmetry
VIEW View
INVARIANTS ViewIsCurrent
