SPECIFICATION SSpec
CONSTANTS
    Client = {a}
    Name = {a}
    Owner = {a}
    NoOwner = none
    Room = {r1}
    RoomOf <- MCRoomOf
    NickOf <- MCNickOf
    Conn = {c1, c2}
    PageSize = 1
    QueueCap = 5
    DeferCap = 2
    UpCap = 2
    MaxId = 2
    MaxDraws = 3
    MaxAge = 1
    MaxDials = 2
    MaxQueue = 0
    StoreFails = TRUE
    LateCancel = TRUE
SYMMETRY Symmetry
VIEW View
INVARIANTS  CursorInLog RequestsAnswered CatchUpMoves
