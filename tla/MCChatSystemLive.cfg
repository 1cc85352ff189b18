SPECIFICATION FairSSpec
CONSTANTS
    Client = {a}
    Name = {a}
    Owner = {a}
    NoOwner = none
    Room = {r1}
    RoomOf <- MCRoomOf
    NickOf <- MCNickOf
    Conn = {c1}
    PageSize = 1
    QueueCap = 5
    DeferCap = 2
    UpCap = 2
    MaxId = 2
    MaxDraws = 2
    MaxAge = 0
    MaxDials = 2
    MaxQueue = 0
    StoreFails = TRUE
    LateCancel = FALSE
PROPERTIES Answered CatchesUp
