SPECIFICATION FSpec
CONSTANTS
    Conn = {c1, c2}
    Room = {r1}
    Name = {n1, n2}
    Owner = {o1}
    NoOwner = none
    PageSize = 1
    QueueCap = 4
    DeferCap = 2
    MaxId = 3
    MaxDraws = 2
    MaxAge = 0
    MaxQueue = 1
SYMMETRY Symmetry
VIEW View
INVARIANTS TypeOK CopyAgrees SyncAgrees EveryCutResumes UsersAgree
