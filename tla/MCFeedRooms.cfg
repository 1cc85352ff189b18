SPECIFICATION FSpec
CONSTANTS
    Conn = {c1, c2, c3}
    Room = {r1, r2}
    Name = {n1}
    Owner = {o1, none}
    NoOwner = none
    PageSize = 1
    QueueCap = 4
    DeferCap = 1
    MaxId = 1
    MaxDraws = 2
    MaxAge = 0
    MaxQueue = 1
SYMMETRY Symmetry
VIEW View
INVARIANTS NamesExclusive CopyAgrees
