SPECIFICATION Spec
CONSTANTS
    Room = {r1, r2}
    Owner = {o1, none}
    NoOwner = none
    PageSize = 2
    Reader = {c1}
    MaxId = 3
    MaxDraws = 3
SYMMETRY Symmetry
INVARIANTS TypeOK InstanceVouches MemoryAgrees Referential
PROPERTIES  IdsGrow KeepsContract
