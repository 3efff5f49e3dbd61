SPECIFICATION Spec
CONSTANTS
    w1 = w1  w2 = w2  w3 = w3
    r1 = r1
    i1 = i1  i2 = i2  i3 = i3  i4 = i4
    Writer = {w1, w2, w3}
    Reader = {r1}
    Inode = {i1, i2, i3, i4}
    None = None
    Absent = Absent
    Empty = Empty
    NumChunks = 2
    MaxCrashes = 1
SYMMETRY Symmetric
CONSTRAINT WhileCalm
INVARIANTS
    TypeOK
    CalmWhole
    CalmReads
PROPERTIES
    KeepsPromise
CHECK_DEADLOCK FALSE
