SPECIFICATION Spec
CONSTANTS
    c1 = c1  c2 = c2
    x1 = x1  x2 = x2
    Client = {c1, c2}
    Data = {x1, x2}
    Absent = Absent
    Empty = Empty
    MaxVersion = 3
    MaxFaults = 1
SYMMETRY Symmetric
INVARIANTS
    TypeOK
    ValidIsCurrent
    OpenFresh
