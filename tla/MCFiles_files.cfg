SPECIFICATION Spec
CONSTANTS
    r1 = r1
    r2 = r2
    notes = notes
    notes1 = notes1
    p0 = p0
    p1 = p1
    p2 = p2
    b1 = b1
    b2 = b2
    b3 = b3
    Nobody = Nobody
    NoName = NoName
    NoPath = NoPath
    Req = {r1, r2}
    Name = {notes, notes1}
    Path = {p0, p1, p2, b1, b2, b3}
    BodyPath = {b1, b2, b3}
    Candidates <- TwoNames
    MayFail = TRUE
SYMMETRY Symmetry
CHECK_DEADLOCK FALSE
INVARIANTS
    TypeOK
    OnlyRefusedLose
    OrphansAreReplaced
