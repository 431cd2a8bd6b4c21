CONSTANTS
    Callers = {g1, g2}
    Names = {"label"}
    Files = {"a", "sub/"}
    FileOrder <- MCFileOrder
    MaxChanges = 1

SYMMETRY MCSymmetry

SPECIFICATION Spec

INVARIANTS
    DirReturnsItsScan

