CONSTANTS
    Callers = {g1, g2}
    Names = {"label"}
    Files = {"a", "sub/"}
    FileOrder <- MCFileOrder
    MaxChanges = 1

SPECIFICATION FairSpec

INVARIANTS
    TypeOK
    NoDuplicates

PROPERTY
    CacheFills
