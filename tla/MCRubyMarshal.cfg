CONSTANTS
    Values <- MCValues
    Names <- MCNames
    StrLen <- MCStrLen

SPECIFICATION Spec

INVARIANTS
    TypeOK
    StreamLoads
