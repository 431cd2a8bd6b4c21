CONSTANTS
    Texts = {"lic1", "lic2"}
    SourceKeys <- MCSourceKeys
    Shifts = {0, 3, 128}
    ShiftArrays <- MCShiftArrays
    MaxLicenses = 3

SPECIFICATION Spec

INVARIANTS
    TypeOK
    DerivedKeyMatchesSpec
    LicenseRoundTrip
