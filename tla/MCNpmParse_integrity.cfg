CONSTANTS
    Uploads <- MCUploads
    MaxNameLen = 214

SPECIFICATION Spec

INVARIANT
    IntegrityVerified
