CONSTANTS
    Keys = {"req", "error"}
    Vals = {v1, v2}
    MaxEntries = 3
    LogLevel = 2
    StackLevel = 4
    NoCaller = FALSE

SPECIFICATION Spec

\* Fatal ends the process with os.Exit(1): nothing follows it.
CHECK_DEADLOCK FALSE

INVARIANT LoggedLineHasFields
