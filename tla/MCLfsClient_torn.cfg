CONSTANTS
    Procs = {g1, g2}
    Oids = {o1}
    MaxCrashes = 1

SYMMETRY MCSymmetry

SPECIFICATION Spec

INVARIANTS
    DownloadsWholeObjects
