SPECIFICATION Spec
CONSTANTS
    Bands = {b1, b2, b3}
    NrBands = {n1}
    Procs = {p1, p2}
    Strikes = 1
    MaxRequests = 2
    Hazards = {"overlap", "kill", "refuse", "narrow", "lost"}
SYMMETRY Symmetry
INVARIANT RestorePointIsOwnMask
PROPERTY MaskIsKept
