SPECIFICATION FairSpec
CONSTANTS
    Bands = {b1, b2, b3}
    NrBands = {n1}
    Procs = {p1}
    Strikes = 3
    MaxRequests = 3
    Hazards = {"switch"}
INVARIANT NotStuck
PROPERTY DeadCellFreed
