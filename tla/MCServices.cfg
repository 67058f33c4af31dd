SPECIFICATION SpecAll
CONSTANTS
    Modems = {m1, m2}
    Workers = {w1, w2}
    NoModem = NoModem
    Secrets = {1, 2}
    StoreName = "store"
    MaxOps = 3
    Keys = {k1, k2}
    Ttls = {1, 2}
    MaxNow = 2
    OneAtATime = TRUE
    Addresses = {a1, a2}
    NoAddress = NoAddress
    Samplers = {s1}
    ReadsFail = FALSE
    MaxBytes = 2
    MaxRows = 3
    MaxEvents = 2
INVARIANTS LoginsWork WayInTracksLive UsageIsTraffic
PROPERTY StickyKept
CHECK_DEADLOCK FALSE
