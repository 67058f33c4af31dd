SPECIFICATION FairSpec
CONSTANTS
    Modems = {m1, m2}
    Netdevs = {m2}
    Routers = {}
    Flaky = {m1}
    Threads = {w1}
    Interval = 2
    MinInterval = 1
    Attempts = 2
    Unique = TRUE
    AutoReboot = TRUE
    MaxScore = 3
    FaultPoints = 1
    OfflinePoints = 2
    Window = 1
    MinUptime = 1
    Overlap = FALSE
INVARIANT TypeOK
PROPERTIES ScheduleKept RotationsApart RebootEarned DueIsRotated
