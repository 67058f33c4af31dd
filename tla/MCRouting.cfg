SPECIFICATION MCSpec
CONSTANTS
    d1 = d1 d2 = d2 r1 = r1 r2 = r2
    a1 = a1 a2 = a2 a3 = a3
    Dongles = {d1, d2}
    Routers = {r1, r2}
    Addrs = {a1, a2, a3}
    Timers = {t1}
    Threads = {w1}
    MaxChanges = 3
    Hazards = {"overlap", "kill"}
    Procs = {p1}
    Jobs = {"status"}
    NoProc = none
    MaxSession = 1
INVARIANT RoutersApart
PROPERTY RoutesSettle
