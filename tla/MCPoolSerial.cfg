SPECIFICATION FairSpec
CONSTANTS
    Modems = {m1, m2}
    Threads = {w1}
    Timers = {t1}
    MaxChanges = 4
    MaxPasswords = 6
    Hazards = {"kill", "reboot", "blank password"}
INVARIANTS TypeOK RunningIsFile NoIdleRestart KeysKept
PROPERTY PoolComesInLine
